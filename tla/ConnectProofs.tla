---------------------------- MODULE ConnectProofs ----------------------------
(***************************************************************************)
(* What a caller of connect() that is rejected is left with, for every     *)
(* server, transport and verifier of Connect.                              *)
(*                                                                         *)
(* connect() never closes the client itself: it cancels the reader, and    *)
(* the read loop calls close() on its way out.  That the client is closed  *)
(* when the caller hears of it follows from where the terminal event of a  *)
(* closed session is: in the queue, with a poll still to run, on the stack *)
(* as a shutdown, or behind a client that is closed.                       *)
(*                                                                         *)
(* Before that: one attempt to authenticate at a time, because the two     *)
(* sides take turns; the order of the callbacks ready and close, because   *)
(* a shutdown is begun only when the turn has ended or the last event has  *)
(* been polled; and therefore what decides the promise, and that behind    *)
(* the rejection nothing is sent.                                          *)
(***************************************************************************)
EXTENDS Connect, ClientProofs

\* How far the catch handler is.
CleanupInv ==
    /\ reader \in {"reading", "cancelled", "stopped"}
    /\ cleanup \in {"none", "reader.cancel", "writer.close", "socket.close", "done"}
    /\ reader = "stopped" => client.intentionalClose \/ client.closed
    /\ cleanup # "none" => reader # "reading"
    /\ cleanup \notin {"none", "reader.cancel"} => reader = "stopped" /\ client.closed
    /\ result = "rejected" => cleanup = "done"

ConnectInv == ClientInv /\ TypeInv /\ EndInv /\ CleanupInv

-----------------------------------------------------------------------------
\* A step of the client, the handler of the cleanup standing still.
LEMMA ClientStep ==
    ASSUME ConnectInv, ClientInv', ClientTyped, EndInv', Forward, to_client' \in Seq(Incoming),
           UNCHANGED <<reader, cleanup>>, result' = result \/ result' = "resolved"
    PROVE  ConnectInv'
BY DEF ConnectInv, TypeInv, ClientTyped, CleanupInv, Forward

\* A step that leaves the client alone.
LEMMA HandlerStep ==
    ASSUME ConnectInv, clientUnchanged, ServerTyped, CleanupInv'
    PROVE  ConnectInv'
<1>1. ClientInv'
  BY UnchangedHolds DEF ConnectInv
<1>2. EndInv' /\ Typed(engine')
  BY DEF ConnectInv, clientUnchanged, EndInv, TypeInv, Typed, Terminates, Has
<1> QED
  BY <1>1, <1>2 DEF ConnectInv, TypeInv, ServerTyped

\* close() on a client that may be closed.
LEMMA ClosesClient ==
    ASSUME ConnectInv, CloseClient, to_client' = to_client
    PROVE  /\ ClientInv' /\ TypeInv' /\ EndInv' /\ Forward
           /\ client'.intentionalClose \/ client'.closed
<1>1. CASE client.closed
  <2>1. clientUnchanged /\ UNCHANGED to_server
    BY <1>1 DEF CloseClient
  <2>2. ClientInv'
    BY <2>1, UnchangedHolds DEF ConnectInv
  <2>3. EndInv' /\ TypeInv' /\ Forward
    BY <2>1 DEF ConnectInv, clientUnchanged, EndInv, TypeInv, Typed, Terminates, Has, Forward
  <2> QED
    BY <1>1, <2>1, <2>2, <2>3 DEF clientUnchanged
<1>2. CASE ~client.closed
  <2>1. Close
    BY <1>2 DEF CloseClient
  <2> QED
    BY <2>1, CallsEnd, CallsKeepStack, CallsKeepPromises
       DEF ConnectInv, ClientInv, TypeInv, ClientTyped
<1> QED
  BY <1>1, <1>2

\* Every step keeps the invariant.
LEMMA ConnectStep == ConnectInv /\ [ConnectNext]_allVars => ConnectInv'
<1> SUFFICES ASSUME ConnectInv, [ConnectNext]_allVars PROVE ConnectInv'
  OBVIOUS
<1>0. /\ StackInv /\ CloseInv /\ PromiseInv /\ ClientInv /\ TypeInv /\ EndInv /\ CleanupInv
      /\ to_server \in Seq(Outgoing) /\ to_client \in Seq(Incoming)
  BY DEF ConnectInv, ClientInv, TypeInv
<1>1. CASE ClientRuns
  <2>1. Run /\ to_client' = to_client /\ UNCHANGED <<reader, cleanup>>
    BY <1>1 DEF ClientRuns, serverVars
  <2>2. result' = result \/ result' = "resolved"
    BY <1>1 DEF ClientRuns, SettlePromise
  <2>3. ClientInv'
    BY <1>0, <2>1, RunKeepsStack, RunKeepsPromises DEF ClientInv
  <2>4. ClientTyped /\ EndInv' /\ Forward
    BY <1>0, <2>1, RunEnd
  <2> QED
    BY <1>0, <2>1, <2>2, <2>3, <2>4, ClientStep
<1>2. CASE TimerFires
  <2>1. clientUnchanged /\ ServerTyped
    BY <1>0, <1>2 DEF TimerFires, vars, serverVars, clientUnchanged, ServerTyped
  <2>2. CleanupInv'
    BY <1>0, <1>2 DEF TimerFires, SettlePromise, CleanupInv, vars
  <2> QED
    BY <2>1, <2>2, HandlerStep
<1>3. CASE LoopReads
  <2>1. PICK n \in 1..Len(to_client) :
          /\ IF client.closed THEN clientUnchanged /\ UNCHANGED to_server
             ELSE FeedFromServer(SubSeq(to_client, 1, n))
          /\ to_client' = SubSeq(to_client, n + 1, Len(to_client))
    BY <1>3 DEF LoopReads
  <2>2. to_client' \in Seq(Incoming) /\ SubSeq(to_client, 1, n) \in Seq(Incoming)
    BY <1>0, <2>1
  <2>3. UNCHANGED <<reader, cleanup, result>>
    BY <1>3 DEF LoopReads, connectVars
  <2>4. CASE client.closed
    <3>1. clientUnchanged /\ ServerTyped
      BY <1>0, <2>1, <2>2, <2>4 DEF ServerTyped
    <3>2. CleanupInv'
      BY <1>0, <2>3, <3>1 DEF CleanupInv, clientUnchanged
    <3> QED
      BY <3>1, <3>2, HandlerStep
  <2>5. CASE ~client.closed
    <3>1. FeedFromServer(SubSeq(to_client, 1, n))
      BY <2>1, <2>5
    <3>2. ClientInv' /\ ClientTyped /\ EndInv' /\ Forward
      BY <1>0, <2>2, <3>1, CallsEnd, CallsKeepStack, CallsKeepPromises DEF ClientInv
    <3> QED
      BY <2>2, <2>3, <3>2, ClientStep
  <2> QED
    BY <2>4, <2>5
<1>4. CASE LoopEnds
  <2>1. /\ CloseClient /\ to_client' = to_client /\ reader' = "stopped"
        /\ cleanup' = cleanup /\ result' = result
    BY <1>4 DEF LoopEnds, serverVars
  <2>2. /\ ClientInv' /\ TypeInv' /\ EndInv' /\ Forward
        /\ client'.intentionalClose \/ client'.closed
    BY <2>1, ClosesClient
  <2>3. CleanupInv'
    BY <1>0, <2>1, <2>2 DEF CleanupInv, Forward
  <2> QED
    BY <2>2, <2>3 DEF ConnectInv
<1>5. CASE WriteFails
  <2>1. CloseClient /\ to_client' = to_client /\ UNCHANGED <<reader, cleanup, result>>
    BY <1>5 DEF WriteFails, serverVars
  <2>2. ClientInv' /\ TypeInv' /\ EndInv' /\ Forward
    BY <2>1, ClosesClient
  <2>3. CleanupInv'
    BY <1>0, <2>1, <2>2 DEF CleanupInv, Forward
  <2> QED
    BY <2>2, <2>3 DEF ConnectInv
<1>6. CASE SinkAccepts \/ CancelReader
  <2>1. clientUnchanged /\ ServerTyped
    BY <1>0, <1>6 DEF SinkAccepts, CancelReader, vars, serverVars, clientUnchanged, ServerTyped
  <2>2. CleanupInv'
    BY <1>0, <1>6 DEF SinkAccepts, CancelReader, CleanupInv, vars
  <2> QED
    BY <2>1, <2>2, HandlerStep
<1>7. CASE CloseWriter
  <2>1. clientUnchanged /\ ServerTyped
    BY <1>0, <1>7 DEF CloseWriter, vars, serverVars, clientUnchanged, ServerTyped
  <2>2. reader = "stopped" /\ client.closed
    BY <1>0, <1>7, IdleClosed DEF CloseWriter, CleanupInv
  <2>3. CleanupInv'
    BY <1>0, <1>7, <2>2 DEF CloseWriter, CleanupInv, vars
  <2> QED
    BY <2>1, <2>3, HandlerStep
<1>8. CASE CloseSocket \/ Rethrow
  <2>1. clientUnchanged /\ ServerTyped
    BY <1>0, <1>8 DEF CloseSocket, Rethrow, vars, serverVars, clientUnchanged, ServerTyped
  <2>2. CleanupInv'
    BY <1>0, <1>8 DEF CloseSocket, Rethrow, CleanupInv, vars
  <2> QED
    BY <2>1, <2>2, HandlerStep
<1>9. CASE Others /\ UNCHANGED <<reader, sink, timer, outcome, cleanup, result>>
  <2>1. CASE ServerReads \/ Ends
    <3>1. ServerTyped /\ clientUnchanged
      BY <1>0, <2>1, ServerSteps
    <3>2. CleanupInv'
      BY <1>0, <1>9, <3>1 DEF CleanupInv, clientUnchanged
    <3> QED
      BY <3>1, <3>2, HandlerStep
  <2>2. CASE UserTypes \/ UserCloses
    <3>1. (Enter \/ CtrlC \/ Close) /\ to_client' = to_client
      BY <2>2 DEF UserTypes, UserCloses, serverVars
    <3>2. ClientInv' /\ ClientTyped /\ EndInv' /\ Forward
      BY <1>0, <3>1, CallsEnd, CallsKeepStack, CallsKeepPromises DEF ClientInv
    <3> QED
      BY <1>0, <1>9, <3>1, <3>2, ClientStep
  <2>3. CASE Answers
    <3>1. PICK accept \in BOOLEAN : VerifierAnswers(accept) /\ to_client' = to_client
      BY <2>3 DEF Answers, serverVars
    <3>2. ClientInv' /\ ClientTyped /\ EndInv' /\ Forward
      BY <1>0, <3>1, CallsEnd, CallsKeepStack, CallsKeepPromises DEF ClientInv
    <3> QED
      BY <1>0, <1>9, <3>1, <3>2, ClientStep
  <2> QED
    BY <1>9, <2>1, <2>2, <2>3 DEF Others
<1>10. CASE UNCHANGED allVars
  <2>1. clientUnchanged /\ ServerTyped /\ CleanupInv'
    BY <1>0, <1>10
       DEF allVars, vars, serverVars, connectVars, clientUnchanged, ServerTyped, CleanupInv
  <2> QED
    BY <2>1, HandlerStep
<1> QED
  BY <1>1, <1>2, <1>3, <1>4, <1>5, <1>6, <1>7, <1>8, <1>9, <1>10 DEF ConnectNext, CleansUp

\* And it holds at first.
LEMMA ConnectStart == ConnectInit => ConnectInv
<1> SUFFICES ASSUME ConnectInit PROVE ConnectInv
  OBVIOUS
<1>1. ClientInv
  BY InitHolds DEF ConnectInit
<1>2. /\ engine = NewEngine /\ client.intentionalClose = FALSE
      /\ to_client = <<>> /\ to_server = <<Msg("ident")>>
  BY DEF ConnectInit, Init, ClientInit
<1>3. Typed(engine)
  BY <1>2 DEF NewEngine, Typed, EngineFields
<1>4. to_server \in Seq(Outgoing) /\ to_client \in Seq(Incoming)
  <2>1. Msg("ident") \in Outgoing
    BY DEF Msg, Outgoing
  <2> QED
    BY <1>2, <2>1
<1>5. EndInv
  BY <1>2 DEF EndInv, NewEngine
<1>6. CleanupInv
  BY DEF ConnectInit, CleanupInv
<1> QED
  BY <1>1, <1>3, <1>4, <1>5, <1>6 DEF ConnectInv, TypeInv

\* A caller whose connect() is rejected is left with a closed client and a read
\* loop that has ended, whatever server, socket, user and verifier do
\* (socket-connect.ts:35-49, 62-79).
THEOREM NothingLeft == ConnectSpec => []NothingGoesOn
<1>1. ConnectInv => NothingGoesOn
  BY DEF ConnectInv, CleanupInv, NothingGoesOn
<1> QED
  BY <1>1, ConnectStart, ConnectStep, PTL DEF ConnectSpec

-----------------------------------------------------------------------------
(***************************************************************************)
(* Whose turn it is.  From the version exchange to the answer to the last  *)
(* attempt the two sides take turns, so that at most one message, event,   *)
(* frame or open question of that dialogue exists at any time.             *)
(***************************************************************************)

Requests == {m \in Outgoing : m.type \in {"ident", "service", "auth"}}

Responses ==
    {m \in Incoming :
        m.type \in {"kexReply", "serviceAccept", "failure", "lastFailure", "success"}}

Questions ==
    {e \in EventRecords :
        e.type \in {"HostKeyVerify", "ReadyForAuth", "AuthFailure", "AuthFailureNoPassword",
                    "AuthSuccess"}}

Typings == {f \in Frames : f.at \in {"prompt", "submit"}}

Lacks(q, S) == \A i \in 1..Len(q) : q[i] \notin S

Single(q, S) == \A i, j \in 1..Len(q) : q[i] \in S /\ q[j] \in S => i = j

AtMostOne(a, b, c, d, e, f, g, h) ==
    /\ a => ~(b \/ c \/ d \/ e \/ f \/ g \/ h)
    /\ b => ~(c \/ d \/ e \/ f \/ g \/ h)
    /\ c => ~(d \/ e \/ f \/ g \/ h)
    /\ d => ~(e \/ f \/ g \/ h)
    /\ e => ~(f \/ g \/ h)
    /\ f => ~(g \/ h)
    /\ g => ~h

TurnInv ==
    /\ Single(engine.outgoing, Requests) /\ Single(to_server, Requests)
    /\ Single(to_client, Responses) /\ Single(engine.buffered, Responses)
    /\ Single(engine.events, Questions) /\ Single(stack, Typings)
    /\ AtMostOne(~Lacks(engine.outgoing, Requests), ~Lacks(to_server, Requests),
                 ~Lacks(to_client, Responses), ~Lacks(engine.buffered, Responses),
                 ~Lacks(engine.events, Questions), ~Lacks(stack, Typings),
                 client.awaitingPasswordInput, client.verifier = "pending")

\* The dialogue is over.
NoTurn ==
    /\ Lacks(engine.outgoing, Requests) /\ Lacks(to_server, Requests)
    /\ Lacks(to_client, Responses) /\ Lacks(engine.buffered, Responses)
    /\ Lacks(engine.events, Questions) /\ Lacks(stack, Typings)
    /\ ~client.awaitingPasswordInput /\ client.verifier # "pending"

\* A queue gains nothing of the dialogue.
Quiet(q, r, S) == (Lacks(q, S) => Lacks(r, S)) /\ (Single(q, S) => Single(r, S))

\* Something is put behind a queue.
LEMMA TurnAppend ==
    ASSUME NEW A, NEW q \in Seq(A), NEW m \in A, NEW r, r = Append(q, m), NEW S
    PROVE  /\ m \notin S => Quiet(q, r, S)
           /\ Lacks(q, S) => Single(r, S)
<1>1. /\ Len(r) = Len(q) + 1 /\ Len(q) \in Nat /\ r[Len(q) + 1] = m
      /\ \A i \in 1..Len(q) : r[i] = q[i]
  OBVIOUS
<1>2. PICK n : n = Len(q)
  OBVIOUS
<1>3. \A i \in 1..Len(r) : (i = n + 1 /\ r[i] = m) \/ (i \in 1..Len(q) /\ r[i] = q[i])
  BY <1>1, <1>2
<1>4. m \notin S => Quiet(q, r, S)
  BY <1>3 DEF Quiet, Lacks, Single
<1>5. Lacks(q, S) => Single(r, S)
  BY <1>3 DEF Lacks, Single
<1> QED
  BY <1>4, <1>5

\* The head is taken away.
LEMMA TurnTail ==
    ASSUME NEW A, NEW q \in Seq(A), q # <<>>, NEW S
    PROVE  /\ Quiet(q, Tail(q), S)
           /\ Head(q) \in S => ~Lacks(q, S)
           /\ Head(q) \in S /\ Single(q, S) => Lacks(Tail(q), S)
<1>1. /\ Head(q) = q[1] /\ Len(q) \in Nat /\ 1 \in 1..Len(q)
      /\ \A i \in 1..Len(Tail(q)) : i + 1 \in 1..Len(q) /\ Tail(q)[i] = q[i + 1]
      /\ Len(Tail(q)) \in Nat
  OBVIOUS
<1>2. Lacks(q, S) => Lacks(Tail(q), S)
  BY <1>1 DEF Lacks
<1>3. ASSUME Single(q, S), NEW i \in 1..Len(Tail(q)), NEW j \in 1..Len(Tail(q)),
             Tail(q)[i] \in S, Tail(q)[j] \in S
      PROVE  i = j
  <2>1. i + 1 = j + 1
    BY <1>1, <1>3 DEF Single
  <2> QED
    BY <1>1, <2>1
<1>4. ASSUME Single(q, S), Head(q) \in S, NEW i \in 1..Len(Tail(q)), Tail(q)[i] \in S
      PROVE  FALSE
  <2>1. i + 1 = 1
    BY <1>1, <1>4 DEF Single
  <2> QED
    BY <1>1, <2>1
<1> QED
  BY <1>1, <1>2, <1>3, <1>4 DEF Quiet, Lacks, Single

\* Queues are put one behind the other.
LEMMA TurnJoin ==
    ASSUME NEW A, NEW q \in Seq(A), NEW r \in Seq(A), NEW S
    PROVE  /\ Lacks(q, S) /\ Lacks(r, S) => Lacks(q \o r, S)
           /\ Single(q, S) /\ Lacks(r, S) => Single(q \o r, S)
           /\ Lacks(q, S) /\ Single(r, S) => Single(q \o r, S)
<1> DEFINE s == q \o r
<1>1. PICK m : m = Len(q)
  OBVIOUS
<1>2. PICK n : n = Len(r)
  OBVIOUS
<1>3. /\ m \in Nat /\ n \in Nat /\ Len(s) = m + n
      /\ \A i \in 1..m : s[i] = q[i]
      /\ \A i \in (m + 1)..(m + n) : s[i] = r[i - m] /\ i - m \in 1..n
  BY <1>1, <1>2
<1> HIDE DEF s
<1>4. \A i \in 1..Len(s) : i \in 1..m \/ i \in (m + 1)..(m + n)
  BY <1>3
<1>5. Lacks(q, S) /\ Lacks(r, S) => Lacks(s, S)
  BY <1>1, <1>2, <1>3, <1>4 DEF Lacks
<1>6. Single(q, S) /\ Lacks(r, S) => Single(s, S)
  BY <1>1, <1>2, <1>3, <1>4 DEF Lacks, Single
<1>7. ASSUME Lacks(q, S), Single(r, S), NEW i \in 1..Len(s), NEW j \in 1..Len(s),
             s[i] \in S, s[j] \in S
      PROVE  i = j
  <2>1. i \in (m + 1)..(m + n) /\ j \in (m + 1)..(m + n)
    BY <1>1, <1>3, <1>4, <1>7 DEF Lacks
  <2>2. i - m = j - m
    BY <1>2, <1>3, <1>7, <2>1 DEF Single
  <2> QED
    BY <1>3, <2>1, <2>2
<1> QED
  BY <1>5, <1>6, <1>7 DEF Single, s

\* A queue is cut in two.
LEMMA TurnSplit ==
    ASSUME NEW A, NEW q \in Seq(A), NEW n \in 1..Len(q), NEW S
    PROVE  LET a == SubSeq(q, 1, n)
               b == SubSeq(q, n + 1, Len(q))
           IN  /\ a \in Seq(A) /\ b \in Seq(A)
               /\ Quiet(q, a, S) /\ Quiet(q, b, S)
               /\ Single(q, S) => Lacks(a, S) \/ Lacks(b, S)
<1> DEFINE a == SubSeq(q, 1, n)
           b == SubSeq(q, n + 1, Len(q))
<1>1. PICK m : m = Len(q)
  OBVIOUS
<1>2. /\ m \in Nat /\ n \in 1..m /\ a \in Seq(A) /\ b \in Seq(A)
      /\ Len(a) = n /\ \A i \in 1..n : a[i] = q[i]
      /\ Len(b) = m - n /\ \A i \in 1..(m - n) : b[i] = q[n + i]
  BY <1>1
<1> HIDE DEF a, b
<1>b. \A i \in 1..Len(a) : i \in 1..m /\ a[i] = q[i]
  BY <1>2
<1>c. \A i \in 1..Len(b) : n + i \in 1..m /\ b[i] = q[n + i]
  BY <1>2
<1>3. Quiet(q, a, S)
  BY <1>1, <1>b DEF Quiet, Lacks, Single
<1>4. Lacks(q, S) => Lacks(b, S)
  BY <1>1, <1>c DEF Lacks
<1>5. ASSUME Single(q, S), NEW i \in 1..Len(b), NEW j \in 1..Len(b), b[i] \in S, b[j] \in S
      PROVE  i = j
  <2>1. n + i = n + j
    BY <1>1, <1>c, <1>5 DEF Single
  <2> QED
    BY <1>2, <2>1
<1>6. ASSUME Single(q, S), NEW i \in 1..Len(a), NEW j \in 1..Len(b), a[i] \in S, b[j] \in S
      PROVE  FALSE
  <2>1. i = n + j
    BY <1>1, <1>b, <1>c, <1>6 DEF Single
  <2> QED
    BY <1>2, <2>1
<1> QED
  BY <1>2, <1>3, <1>4, <1>5, <1>6 DEF Quiet, Lacks, Single, a, b

\* No call of the engine adds to the dialogue, but
QuietEngine(e, n) ==
    /\ Quiet(e.outgoing, n.outgoing, Requests)
    /\ Quiet(e.buffered, n.buffered, Responses)
    /\ Quiet(e.events, n.events, Questions)

\* those that send a request,
Requested(e, n) ==
    /\ Lacks(e.outgoing, Requests) => Single(n.outgoing, Requests)
    /\ Quiet(e.buffered, n.buffered, Responses)
    /\ Quiet(e.events, n.events, Questions)

\* and a response that has been driven, which leaves a question.
Answered(e, n) ==
    /\ ~Lacks(e.buffered, Responses)
    /\ Single(e.buffered, Responses) => Lacks(n.buffered, Responses)
    /\ Lacks(e.events, Questions) => Single(n.events, Questions)
    /\ Quiet(e.outgoing, n.outgoing, Requests)

\* What leaves the queues alone.
LEMMA SameTurn ==
    ASSUME NEW e, NEW n, n.outgoing = e.outgoing, n.buffered = e.buffered, n.events = e.events
    PROVE  QuietEngine(e, n)
BY DEF QuietEngine, Quiet

\* Two calls.
LEMMA QuietOn ==
    ASSUME NEW e, NEW n, NEW o, QuietEngine(e, n)
    PROVE  /\ QuietEngine(n, o) => QuietEngine(e, o)
           /\ Requested(n, o) => Requested(e, o)
BY DEF QuietEngine, Requested, Quiet

\* drive.
LEMMA DriveTurn ==
    ASSUME NEW e, Typed(e), DriveGoesOn(e)
    PROVE  QuietEngine(e, DriveOne(e)) \/ Answered(e, DriveOne(e))
<1> DEFINE n == DriveOne(e)
           m == Head(e.buffered)
           ev == ChannelMsg(EventOf[m.type], m.id)
           su == ChannelMsg("setup", m.id)
<1>1. m \in Incoming /\ e.buffered \in Seq(Incoming) /\ e.buffered # <<>>
  BY DEF Typed, DriveGoesOn
<1>2. /\ n.buffered = Tail(e.buffered)
      /\ n.events = Append(e.events, ev)
      /\ n.outgoing = IF m.type = "confirm" THEN Append(e.outgoing, su) ELSE e.outgoing
  BY DEF DriveOne, Typed, EngineFields
<1> HIDE DEF n
<1>3. /\ Quiet(e.buffered, n.buffered, Responses)
      /\ m \in Responses => ~Lacks(e.buffered, Responses)
      /\ m \in Responses /\ Single(e.buffered, Responses) => Lacks(n.buffered, Responses)
  BY <1>1, <1>2, TurnTail
<1> HIDE DEF m
<1>4. ev \in EventRecords /\ (ev \in Questions => m \in Responses)
  <2>1. EventOf[m.type] \in
          {"HostKeyVerify", "ReadyForAuth", "AuthFailure", "AuthFailureNoPassword",
           "AuthSuccess", "ChannelOpened", "ChannelOpenFailed", "ChannelData",
           "ChannelExitStatus", "ChannelClosed", "Disconnected", "Unrecoverable"}
    BY <1>1 DEF EventOf, Incoming
  <2>2. EventOf[m.type] = "ChannelOpenFailed" => m.id # 0
    BY <1>1 DEF EventOf, Incoming
  <2>3. ev.type = EventOf[m.type] /\ ev.id = m.id /\ m.id \in Nat
    BY <1>1 DEF ChannelMsg, Incoming
  <2>4. ev \in EventRecords
    BY <2>1, <2>2, <2>3 DEF EventRecords, ChannelMsg
  <2>5. EventOf[m.type] \in {"HostKeyVerify", "ReadyForAuth", "AuthFailure",
                             "AuthFailureNoPassword", "AuthSuccess"}
          => m.type \in {"kexReply", "serviceAccept", "failure", "lastFailure", "success"}
    BY <1>1 DEF EventOf, Incoming
  <2> QED
    BY <1>1, <2>3, <2>4, <2>5 DEF Questions, Responses
<1>5. m.type = "confirm" => su \in Outgoing /\ su \notin Requests
  BY <1>1 DEF ChannelMsg, Incoming, Outgoing, Requests
<1> HIDE DEF ev, su
<1>6. Quiet(e.outgoing, n.outgoing, Requests)
  <2>1. CASE m.type = "confirm"
    BY <1>2, <1>5, <2>1, TurnAppend DEF Typed
  <2>2. CASE m.type # "confirm"
    BY <1>2, <2>2 DEF Quiet
  <2> QED
    BY <2>1, <2>2
<1>7. /\ ev \notin Questions => Quiet(e.events, n.events, Questions)
      /\ Lacks(e.events, Questions) => Single(n.events, Questions)
  BY <1>2, <1>4, TurnAppend DEF Typed
<1> QED
  BY <1>3, <1>4, <1>6, <1>7 DEF QuietEngine, Answered, n

\* poll_event.
LEMMA PollTurn ==
    ASSUME NEW e, Typed(e), e.events # <<>>
    PROVE  /\ QuietEngine(e, Polled(e))
           /\ Head(e.events) \in Questions =>
                  /\ ~Lacks(e.events, Questions)
                  /\ Single(e.events, Questions) => Lacks(Polled(e).events, Questions)
<1> DEFINE n == Polled(e)
<1>1. n.events = Tail(e.events) /\ n.outgoing = e.outgoing /\ n.buffered = e.buffered
  BY DEF Polled, Typed, EngineFields
<1> HIDE DEF n
<1>2. /\ Quiet(e.events, n.events, Questions)
      /\ Head(e.events) \in Questions => ~Lacks(e.events, Questions)
      /\ Head(e.events) \in Questions /\ Single(e.events, Questions)
            => Lacks(n.events, Questions)
  BY <1>1, TurnTail DEF Typed
<1> QED
  BY <1>1, <1>2 DEF QuietEngine, Quiet, n

\* A message sent.
LEMMA SendTurn ==
    ASSUME NEW e, Typed(e), NEW m \in Outgoing
    PROVE  /\ Requested(e, Sends(e, m))
           /\ m \notin Requests => QuietEngine(e, Sends(e, m))
<1> DEFINE n == Sends(e, m)
<1>1. n.outgoing = Append(e.outgoing, m) /\ n.buffered = e.buffered /\ n.events = e.events
  BY DEF Sends, Typed, EngineFields
<1> HIDE DEF n
<1>2. /\ m \notin Requests => Quiet(e.outgoing, n.outgoing, Requests)
      /\ Lacks(e.outgoing, Requests) => Single(n.outgoing, Requests)
  BY <1>1, TurnAppend DEF Typed
<1> QED
  BY <1>1, <1>2 DEF QuietEngine, Requested, Quiet, n

\* An attempt.
LEMMA AuthTurn ==
    ASSUME NEW e, Typed(e)
    PROVE  Requested(e, Authenticated(e)) \/ QuietEngine(e, Authenticated(e))
<1>1. Msg("auth") \in Outgoing
  BY DEF Msg, Outgoing
<1> QED
  BY <1>1, SendTurn, SameTurn DEF Authenticated

\* A channel that is opened.
LEMMA OpenTurn ==
    ASSUME NEW e, Typed(e), NEW kind \in {"exec", "shell"}
    PROVE  QuietEngine(e, Opened(e, kind))
<1> DEFINE m == ChannelMsg(kind, e.next_id)
           s == Sends(e, m)
           n == Opened(e, kind)
<1>1. m \in Outgoing /\ m \notin Requests
  BY DEF ChannelMsg, Outgoing, Requests, Typed
<1>2. n = [s EXCEPT !.next_id = @ + 1]
  BY DEF Opened
<1> HIDE DEF m
<1>3. QuietEngine(e, s) /\ Typed(s)
  BY <1>1, SendTurn, SendTyped
<1> HIDE DEF s, n
<1>4. QuietEngine(s, n)
  <2>1. n.outgoing = s.outgoing /\ n.buffered = s.buffered /\ n.events = s.events
    BY <1>2, <1>3 DEF Typed, EngineFields
  <2> QED
    BY <2>1, SameTurn
<1>5. QuietEngine(e, n)
  BY <1>3, <1>4, QuietOn
<1> QED
  BY <1>5 DEF n

\* A session that closes.
LEMMA CloseTurn ==
    ASSUME NEW e, Typed(e)
    PROVE  QuietEngine(e, [e EXCEPT !.phase = "Closed", !.events = Append(@, Msg("Unrecoverable"))])
<1> DEFINE n == [e EXCEPT !.phase = "Closed", !.events = Append(@, Msg("Unrecoverable"))]
<1>1. /\ n.outgoing = e.outgoing /\ n.buffered = e.buffered
      /\ n.events = Append(e.events, Msg("Unrecoverable"))
  BY DEF Typed, EngineFields
<1>2. Msg("Unrecoverable") \in EventRecords /\ Msg("Unrecoverable") \notin Questions
  BY DEF Msg, EventRecords, Questions
<1> HIDE DEF n
<1>3. Quiet(e.events, n.events, Questions)
  BY <1>1, <1>2, TurnAppend DEF Typed
<1> QED
  BY <1>1, <1>3 DEF QuietEngine, Quiet, n

\* notify_transport_closed.
LEMMA NotifyTurn ==
    ASSUME NEW e, Typed(e)
    PROVE  QuietEngine(e, NotifiedClosed(e))
BY CloseTurn, SameTurn DEF NotifiedClosed

\* The decision on a host key.
LEMMA DecideTurn ==
    ASSUME NEW e, Typed(e), NEW accept \in BOOLEAN
    PROVE  /\ QuietEngine(e, Decided(e, accept)) \/ Requested(e, Decided(e, accept))
           /\ ~accept => QuietEngine(e, Decided(e, accept))
<1>1. CASE e.phase # "AwaitingHostKeyDecision"
  BY <1>1, SameTurn DEF Decided
<1>2. CASE e.phase = "AwaitingHostKeyDecision" /\ accept
  <2> DEFINE s == Sends(e, Msg("service"))
             n == [s EXCEPT !.phase = "ServiceRequest"]
  <2>1. Msg("service") \in Outgoing
    BY DEF Msg, Outgoing
  <2>2. Requested(e, s) /\ Typed(s)
    BY <2>1, SendTurn, SendTyped
  <2>3. Decided(e, accept) = n
    BY <1>2 DEF Decided
  <2> HIDE DEF s
  <2>4. n.outgoing = s.outgoing /\ n.buffered = s.buffered /\ n.events = s.events
    BY <2>2 DEF Typed, EngineFields
  <2> HIDE DEF n
  <2>5. Requested(e, n)
    BY <2>2, <2>4 DEF Requested
  <2> QED
    BY <1>2, <2>3, <2>5
<1>3. CASE e.phase = "AwaitingHostKeyDecision" /\ ~accept
  BY <1>3, CloseTurn DEF Decided
<1> QED
  BY <1>1, <1>2, <1>3

\* take_event_data.
LEMMA TakeTurn ==
    ASSUME NEW e, Typed(e)
    PROVE  QuietEngine(e, DataTaken(e)) /\ DataTaken(e).events = e.events
<1>1. /\ DataTaken(e).outgoing = e.outgoing /\ DataTaken(e).buffered = e.buffered
      /\ DataTaken(e).events = e.events
  BY DEF DataTaken, Typed, EngineFields
<1> QED
  BY <1>1, SameTurn

-----------------------------------------------------------------------------
\* The stack's part of it.

\* Frames put on top.
LEMMA CallTurn ==
    ASSUME StackInv, NEW f \in Seq(Frames), Call(f)
    PROVE  /\ Lacks(f, Typings) => Quiet(stack, stack', Typings)
           /\ Single(f, Typings) /\ Lacks(stack, Typings) => Single(stack', Typings)
BY TurnJoin DEF StackInv, WellFormed, Call, Quiet

\* Frames in place of the top one.
LEMMA ThenTurn ==
    ASSUME StackInv, stack # <<>>, NEW f \in Seq(Frames), Then(f), Lacks(f, Typings)
    PROVE  /\ Quiet(stack, stack', Typings)
           /\ stack[1] \in Typings => ~Lacks(stack, Typings)
           /\ stack[1] \in Typings /\ Single(stack, Typings) => Lacks(stack', Typings)
<1>1. stack \in Seq(Frames) /\ Head(stack) = stack[1] /\ Tail(stack) \in Seq(Frames)
  BY DEF StackInv, WellFormed
<1>2. /\ Quiet(stack, Tail(stack), Typings)
      /\ stack[1] \in Typings => ~Lacks(stack, Typings)
      /\ stack[1] \in Typings /\ Single(stack, Typings) => Lacks(Tail(stack), Typings)
  BY <1>1, TurnTail
<1>3. /\ Lacks(Tail(stack), Typings) => Lacks(stack', Typings)
      /\ Single(Tail(stack), Typings) => Single(stack', Typings)
  BY <1>1, TurnJoin DEF Then
<1> QED
  BY <1>2, <1>3 DEF Quiet

\* Frames that ask for nothing.
LEMMA PlainFrames ==
    /\ <<>> \in Seq(Frames) /\ Lacks(<<>>, Typings)
    /\ \A at \in Places, arg \in Arguments : at \notin {"prompt", "submit"} =>
          <<Frame(at, arg)>> \in Seq(Frames) /\ Lacks(<<Frame(at, arg)>>, Typings)
    /\ \A at \in {"flush", "poll", "drive", "callback", "openShell", "settle"},
          to \in {"flush", "poll", "drive", "callback", "openShell", "settle"},
          arg \in Arguments, brg \in Arguments :
          /\ <<Frame(at, arg), Frame(to, brg)>> \in Seq(Frames)
          /\ Lacks(<<Frame(at, arg), Frame(to, brg)>>, Typings)
<1>1. <<>> \in Seq(Frames) /\ Lacks(<<>>, Typings)
  BY DEF Lacks
<1>2. ASSUME NEW at \in Places, NEW arg \in Arguments, at \notin {"prompt", "submit"}
      PROVE  <<Frame(at, arg)>> \in Seq(Frames) /\ Lacks(<<Frame(at, arg)>>, Typings)
  <2>1. Frame(at, arg) \in Frames /\ Frame(at, arg) \notin Typings
    BY <1>2 DEF Frame, Frames, Typings
  <2> QED
    BY <2>1 DEF Lacks
<1>3. ASSUME NEW at \in {"flush", "poll", "drive", "callback", "openShell", "settle"},
             NEW to \in {"flush", "poll", "drive", "callback", "openShell", "settle"},
             NEW arg \in Arguments, NEW brg \in Arguments
      PROVE  /\ <<Frame(at, arg), Frame(to, brg)>> \in Seq(Frames)
             /\ Lacks(<<Frame(at, arg), Frame(to, brg)>>, Typings)
  <2>1. /\ Frame(at, arg) \in Frames /\ Frame(at, arg) \notin Typings
        /\ Frame(to, brg) \in Frames /\ Frame(to, brg) \notin Typings
    BY <1>3 DEF Frame, Frames, Typings, Places
  <2> QED
    BY <2>1 DEF Lacks
<1> QED
  BY <1>1, <1>2, <1>3

\* And those that do, once.
LEMMA TypingFrames ==
    /\ <<Do("prompt")>> \in Seq(Frames) /\ Single(<<Do("prompt")>>, Typings)
    /\ \A at \in {"prompt", "submit"} :
          /\ <<Callback("terminal"), Do(at)>> \in Seq(Frames)
          /\ Single(<<Callback("terminal"), Do(at)>>, Typings)
<1>1. /\ Callback("terminal") \in Frames /\ Callback("terminal") \notin Typings
      /\ \A at \in {"prompt", "submit"} : Do(at) \in Frames
  BY DEF Callback, Do, Frame, Frames, Typings, Places, Arguments
<1>2. <<Do("prompt")>> \in Seq(Frames) /\ Single(<<Do("prompt")>>, Typings)
  BY <1>1 DEF Single
<1>3. ASSUME NEW at \in {"prompt", "submit"}
      PROVE  /\ <<Callback("terminal"), Do(at)>> \in Seq(Frames)
             /\ Single(<<Callback("terminal"), Do(at)>>, Typings)
  BY <1>1 DEF Single
<1> QED
  BY <1>2, <1>3

-----------------------------------------------------------------------------
\* A step moves the turn, ends it, or leaves it where it is.

TurnKept == TurnInv' /\ (NoTurn => NoTurn')

SameTurnFlags ==
    /\ client'.awaitingPasswordInput = client.awaitingPasswordInput
    /\ client'.verifier = client.verifier

\* It stays, or it ends.
LEMMA TurnStands ==
    ASSUME TurnInv, QuietEngine(engine, engine'), Quiet(stack, stack', Typings),
           Quiet(to_server, to_server', Requests), Quiet(to_client, to_client', Responses),
           client'.awaitingPasswordInput => client.awaitingPasswordInput,
           client'.verifier = "pending" => client.verifier = "pending"
    PROVE  TurnKept
BY DEF TurnInv, AtMostOne, NoTurn, TurnKept, QuietEngine, Quiet

\* A request is sent: for a verifier, a question or a line that was typed.
LEMMA TurnRequests ==
    ASSUME TurnInv, Requested(engine, engine') \/ QuietEngine(engine, engine'),
           Quiet(stack, stack', Typings), UNCHANGED <<to_server, to_client>>,
           client'.awaitingPasswordInput = client.awaitingPasswordInput,
           \/ client.verifier = "pending" /\ client'.verifier # "pending"
           \/ /\ client'.verifier = client.verifier
              /\ \/ ~Lacks(engine.events, Questions) /\ Lacks(engine'.events, Questions)
                 \/ ~Lacks(stack, Typings) /\ Lacks(stack', Typings)
    PROVE  TurnKept
BY DEF TurnInv, AtMostOne, NoTurn, TurnKept, QuietEngine, Requested, Quiet

\* The reader's call, with what it takes from the transport.
LEMMA FeedTurn ==
    ASSUME StackInv, TypeInv, TurnInv, NEW n \in 1..Len(to_client),
           FeedFromServer(SubSeq(to_client, 1, n)),
           to_client' = SubSeq(to_client, n + 1, Len(to_client))
    PROVE  TurnKept
<1> DEFINE a == SubSeq(to_client, 1, n)
<1>1. /\ engine.buffered \in Seq(Incoming) /\ to_client \in Seq(Incoming)
      /\ DOMAIN engine = EngineFields
  BY DEF TypeInv, Typed
<1>2. /\ a \in Seq(Incoming)
      /\ Quiet(to_client, a, Responses) /\ Quiet(to_client, to_client', Responses)
      /\ Single(to_client, Responses) => Lacks(a, Responses) \/ Lacks(to_client', Responses)
  BY <1>1, TurnSplit
<1>3. /\ engine'.buffered = engine.buffered \o a /\ engine'.outgoing = engine.outgoing
      /\ engine'.events = engine.events /\ client' = client /\ to_server' = to_server
      /\ Call(<<Do("drive")>> \o Pump)
  BY <1>1 DEF FeedFromServer, FeedIncoming, EngineFields
<1> HIDE DEF a
<1>4. /\ Lacks(engine.buffered, Responses) /\ Lacks(a, Responses)
            => Lacks(engine'.buffered, Responses)
      /\ Single(engine.buffered, Responses) /\ Lacks(a, Responses)
            => Single(engine'.buffered, Responses)
      /\ Lacks(engine.buffered, Responses) /\ Single(a, Responses)
            => Single(engine'.buffered, Responses)
  BY <1>1, <1>2, <1>3, TurnJoin
<1>5. Quiet(stack, stack', Typings)
  <2>1. /\ <<Do("drive")>> \in Seq(Frames) /\ Lacks(<<Do("drive")>>, Typings)
        /\ Pump \in Seq(Frames) /\ Lacks(Pump, Typings)
    BY PlainFrames DEF Do, Pump, Places, Arguments
  <2>2. /\ <<Do("drive")>> \o Pump \in Seq(Frames)
        /\ Lacks(<<Do("drive")>> \o Pump, Typings)
    BY <2>1, TurnJoin, Joined
  <2> QED
    BY <1>3, <2>2, CallTurn
<1> QED
  BY <1>2, <1>3, <1>4, <1>5 DEF TurnInv, AtMostOne, NoTurn, TurnKept, Quiet

\* The user's calls, and the verifier's answer.
LEMMA CallsTurn ==
    ASSUME StackInv, CloseInv, TypeInv, TurnInv, UNCHANGED to_client
    PROVE  /\ Close \/ Enter \/ CtrlC => TurnKept
           /\ \A accept \in BOOLEAN : VerifierAnswers(accept) => TurnKept
           /\ CtrlC \/ VerifierAnswers(FALSE) => NoTurn'
<1>0. DOMAIN client = ClientFields /\ Typed(engine)
  BY Flags DEF TypeInv
<1>a. /\ Quiet(to_client, to_client', Responses)
      /\ to_server' = to_server => Quiet(to_server, to_server', Requests)
      /\ engine' = engine => QuietEngine(engine, engine')
  BY SameTurn DEF Quiet
<1>1. ASSUME Close PROVE TurnKept
  <2>1. SameTurnFlags /\ engine' = NotifiedClosed(engine) /\ Call(Pump) /\ to_server' = to_server
    BY <1>0, <1>1 DEF Close, ClientFields, SameTurnFlags
  <2>2. Pump \in Seq(Frames) /\ Lacks(Pump, Typings)
    BY PlainFrames DEF Do, Pump, Arguments
  <2>3. Quiet(stack, stack', Typings) /\ QuietEngine(engine, engine')
    BY <1>0, <2>1, <2>2, CallTurn, NotifyTurn
  <2> QED
    BY <1>a, <2>1, <2>3, TurnStands DEF SameTurnFlags
<1>2. ASSUME Enter PROVE TurnKept
  <2>1. /\ client'.awaitingPasswordInput = FALSE /\ client'.verifier = client.verifier
        /\ client.awaitingPasswordInput /\ engine' = engine /\ to_server' = to_server
        /\ Call(<<Callback("terminal"), Do("submit")>>)
    BY <1>0, <1>2 DEF Enter, ClientFields
  <2>2. Lacks(stack, Typings) => Single(stack', Typings)
    BY <2>1, CallTurn, TypingFrames
  <2> QED
    BY <2>1, <2>2 DEF TurnInv, AtMostOne, NoTurn, TurnKept
<1>3. ASSUME CtrlC PROVE TurnKept /\ NoTurn'
  <2>1. /\ client'.awaitingPasswordInput = FALSE /\ client'.verifier = client.verifier
        /\ client.awaitingPasswordInput /\ engine' = engine /\ to_server' = to_server
        /\ Call(<<Frame("shutdown", "auth")>>)
    BY <1>0, <1>3 DEF CtrlC, ClientFields
  <2>2. Quiet(stack, stack', Typings)
    BY <2>1, CallTurn, PlainFrames DEF Places, Arguments
  <2> QED
    BY <2>1, <2>2 DEF TurnInv, AtMostOne, NoTurn, TurnKept, Quiet
<1>4. ASSUME NEW accept \in BOOLEAN, VerifierAnswers(accept)
      PROVE  TurnKept /\ (~accept => NoTurn')
  <2> DEFINE g == IF accept THEN <<>> ELSE <<Frame("shutdown", "hostKey")>>
             f == <<Do("drive"), Do("flush")>>
  <2>1. /\ client'.awaitingPasswordInput = client.awaitingPasswordInput
        /\ client'.verifier = "settled" /\ client.verifier = "pending"
        /\ engine' = Decided(engine, accept) /\ to_server' = to_server
        /\ Call(f \o g)
    BY <1>0, <1>4 DEF VerifierAnswers, ClientFields
  <2>2. g \in Seq(Frames) /\ Lacks(g, Typings)
    BY PlainFrames DEF Places, Arguments
  <2>3. f \in Seq(Frames) /\ Lacks(f, Typings)
    BY PlainFrames DEF Do, Arguments
  <2> HIDE DEF f, g
  <2>4. f \o g \in Seq(Frames) /\ Lacks(f \o g, Typings)
    BY <2>2, <2>3, TurnJoin, Joined
  <2>5. Quiet(stack, stack', Typings)
    BY <2>1, <2>4, CallTurn
  <2>6. /\ QuietEngine(engine, engine') \/ Requested(engine, engine')
        /\ ~accept => QuietEngine(engine, engine')
    BY <1>0, <2>1, DecideTurn
  <2>7. TurnKept
    BY <2>1, <2>5, <2>6, TurnRequests
  <2>8. ASSUME ~accept PROVE NoTurn'
    BY <2>1, <2>5, <2>6, <2>8 DEF TurnInv, AtMostOne, NoTurn, QuietEngine, Quiet
  <2> QED
    BY <2>7, <2>8
<1>5. ASSUME VerifierAnswers(FALSE) PROVE NoTurn'
  BY <1>4, <1>5
<1> QED
  BY <1>1, <1>2, <1>3, <1>4, <1>5

\* A frame that is done with, others in its place.
LEMMA ThenStands ==
    ASSUME StackInv, TurnInv, stack # <<>>, NEW f \in Seq(Frames), Lacks(f, Typings), Then(f),
           QuietEngine(engine, engine'), UNCHANGED <<to_server, to_client>>, SameTurnFlags
    PROVE  TurnKept
BY ThenTurn, TurnStands DEF Quiet, SameTurnFlags

\* An event that is only polled, frames pushed for it.
LEMMA PollStands ==
    ASSUME StackInv, TypeInv, TurnInv, engine.events # <<>>,
           engine' = Polled(engine) \/ engine' = DataTaken(Polled(engine)),
           \/ UNCHANGED stack
           \/ \E f \in Seq(Frames) : Lacks(f, Typings) /\ Call(f),
           UNCHANGED <<to_server, to_client>>, SameTurnFlags
    PROVE  /\ TurnKept
           /\ Head(engine.events) \in Questions => NoTurn'
<1>1. QuietEngine(engine, Polled(engine)) /\ Typed(Polled(engine)) /\ Typed(engine)
  BY PollTurn, PollTyped DEF TypeInv
<1>2. /\ QuietEngine(Polled(engine), DataTaken(Polled(engine)))
      /\ DataTaken(Polled(engine)).events = Polled(engine).events
  BY <1>1, TakeTurn
<1>3. QuietEngine(engine, engine') /\ engine'.events = Polled(engine).events
  BY <1>1, <1>2, QuietOn
<1>4. Quiet(stack, stack', Typings)
  BY CallTurn DEF Quiet
<1>5. TurnKept
  BY <1>3, <1>4, TurnStands DEF Quiet, SameTurnFlags
<1>6. Head(engine.events) \in Questions =>
          ~Lacks(engine.events, Questions) /\ Lacks(engine'.events, Questions)
  BY <1>1, <1>3, PollTurn DEF TurnInv
<1>7. Head(engine.events) \in Questions => NoTurn'
  BY <1>3, <1>4, <1>6
     DEF TurnInv, AtMostOne, NoTurn, QuietEngine, Quiet, SameTurnFlags
<1> QED
  BY <1>5, <1>7

\* The frames that do not handle an event.
LEMMA FramesTurn ==
    ASSUME StackInv, CloseInv, TypeInv, TurnInv, UNCHANGED to_client,
           \/ Drive \/ FlushOutgoing \/ PolledAll \/ Returns
           \/ Prompt \/ Submit \/ OpenShell \/ Shutdown \/ Settle
    PROVE  TurnKept
<1>0. /\ DOMAIN client = ClientFields /\ Typed(engine) /\ to_server \in Seq(Outgoing)
      /\ stack \in Seq(Frames)
  BY Flags DEF TypeInv, StackInv, WellFormed
<1>a. engine' = engine => QuietEngine(engine, engine')
  BY SameTurn
<1>1. CASE Drive
  <2>1. SameTurnFlags /\ to_server' = to_server /\ stack # <<>>
    BY <1>1 DEF Drive, SameTurnFlags, Running
  <2>2. CASE DriveGoesOn(engine) /\ engine' = DriveOne(engine) /\ UNCHANGED stack
    <3>1. QuietEngine(engine, engine') \/ Answered(engine, engine')
      BY <1>0, <2>2, DriveTurn
    <3>2. CASE QuietEngine(engine, engine')
      BY <2>1, <2>2, <3>2, TurnStands DEF Quiet, SameTurnFlags
    <3>3. CASE Answered(engine, engine')
      <4>1. Lacks(engine'.buffered, Responses) => Single(engine'.buffered, Responses)
        BY DEF Lacks, Single
      <4> QED
        BY <2>1, <2>2, <3>3, <4>1
           DEF TurnInv, AtMostOne, NoTurn, TurnKept, Answered, Quiet, SameTurnFlags
    <3> QED
      BY <3>1, <3>2, <3>3
  <2>3. CASE Then(<<>>) /\ UNCHANGED engine
    BY <1>a, <2>1, <2>3, PlainFrames, ThenStands
  <2> QED
    BY <1>1, <2>2, <2>3 DEF Drive
<1>2. CASE FlushOutgoing
  <2>1. /\ SameTurnFlags /\ to_server' = to_server \o engine.outgoing
        /\ engine' = Taken(engine) /\ stack # <<>> /\ Then(<<>>)
    BY <1>2 DEF FlushOutgoing, SameTurnFlags, Running
  <2>2. /\ engine'.outgoing = <<>> /\ engine'.buffered = engine.buffered
        /\ engine'.events = engine.events
    BY <1>0, <2>1 DEF Taken, Typed, EngineFields
  <2>3. Lacks(engine'.outgoing, Requests) /\ Single(engine'.outgoing, Requests)
    BY <2>2 DEF Lacks, Single
  <2>4. /\ Lacks(to_server, Requests) /\ Lacks(engine.outgoing, Requests)
              => Lacks(to_server', Requests)
        /\ Single(to_server, Requests) /\ Lacks(engine.outgoing, Requests)
              => Single(to_server', Requests)
        /\ Lacks(to_server, Requests) /\ Single(engine.outgoing, Requests)
              => Single(to_server', Requests)
    BY <1>0, <2>1, TurnJoin DEF Typed
  <2>5. Quiet(stack, stack', Typings)
    BY <2>1, PlainFrames, ThenTurn
  <2> QED
    BY <2>1, <2>2, <2>3, <2>4, <2>5
       DEF TurnInv, AtMostOne, NoTurn, TurnKept, Quiet, SameTurnFlags
<1>3. CASE PolledAll
  <2>1. /\ SameTurnFlags /\ to_server' = to_server /\ engine' = engine
        /\ stack # <<>> /\ Then(<<Do("flush")>>)
    BY <1>3 DEF PolledAll, SameTurnFlags, Running
  <2>2. <<Do("flush")>> \in Seq(Frames) /\ Lacks(<<Do("flush")>>, Typings)
    BY PlainFrames DEF Do, Places, Arguments
  <2> QED
    BY <1>a, <2>1, <2>2, ThenStands
<1>4. CASE Returns
  <2>1. /\ SameTurnFlags /\ to_server' = to_server /\ engine' = engine
        /\ stack # <<>> /\ Then(<<>>)
    BY <1>4 DEF Returns, SameTurnFlags, Running
  <2> QED
    BY <1>a, <2>1, PlainFrames, ThenStands
<1>5. CASE Prompt
  <2>1. /\ client'.awaitingPasswordInput = TRUE /\ client'.verifier = client.verifier
        /\ to_server' = to_server /\ engine' = engine
        /\ stack # <<>> /\ stack[1].at = "prompt" /\ Then(<<Callback("terminal")>>)
    BY <1>0, <1>5 DEF Prompt, Running, ClientFields
  <2>2. <<Callback("terminal")>> \in Seq(Frames) /\ Lacks(<<Callback("terminal")>>, Typings)
    BY PlainFrames DEF Callback, Places, Arguments
  <2>3. stack[1] \in Typings
    BY <1>0, <2>1 DEF Typings
  <2>4. ~Lacks(stack, Typings) /\ Lacks(stack', Typings) /\ Single(stack', Typings)
    BY <2>1, <2>2, <2>3, ThenTurn DEF TurnInv, Quiet
  <2> QED
    BY <2>1, <2>4 DEF TurnInv, AtMostOne, NoTurn, TurnKept
<1>6. CASE Submit
  <2>1. /\ SameTurnFlags /\ to_server' = to_server /\ engine' = Authenticated(engine)
        /\ stack # <<>> /\ stack[1].at = "submit" /\ Then(<<Do("flush")>>)
    BY <1>6 DEF Submit, SameTurnFlags, Running
  <2>2. <<Do("flush")>> \in Seq(Frames) /\ Lacks(<<Do("flush")>>, Typings)
    BY PlainFrames DEF Do, Places, Arguments
  <2>3. stack[1] \in Typings
    BY <1>0, <2>1 DEF Typings
  <2>4. /\ ~Lacks(stack, Typings) /\ Lacks(stack', Typings)
        /\ Quiet(stack, stack', Typings)
    BY <2>1, <2>2, <2>3, ThenTurn DEF TurnInv
  <2>5. Requested(engine, engine') \/ QuietEngine(engine, engine')
    BY <1>0, <2>1, AuthTurn
  <2> QED
    BY <2>1, <2>4, <2>5, TurnRequests DEF SameTurnFlags
<1>7. CASE OpenShell
  <2>1. SameTurnFlags /\ to_server' = to_server /\ stack # <<>>
    BY <1>0, <1>7 DEF OpenShell, SameTurnFlags, Running, ClientFields
  <2>2. \/ engine' = Opened(engine, "shell") /\ Then(<<Do("flush")>>)
        \/ engine' = engine /\ Then(<<>>)
    BY <1>7 DEF OpenShell
  <2>3. <<Do("flush")>> \in Seq(Frames) /\ Lacks(<<Do("flush")>>, Typings)
    BY PlainFrames DEF Do, Places, Arguments
  <2>4. QuietEngine(engine, engine')
    BY <1>0, <1>a, <2>2, OpenTurn
  <2> QED
    BY <2>1, <2>2, <2>3, <2>4, PlainFrames, ThenStands
<1>8. CASE Shutdown
  <2>1. /\ SameTurnFlags /\ to_server' = to_server /\ engine' = engine
        /\ stack # <<>> /\ stack[1].arg \in Arguments
        /\ \/ Then(<<Frame("settle", stack[1].arg)>>)
           \/ Then(<<Callback("error"), Frame("settle", stack[1].arg)>>)
    <3>1. stack[1] \in Frames
      BY <1>0, <1>8 DEF Shutdown, Running
    <3> QED
      BY <1>8, <3>1 DEF Shutdown, SameTurnFlags, Running, Frames
  <2>2. /\ <<Frame("settle", stack[1].arg)>> \in Seq(Frames)
        /\ Lacks(<<Frame("settle", stack[1].arg)>>, Typings)
    BY <2>1, PlainFrames DEF Places
  <2>3. /\ <<Callback("error"), Frame("settle", stack[1].arg)>> \in Seq(Frames)
        /\ Lacks(<<Callback("error"), Frame("settle", stack[1].arg)>>, Typings)
    <3>1. PICK arg \in Arguments : arg = stack[1].arg
      BY <2>1
    <3>2. "error" \in Arguments
      BY DEF Arguments
    <3>3. /\ <<Frame("callback", "error"), Frame("settle", arg)>> \in Seq(Frames)
          /\ Lacks(<<Frame("callback", "error"), Frame("settle", arg)>>, Typings)
      BY <3>2, PlainFrames
    <3> QED
      BY <3>1, <3>3 DEF Callback
  <2> QED
    BY <1>a, <2>1, <2>2, <2>3, ThenStands
<1>9. CASE Settle
  <2>1. /\ SameTurnFlags /\ to_server' = to_server /\ engine' = engine
        /\ stack # <<>> /\ (Then(<<>>) \/ Then(<<Callback("close")>>))
    BY <1>0, <1>9 DEF Settle, SameTurnFlags, Running, ClientFields
  <2>2. <<Callback("close")>> \in Seq(Frames) /\ Lacks(<<Callback("close")>>, Typings)
    BY PlainFrames DEF Callback, Places, Arguments
  <2> QED
    BY <1>a, <2>1, <2>2, PlainFrames, ThenStands
<1> QED
  BY <1>1, <1>2, <1>3, <1>4, <1>5, <1>6, <1>7, <1>8, <1>9

\* An event of the dialogue.
LEMMA QuestionPolled ==
    ASSUME TypeInv, NEW type \in {"HostKeyVerify", "ReadyForAuth", "AuthFailure",
                                  "AuthFailureNoPassword", "AuthSuccess"},
           Handles(type)
    PROVE  engine.events # <<>> /\ Head(engine.events) \in Questions
<1>1. engine.events \in Seq(EventRecords) /\ engine.events # <<>>
  BY DEF TypeInv, Typed, Handles
<1>2. Head(engine.events) \in EventRecords
  BY <1>1
<1> QED
  BY <1>1, <1>2 DEF Handles, Event, Questions

\* The handlers of events.
LEMMA HandlersTurn ==
    ASSUME StackInv, CloseInv, TypeInv, TurnInv, UNCHANGED to_client,
           \/ HandleHostKeyVerify \/ HandleReadyForAuth \/ HandleAuthFailure \/ HandleAuthSuccess
           \/ HandleOpenFailed \/ HandleData \/ HandleExitStatus \/ HandleChannelClosed
           \/ HandleTerminal \/ HandleOther
    PROVE  TurnKept
<1>0. DOMAIN client = ClientFields /\ Typed(engine) /\ stack \in Seq(Frames)
  BY Flags DEF TypeInv, StackInv, WellFormed
<1>1. CASE HandleHostKeyVerify
  <2> DEFINE p == DataTaken(Polled(engine))
  <2>1. engine.events # <<>> /\ Head(engine.events) \in Questions
    BY <1>1, QuestionPolled DEF HandleHostKeyVerify
  <2>2. Typed(Polled(engine)) /\ QuietEngine(engine, Polled(engine))
    BY <1>0, <2>1, PollTyped, PollTurn
  <2>3. Typed(p) /\ QuietEngine(Polled(engine), p) /\ p.events = Polled(engine).events
    BY <2>2, TakeTyped, TakeTurn
  <2>4. QuietEngine(engine, p)
    BY <2>2, <2>3, QuietOn
  <2>5. ~Lacks(engine.events, Questions) /\ Lacks(p.events, Questions)
    BY <1>0, <2>1, <2>3, PollTurn DEF TurnInv
  <2>6. to_server' = to_server /\ client'.awaitingPasswordInput = client.awaitingPasswordInput
    BY <1>0, <1>1 DEF HandleHostKeyVerify, ClientFields
  <2>7. CASE options.hostKeyCb
    <3>1. engine' = p /\ client'.verifier = "pending" /\ Call(<<Callback("hostKey")>>)
      BY <1>0, <1>1, <2>7 DEF HandleHostKeyVerify, ClientFields
    <3>2. <<Callback("hostKey")>> \in Seq(Frames) /\ Lacks(<<Callback("hostKey")>>, Typings)
      BY PlainFrames DEF Callback, Places, Arguments
    <3>3. Quiet(stack, stack', Typings)
      BY <3>1, <3>2, CallTurn
    <3> HIDE DEF p
    <3> QED
      BY <2>4, <2>5, <2>6, <3>1, <3>3
         DEF TurnInv, AtMostOne, NoTurn, TurnKept, QuietEngine, Quiet
  <2>8. CASE ~options.hostKeyCb
    <3>1. /\ engine' = Decided(p, TRUE) /\ client' = client
          /\ Call(<<Do("drive"), Do("flush")>>)
      BY <1>1, <2>8 DEF HandleHostKeyVerify
    <3>2. /\ <<Do("drive"), Do("flush")>> \in Seq(Frames)
          /\ Lacks(<<Do("drive"), Do("flush")>>, Typings)
      BY PlainFrames DEF Do, Arguments
    <3>3. Quiet(stack, stack', Typings)
      BY <3>1, <3>2, CallTurn
    <3> HIDE DEF p
    <3>4. QuietEngine(p, engine') \/ Requested(p, engine')
      BY <2>3, <3>1, DecideTurn
    <3>5. QuietEngine(engine, engine') \/ Requested(engine, engine')
      BY <2>4, <3>4, QuietOn
    <3>6. Lacks(engine'.events, Questions)
      BY <2>5, <3>4 DEF QuietEngine, Requested, Quiet
    <3> QED
      BY <2>5, <2>6, <3>1, <3>3, <3>5, <3>6, TurnRequests
  <2> QED
    BY <2>7, <2>8
<1>2. CASE HandleReadyForAuth
  <2> DEFINE p == Polled(engine)
  <2>1. engine.events # <<>> /\ Head(engine.events) \in Questions
    BY <1>2, QuestionPolled DEF HandleReadyForAuth
  <2>2. Typed(p) /\ QuietEngine(engine, p)
    BY <1>0, <2>1, PollTyped, PollTurn
  <2>3. ~Lacks(engine.events, Questions) /\ Lacks(p.events, Questions)
    BY <1>0, <2>1, PollTurn DEF TurnInv
  <2>4. to_server' = to_server /\ client' = client /\ SameTurnFlags
    BY <1>2 DEF HandleReadyForAuth, SameTurnFlags
  <2>5. CASE engine' = p /\ Call(<<Do("prompt")>>)
    <3>1. Lacks(stack, Typings) => Single(stack', Typings)
      BY <2>5, TypingFrames, CallTurn
    <3> HIDE DEF p
    <3> QED
      BY <2>2, <2>3, <2>4, <2>5, <3>1
         DEF TurnInv, AtMostOne, NoTurn, TurnKept, QuietEngine, Quiet
  <2>6. CASE engine' = Authenticated(p) /\ Call(<<Do("flush")>>)
    <3>1. <<Do("flush")>> \in Seq(Frames) /\ Lacks(<<Do("flush")>>, Typings)
      BY PlainFrames DEF Do, Places, Arguments
    <3>2. Quiet(stack, stack', Typings)
      BY <2>6, <3>1, CallTurn
    <3> HIDE DEF p
    <3>3. QuietEngine(p, engine') \/ Requested(p, engine')
      BY <2>2, <2>6, AuthTurn
    <3>4. QuietEngine(engine, engine') \/ Requested(engine, engine')
      BY <2>2, <3>3, QuietOn
    <3>5. Lacks(engine'.events, Questions)
      BY <2>3, <3>3 DEF QuietEngine, Requested, Quiet
    <3> QED
      BY <2>3, <2>4, <3>2, <3>4, <3>5, TurnRequests
  <2>7. CASE engine' = p /\ Call(<<Frame("shutdown", "auth")>>)
    <3>1. /\ <<Frame("shutdown", "auth")>> \in Seq(Frames)
          /\ Lacks(<<Frame("shutdown", "auth")>>, Typings)
      BY PlainFrames DEF Places, Arguments
    <3> QED
      BY <2>1, <2>4, <2>7, <3>1, PollStands
  <2> QED
    BY <1>2, <2>5, <2>6, <2>7 DEF HandleReadyForAuth
<1>3. CASE HandleAuthFailure
  <2>1. SameTurnFlags /\ to_server' = to_server /\ engine' = Polled(engine)
    BY <1>3 DEF HandleAuthFailure, SameTurnFlags
  <2>2. engine.events # <<>> /\ Head(engine.events) \in Questions
    BY <1>3, QuestionPolled DEF HandleAuthFailure
  <2>3. CASE Call(<<Callback("terminal"), Do("prompt")>>)
    <3>1. Lacks(stack, Typings) => Single(stack', Typings)
      BY <2>3, TypingFrames, CallTurn
    <3>2. /\ ~Lacks(engine.events, Questions) /\ Lacks(engine'.events, Questions)
          /\ QuietEngine(engine, engine')
      BY <1>0, <2>1, <2>2, PollTurn DEF TurnInv
    <3> QED
      BY <2>1, <3>1, <3>2
         DEF TurnInv, AtMostOne, NoTurn, TurnKept, QuietEngine, Quiet, SameTurnFlags
  <2>4. CASE Call(<<Frame("shutdown", "auth")>>)
    <3>1. /\ <<Frame("shutdown", "auth")>> \in Seq(Frames)
          /\ Lacks(<<Frame("shutdown", "auth")>>, Typings)
      BY PlainFrames DEF Places, Arguments
    <3> QED
      BY <2>1, <2>2, <2>4, <3>1, PollStands
  <2> QED
    BY <1>3, <2>3, <2>4 DEF HandleAuthFailure
<1>4. CASE HandleAuthSuccess
  <2>1. /\ SameTurnFlags /\ to_server' = to_server /\ engine' = Polled(engine)
        /\ engine.events # <<>> /\ Call(<<Callback("ready"), Do("openShell")>>)
    BY <1>4 DEF HandleAuthSuccess, SameTurnFlags, Handles
  <2>2. /\ <<Callback("ready"), Do("openShell")>> \in Seq(Frames)
        /\ Lacks(<<Callback("ready"), Do("openShell")>>, Typings)
    BY PlainFrames DEF Callback, Do, Arguments
  <2> QED
    BY <2>1, <2>2, PollStands
<1>5. CASE HandleOpenFailed
  <2>1. /\ SameTurnFlags /\ to_server' = to_server /\ engine' = Polled(engine)
        /\ engine.events # <<>> /\ (Call(<<Callback("error")>>) \/ UNCHANGED stack)
    BY <1>0, <1>5 DEF HandleOpenFailed, Settled, SameTurnFlags, Handles, ClientFields
  <2>2. <<Callback("error")>> \in Seq(Frames) /\ Lacks(<<Callback("error")>>, Typings)
    BY PlainFrames DEF Callback, Places, Arguments
  <2> QED
    BY <2>1, <2>2, PollStands
<1>6. CASE HandleData
  <2>1. /\ SameTurnFlags /\ to_server' = to_server /\ engine' = DataTaken(Polled(engine))
        /\ engine.events # <<>> /\ (Call(<<Callback("terminal")>>) \/ UNCHANGED stack)
    BY <1>0, <1>6 DEF HandleData, SameTurnFlags, Handles, ClientFields
  <2>2. <<Callback("terminal")>> \in Seq(Frames) /\ Lacks(<<Callback("terminal")>>, Typings)
    BY PlainFrames DEF Callback, Places, Arguments
  <2> QED
    BY <2>1, <2>2, PollStands
<1>7. CASE HandleExitStatus \/ HandleChannelClosed \/ HandleOther
  <2>1. /\ SameTurnFlags /\ to_server' = to_server /\ engine' = Polled(engine)
        /\ engine.events # <<>> /\ UNCHANGED stack
    BY <1>0, <1>7 DEF HandleExitStatus, HandleChannelClosed, HandleOther, Settled,
                      SameTurnFlags, Handles, ClientFields
  <2> QED
    BY <2>1, PollStands
<1>8. CASE HandleTerminal
  <2> DEFINE arg == IF client.intentionalClose THEN "none" ELSE Event.type
             f == <<Frame("shutdown", arg)>>
  <2>1. /\ SameTurnFlags /\ to_server' = to_server /\ engine' = Polled(engine)
        /\ engine.events # <<>> /\ Call(f)
    BY <1>8 DEF HandleTerminal, SameTurnFlags, Handles
  <2>2. arg \in Arguments
    BY <1>8 DEF HandleTerminal, Handles, Arguments
  <2> HIDE DEF arg
  <2>3. f \in Seq(Frames) /\ Lacks(f, Typings)
    BY <2>2, PlainFrames DEF Places
  <2> QED
    BY <2>1, <2>3, PollStands
<1> QED
  BY <1>1, <1>2, <1>3, <1>4, <1>5, <1>6, <1>7, <1>8

\* The thread.
LEMMA RunTurn ==
    ASSUME StackInv, CloseInv, TypeInv, TurnInv, UNCHANGED to_client, Run
    PROVE  TurnKept
BY FramesTurn, HandlersTurn DEF Run

\* What leaves the client alone.
LEMMA ClientStands ==
    ASSUME TurnInv, clientUnchanged,
           Quiet(to_server, to_server', Requests), Quiet(to_client, to_client', Responses)
    PROVE  TurnKept
BY SameTurn, TurnStands DEF clientUnchanged, Quiet

\* The server's step from a request to its response.
LEMMA ServerAnswers ==
    ASSUME TypeInv, TurnInv, clientUnchanged,
           NEW ask \in {"ident", "service", "auth"}, Reads(ask),
           NEW type \in {"kexReply", "serviceAccept", "success", "failure", "lastFailure"},
           Says(<<Msg(type)>>)
    PROVE  TurnKept
<1>1. /\ to_server \in Seq(Outgoing) /\ to_client \in Seq(Incoming)
      /\ to_server # <<>> /\ to_server' = Tail(to_server) /\ Head(to_server).type = ask
      /\ to_client' = to_client \o <<Msg(type)>>
  BY DEF TypeInv, Reads, Says
<1>2. Head(to_server) \in Requests
  BY <1>1, ReadsTyped DEF Requests
<1>3. ~Lacks(to_server, Requests) /\ Lacks(to_server', Requests) /\ Single(to_server', Requests)
  BY <1>1, <1>2, TurnTail DEF TurnInv, Quiet
<1>4. Lacks(to_client, Responses) => Single(to_client', Responses)
  <2>1. <<Msg(type)>> \in Seq(Incoming) /\ Single(<<Msg(type)>>, Responses)
    BY MsgTyped DEF Single
  <2> QED
    BY <1>1, <2>1, TurnJoin
<1> QED
  BY <1>3, <1>4 DEF TurnInv, AtMostOne, NoTurn, TurnKept, clientUnchanged

\* Its other steps.
LEMMA ServerTurn ==
    ASSUME TypeInv, TurnInv, ServerReads \/ Ends
    PROVE  TurnKept
<1>0. /\ clientUnchanged
      /\ to_server \in Seq(Outgoing) /\ to_client \in Seq(Incoming)
  BY ServerSteps DEF TypeInv
<1>1. CASE Greets \/ Grants \/ Judges
  <2>1. PICK ask \in {"ident", "service", "auth"},
             type \in {"kexReply", "serviceAccept", "success", "failure", "lastFailure"} :
                Reads(ask) /\ Says(<<Msg(type)>>)
    BY <1>1 DEF Greets, Grants, Judges
  <2> QED
    BY <1>0, <2>1, ServerAnswers
<1>2. CASE OpensChannel
  <2>1. PICK ask \in {"exec", "shell", "setup"} : Reads(ask)
    BY <1>2 DEF OpensChannel
  <2>2. /\ to_server # <<>> /\ to_server' = Tail(to_server)
        /\ Head(to_server) \in Outgoing /\ Head(to_server).type = ask
    BY <2>1, ReadsTyped DEF Reads
  <2>3. Quiet(to_server, to_server', Requests)
    BY <1>0, <2>2, TurnTail
  <2>4. Head(to_server).id \in Nat \ {0}
    BY <2>2 DEF Outgoing
  <2>5. PICK msgs : /\ Says(msgs)
                    /\ \/ msgs = <<>>
                       \/ msgs = <<ChannelMsg("confirm", Head(to_server).id)>>
                       \/ msgs = <<ChannelMsg("refuse", Head(to_server).id)>>
    BY <1>2 DEF OpensChannel
  <2>6. msgs \in Seq(Incoming)
    BY <2>4, <2>5, MsgTyped
  <2>7. Lacks(msgs, Responses)
    BY <2>5 DEF Lacks, Responses, ChannelMsg
  <2>8. Quiet(to_client, to_client', Responses)
    BY <1>0, <2>5, <2>6, <2>7, TurnJoin DEF Says, Quiet
  <2> QED
    BY <1>0, <2>3, <2>8, ClientStands
<1>3. CASE Ends
  <2>1. PICK type \in {"disconnect", "garbage"} : Says(<<Msg(type)>>)
    BY <1>3 DEF Ends
  <2>2. <<Msg(type)>> \in Seq(Incoming)
    BY MsgTyped
  <2>3. Lacks(<<Msg(type)>>, Responses)
    BY DEF Lacks, Responses, Msg
  <2>4. Quiet(to_client, to_client', Responses)
    BY <1>0, <2>1, <2>2, <2>3, TurnJoin DEF Says, Quiet
  <2>5. to_server' = to_server
    BY <1>3 DEF Ends
  <2> QED
    BY <1>0, <2>4, <2>5, ClientStands DEF Quiet
<1> QED
  BY <1>1, <1>2, <1>3 DEF ServerReads

\* close() on a client that may be closed.
LEMMA ClosesTurn ==
    ASSUME ConnectInv, TurnInv, CloseClient, UNCHANGED to_client
    PROVE  TurnKept
<1>1. CASE client.closed
  BY <1>1, ClientStands DEF CloseClient, Quiet
<1>2. CASE ~client.closed
  BY <1>2, CallsTurn DEF CloseClient, ConnectInv, ClientInv
<1> QED
  BY <1>1, <1>2

\* Every step of connect() and its surroundings keeps the turn.
LEMMA TurnStep == ConnectInv /\ TurnInv /\ [ConnectNext]_allVars => TurnKept
<1> SUFFICES ASSUME ConnectInv, TurnInv, [ConnectNext]_allVars PROVE TurnKept
  OBVIOUS
<1>0. StackInv /\ CloseInv /\ TypeInv
  BY DEF ConnectInv, ClientInv
<1>1. CASE ClientRuns
  BY <1>0, <1>1, RunTurn DEF ClientRuns, serverVars
<1>2. CASE LoopReads
  <2>1. PICK n \in 1..Len(to_client) :
          /\ IF client.closed THEN clientUnchanged /\ UNCHANGED to_server
             ELSE FeedFromServer(SubSeq(to_client, 1, n))
          /\ to_client' = SubSeq(to_client, n + 1, Len(to_client))
    BY <1>2 DEF LoopReads
  <2>2. CASE client.closed
    <3>1. to_client \in Seq(Incoming)
      BY <1>0 DEF TypeInv
    <3>2. Quiet(to_client, to_client', Responses)
      BY <2>1, <3>1, TurnSplit
    <3> QED
      BY <2>1, <2>2, <3>2, ClientStands DEF Quiet
  <2>3. CASE ~client.closed
    BY <1>0, <2>1, <2>3, FeedTurn
  <2> QED
    BY <2>2, <2>3
<1>3. CASE LoopEnds \/ WriteFails
  BY <1>3, ClosesTurn DEF LoopEnds, WriteFails, serverVars
<1>4. CASE TimerFires \/ SinkAccepts \/ CleansUp
  BY <1>4, ClientStands DEF TimerFires, SinkAccepts, CleansUp, CancelReader, CloseWriter,
     CloseSocket, Rethrow, vars, serverVars, clientUnchanged, Quiet
<1>5. CASE Others
  <2>1. CASE ServerReads \/ Ends
    BY <1>0, <2>1, ServerTurn
  <2>2. CASE UserTypes \/ UserCloses
    BY <1>0, <2>2, CallsTurn DEF UserTypes, UserCloses, serverVars
  <2>3. CASE Answers
    BY <1>0, <2>3, CallsTurn DEF Answers, serverVars
  <2> QED
    BY <1>5, <2>1, <2>2, <2>3 DEF Others
<1>6. CASE UNCHANGED allVars
  BY <1>6, ClientStands DEF allVars, vars, serverVars, clientUnchanged, Quiet
<1> QED
  BY <1>1, <1>2, <1>3, <1>4, <1>5, <1>6 DEF ConnectNext

\* At first it is the client's, who greets.
LEMMA TurnStart == ConnectInit => TurnInv
<1> SUFFICES ASSUME ConnectInit PROVE TurnInv
  OBVIOUS
<1>1. /\ engine.outgoing = <<>> /\ engine.buffered = <<>> /\ engine.events = <<>>
      /\ stack = <<>> /\ to_client = <<>> /\ to_server = <<Msg("ident")>>
      /\ client.awaitingPasswordInput = FALSE /\ client.verifier = "none"
  BY DEF ConnectInit, Init, ClientInit, NewEngine
<1>2. \A S : Lacks(<<>>, S) /\ Single(<<>>, S) /\ Single(to_server, S)
  BY <1>1 DEF Lacks, Single
<1> QED
  BY <1>1, <1>2 DEF TurnInv, AtMostOne

\* A log with at most one message of a kind.
LEMMA CountsOne ==
    ASSUME NEW A, NEW log \in Seq(A), NEW types, NEW S, \A m \in A : m.type \in types => m \in S
    PROVE  /\ Lacks(log, S) => OnTheWay(log, types) = 0
           /\ Single(log, S) => OnTheWay(log, types) \in {0, 1}
<1> DEFINE T == {i \in DOMAIN log : log[i].type \in types}
<1>1. DOMAIN log = 1..Len(log) /\ \A i \in T : i \in 1..Len(log) /\ log[i] \in S
  OBVIOUS
<1>2. OnTheWay(log, types) = Cardinality(T)
  BY DEF OnTheWay
<1> HIDE DEF T
<1>3. T = {} => Cardinality(T) = 0
  BY FS_EmptySet
<1>4. Lacks(log, S) => T = {}
  BY <1>1 DEF Lacks
<1>5. ASSUME Single(log, S), T # {} PROVE Cardinality(T) = 1
  <2>1. PICK i : i \in T
    BY <1>5
  <2>2. T = {i}
    BY <1>1, <1>5, <2>1 DEF Single
  <2> QED
    BY <2>2, FS_Singleton
<1> QED
  BY <1>2, <1>3, <1>4, <1>5

\* Whoever has the turn has the attempt, if there is one.
LEMMA TurnAttempt == TypeInv /\ TurnInv => OneAttempt
<1> SUFFICES ASSUME TypeInv, TurnInv PROVE OneAttempt
  OBVIOUS
<1>0. /\ engine.outgoing \in Seq(Outgoing) /\ to_server \in Seq(Outgoing)
      /\ to_client \in Seq(Incoming) /\ engine.buffered \in Seq(Incoming)
      /\ engine.events \in Seq(EventRecords)
  BY DEF TypeInv, Typed
<1>1. PICK a : a = OnTheWay(engine.outgoing, {"auth"})
  OBVIOUS
<1>2. PICK b : b = OnTheWay(to_server, {"auth"})
  OBVIOUS
<1>3. PICK c : c = OnTheWay(to_client, {"success", "failure", "lastFailure"})
  OBVIOUS
<1>4. PICK d : d = OnTheWay(engine.buffered, {"success", "failure", "lastFailure"})
  OBVIOUS
<1>5. PICK e : e = OnTheWay(engine.events, {"AuthSuccess", "AuthFailure", "AuthFailureNoPassword"})
  OBVIOUS
<1>6. Attempts = a + b + c + d + e
  BY <1>1, <1>2, <1>3, <1>4, <1>5 DEF Attempts
<1>7. \A m \in Outgoing : m.type \in {"auth"} => m \in Requests
  BY DEF Requests
<1>8. \A m \in Incoming : m.type \in {"success", "failure", "lastFailure"} => m \in Responses
  BY DEF Responses
<1>9. \A m \in EventRecords :
          m.type \in {"AuthSuccess", "AuthFailure", "AuthFailureNoPassword"} => m \in Questions
  BY DEF Questions
<1>10. a \in {0, 1} /\ (Lacks(engine.outgoing, Requests) => a = 0)
  BY <1>0, <1>1, <1>7, CountsOne DEF TurnInv
<1>11. b \in {0, 1} /\ (Lacks(to_server, Requests) => b = 0)
  BY <1>0, <1>2, <1>7, CountsOne DEF TurnInv
<1>12. c \in {0, 1} /\ (Lacks(to_client, Responses) => c = 0)
  BY <1>0, <1>3, <1>8, CountsOne DEF TurnInv
<1>13. d \in {0, 1} /\ (Lacks(engine.buffered, Responses) => d = 0)
  BY <1>0, <1>4, <1>8, CountsOne DEF TurnInv
<1>14. e \in {0, 1} /\ (Lacks(engine.events, Questions) => e = 0)
  BY <1>0, <1>5, <1>9, CountsOne DEF TurnInv
<1>15. AtMostOne(a = 1, b = 1, c = 1, d = 1, e = 1, FALSE, client.awaitingPasswordInput, FALSE)
  BY <1>10, <1>11, <1>12, <1>13, <1>14 DEF TurnInv, AtMostOne
<1>16. /\ a + b + c + d + e <= 1
       /\ client.awaitingPasswordInput => a + b + c + d + e = 0
  BY <1>10, <1>11, <1>12, <1>13, <1>14, <1>15 DEF AtMostOne
<1> QED
  BY <1>6, <1>16 DEF OneAttempt

\* There is never more than one attempt to authenticate under way, and none while
\* the password prompt is open, whatever the user types at it and however often
\* the server refuses (client.ts:170-209, session.rs:475-497).
THEOREM OneAtATime == ConnectSpec => []OneAttempt
<1>1. ConnectInit => ConnectInv /\ TurnInv
  BY ConnectStart, TurnStart
<1>2. ConnectInv /\ TurnInv /\ [ConnectNext]_allVars => (ConnectInv /\ TurnInv)'
  BY ConnectStep, TurnStep DEF TurnKept
<1>3. ConnectInv /\ TurnInv => OneAttempt
  BY TurnAttempt DEF ConnectInv
<1> QED
  BY <1>1, <1>2, <1>3, PTL DEF ConnectSpec

-----------------------------------------------------------------------------
(***************************************************************************)
(* Which of ready and close comes first.  Both are called behind an event  *)
(* of the session, and no authentication succeeds behind a shutdown: what  *)
(* starts one has either taken the turn for good or polled the terminal    *)
(* event, behind which the queue is empty and stays so.                    *)
(***************************************************************************)

\* A terminal event is the last one.
LastEvent(e) ==
    \A i \in 1..Len(e.events) : e.events[i].type \in Terminal =>
        i = Len(e.events) /\ e.phase = "Closed"

Shut(e) == e.phase = "Closed" /\ e.events = <<>>

LastKept(e, n) == (LastEvent(e) => LastEvent(n)) /\ (Shut(e) => Shut(n))

\* What leaves phase and events alone.
LEMMA SameLast ==
    ASSUME NEW e, NEW n, n.phase = e.phase, n.events = e.events
    PROVE  LastKept(e, n)
BY DEF LastKept, LastEvent, Shut

\* Two calls.
LEMMA LastOn ==
    ASSUME NEW e, NEW n, NEW o, LastKept(e, n), LastKept(n, o)
    PROVE  LastKept(e, o)
BY DEF LastKept

\* An event, in a session that is open.
LEMMA AppendLast ==
    ASSUME NEW e, e.events \in Seq(EventRecords), e.phase # "Closed",
           NEW n, NEW ev \in EventRecords, n.events = Append(e.events, ev),
           ev.type \in Terminal => n.phase = "Closed"
    PROVE  LastKept(e, n)
<1>1. PICK k : k = Len(e.events)
  OBVIOUS
<1>2. /\ k \in Nat /\ Len(n.events) = k + 1 /\ n.events[k + 1] = ev
      /\ \A i \in 1..k : n.events[i] = e.events[i]
  BY <1>1
<1>3. \A i \in 1..(k + 1) : i \in 1..k \/ i = k + 1
  BY <1>2
<1>4. ~Shut(e)
  BY DEF Shut
<1>5. LastEvent(e) => LastEvent(n)
  BY <1>1, <1>2, <1>3 DEF LastEvent
<1> QED
  BY <1>4, <1>5 DEF LastKept

\* drive.
LEMMA DriveLast ==
    ASSUME NEW e, Typed(e), DriveGoesOn(e)
    PROVE  LastKept(e, DriveOne(e))
<1> DEFINE n == DriveOne(e)
           m == Head(e.buffered)
           ev == ChannelMsg(EventOf[m.type], m.id)
<1>1. m \in Incoming /\ e.events \in Seq(EventRecords) /\ e.phase # "Closed"
  BY DEF Typed, DriveGoesOn
<1>2. /\ n.events = Append(e.events, ev)
      /\ n.phase = IF m.type \in DOMAIN PhaseAfter THEN PhaseAfter[m.type] ELSE e.phase
  BY DEF DriveOne, Typed, EngineFields
<1> HIDE DEF n, m
<1>3. EventOf[m.type] \in
        {"HostKeyVerify", "ReadyForAuth", "AuthFailure", "AuthFailureNoPassword",
         "AuthSuccess", "ChannelOpened", "ChannelOpenFailed", "ChannelData",
         "ChannelExitStatus", "ChannelClosed", "Disconnected", "Unrecoverable"}
  BY <1>1 DEF EventOf, Incoming
<1>4. ev \in EventRecords /\ ev.type = EventOf[m.type]
  <2>1. EventOf[m.type] = "ChannelOpenFailed" => m.id # 0
    BY <1>1 DEF EventOf, Incoming
  <2>2. m.id \in Nat
    BY <1>1 DEF Incoming
  <2> QED
    BY <1>3, <2>1, <2>2 DEF EventRecords, ChannelMsg
<1>5. EventOf[m.type] \in Terminal => m.type \in {"disconnect", "garbage"}
  BY <1>1 DEF EventOf, Incoming, Terminal
<1>6. m.type \in {"disconnect", "garbage"} => n.phase = "Closed"
  BY <1>2 DEF PhaseAfter
<1> HIDE DEF ev
<1>7. LastKept(e, n)
  BY <1>1, <1>2, <1>4, <1>5, <1>6, AppendLast
<1> QED
  BY <1>7 DEF n

\* poll_event: behind a terminal event there is nothing.
LEMMA PollLast ==
    ASSUME NEW e, Typed(e), e.events # <<>>
    PROVE  /\ LastKept(e, Polled(e))
           /\ LastEvent(e) /\ Head(e.events).type \in Terminal => Shut(Polled(e))
<1> DEFINE n == Polled(e)
<1>1. n.events = Tail(e.events) /\ n.phase = e.phase
  BY DEF Polled, Typed, EngineFields
<1> HIDE DEF n
<1>2. PICK k : k = Len(e.events)
  OBVIOUS
<1>3. /\ k \in Nat \ {0} /\ Head(e.events) = e.events[1] /\ Len(n.events) = k - 1
      /\ \A i \in 1..(k - 1) : i + 1 \in 1..k /\ n.events[i] = e.events[i + 1]
      /\ n.events \in Seq(EventRecords)
  BY <1>1, <1>2 DEF Typed
<1>4. ASSUME LastEvent(e), NEW i \in 1..(k - 1), n.events[i].type \in Terminal
      PROVE  i = k - 1 /\ n.phase = "Closed"
  <2>1. i + 1 = k /\ e.phase = "Closed"
    BY <1>2, <1>3, <1>4 DEF LastEvent
  <2> QED
    BY <1>1, <1>3, <2>1
<1>5. LastEvent(e) => LastEvent(n)
  BY <1>3, <1>4 DEF LastEvent
<1>6. ASSUME LastEvent(e), Head(e.events).type \in Terminal PROVE Shut(n)
  <2>1. 1 \in 1..k
    BY <1>3
  <2>2. k = 1 /\ e.phase = "Closed"
    BY <1>2, <1>3, <1>6, <2>1 DEF LastEvent
  <2>3. Len(n.events) = 0
    BY <1>3, <2>2
  <2>4. n.events = <<>>
    BY <1>3, <2>3
  <2> QED
    BY <1>1, <2>2, <2>4 DEF Shut
<1> QED
  BY <1>5, <1>6 DEF LastKept, Shut, n

\* A session that closes does so with one terminal event.
LEMMA CloseLast ==
    ASSUME NEW e, Typed(e), e.phase # "Closed"
    PROVE  LastKept(e, [e EXCEPT !.phase = "Closed", !.events = Append(@, Msg("Unrecoverable"))])
<1> DEFINE n == [e EXCEPT !.phase = "Closed", !.events = Append(@, Msg("Unrecoverable"))]
<1>1. n.events = Append(e.events, Msg("Unrecoverable")) /\ n.phase = "Closed"
  BY DEF Typed, EngineFields
<1>2. Msg("Unrecoverable") \in EventRecords
  BY DEF Msg, EventRecords
<1>3. e.events \in Seq(EventRecords)
  BY DEF Typed
<1> HIDE DEF n
<1>4. LastKept(e, n)
  BY <1>1, <1>2, <1>3, AppendLast
<1> QED
  BY <1>4 DEF n

\* The other calls.
LEMMA CallsLast ==
    ASSUME NEW e, Typed(e)
    PROVE  /\ LastKept(e, NotifiedClosed(e))
           /\ \A accept \in BOOLEAN : LastKept(e, Decided(e, accept))
           /\ LastKept(e, Authenticated(e))
           /\ \A kind \in {"exec", "shell"} : LastKept(e, Opened(e, kind))
           /\ LastKept(e, Taken(e)) /\ LastKept(e, DataTaken(e))
           /\ \A msgs : LastKept(e, FeedIncoming(e, msgs))
<1>1. LastKept(e, NotifiedClosed(e))
  BY CloseLast, SameLast DEF NotifiedClosed
<1>2. ASSUME NEW accept \in BOOLEAN PROVE LastKept(e, Decided(e, accept))
  <2>1. CASE e.phase # "AwaitingHostKeyDecision"
    BY <2>1, SameLast DEF Decided
  <2>2. CASE e.phase = "AwaitingHostKeyDecision" /\ accept
    <3>1. /\ Decided(e, accept).events = e.events
          /\ Decided(e, accept).phase = "ServiceRequest"
      BY <2>2 DEF Decided, Sends, Typed, EngineFields
    <3> QED
      BY <2>2, <3>1 DEF LastKept, LastEvent, Shut
  <2>3. CASE e.phase = "AwaitingHostKeyDecision" /\ ~accept
    BY <2>3, CloseLast DEF Decided
  <2> QED
    BY <2>1, <2>2, <2>3
<1>3. LastKept(e, Authenticated(e))
  <2>1. Authenticated(e).phase = e.phase /\ Authenticated(e).events = e.events
    BY DEF Authenticated, Sends, Typed, EngineFields
  <2> QED
    BY <2>1, SameLast
<1>4. ASSUME NEW kind \in {"exec", "shell"} PROVE LastKept(e, Opened(e, kind))
  <2>1. Opened(e, kind).phase = e.phase /\ Opened(e, kind).events = e.events
    BY DEF Opened, Sends, Typed, EngineFields
  <2> QED
    BY <2>1, SameLast
<1>5. LastKept(e, Taken(e)) /\ LastKept(e, DataTaken(e))
  <2>1. /\ Taken(e).phase = e.phase /\ Taken(e).events = e.events
        /\ DataTaken(e).phase = e.phase /\ DataTaken(e).events = e.events
    BY DEF Taken, DataTaken, Typed, EngineFields
  <2> QED
    BY <2>1, SameLast
<1>6. ASSUME NEW msgs PROVE LastKept(e, FeedIncoming(e, msgs))
  <2>1. /\ FeedIncoming(e, msgs).phase = e.phase /\ FeedIncoming(e, msgs).events = e.events
    BY DEF FeedIncoming, Typed, EngineFields
  <2> QED
    BY <2>1, SameLast
<1> QED
  BY <1>1, <1>2, <1>3, <1>4, <1>5, <1>6

\* What a run of the thread, and a call, does to the engine.
LEMMA RunLast ==
    ASSUME Typed(engine), Run
    PROVE  LastKept(engine, engine')
<1> DEFINE p == Polled(engine)
<1>1. \/ engine' = engine
      \/ DriveGoesOn(engine) /\ engine' = DriveOne(engine)
      \/ engine' = Taken(engine) \/ engine' = Authenticated(engine)
      \/ engine' = Opened(engine, "shell")
      \/ /\ engine.events # <<>>
         /\ \/ engine' = p \/ engine' = DataTaken(p) \/ engine' = Authenticated(p)
            \/ engine' = Decided(DataTaken(p), TRUE)
  BY DEF Run, Drive, FlushOutgoing, PolledAll, Returns, Prompt, Submit, OpenShell, Shutdown,
         Settle, HandleHostKeyVerify, HandleReadyForAuth, HandleAuthFailure, HandleAuthSuccess,
         HandleOpenFailed, HandleData, HandleExitStatus, HandleChannelClosed, HandleTerminal,
         HandleOther, Handles
<1>2. CASE engine' = engine
  BY <1>2, SameLast
<1>3. CASE \/ DriveGoesOn(engine) /\ engine' = DriveOne(engine)
           \/ engine' = Taken(engine) \/ engine' = Authenticated(engine)
           \/ engine' = Opened(engine, "shell")
  BY <1>3, DriveLast, CallsLast
<1>4. CASE /\ engine.events # <<>>
           /\ \/ engine' = p \/ engine' = DataTaken(p) \/ engine' = Authenticated(p)
              \/ engine' = Decided(DataTaken(p), TRUE)
  <2>1. Typed(p) /\ LastKept(engine, p)
    BY <1>4, PollTyped, PollLast
  <2> HIDE DEF p
  <2>2. Typed(DataTaken(p)) /\ LastKept(p, DataTaken(p)) /\ LastKept(p, Authenticated(p))
    BY <2>1, TakeTyped, CallsLast
  <2>3. LastKept(DataTaken(p), Decided(DataTaken(p), TRUE))
    BY <2>2, CallsLast
  <2>4. LastKept(engine, DataTaken(p)) /\ LastKept(engine, Authenticated(p))
    BY <2>1, <2>2, LastOn
  <2>5. LastKept(engine, Decided(DataTaken(p), TRUE))
    BY <2>3, <2>4, LastOn
  <2>6. \/ engine' = p \/ engine' = DataTaken(p) \/ engine' = Authenticated(p)
        \/ engine' = Decided(DataTaken(p), TRUE)
    BY <1>4 DEF p
  <2> QED
    BY <2>1, <2>4, <2>5, <2>6
<1> QED
  BY <1>1, <1>2, <1>3, <1>4

\* The calls made to the session from outside.
LEMMA LastStep == TypeInv /\ [ConnectNext]_allVars => LastKept(engine, engine')
<1> SUFFICES ASSUME TypeInv, [ConnectNext]_allVars PROVE LastKept(engine, engine')
  OBVIOUS
<1>0. Typed(engine) /\ to_server \in Seq(Outgoing)
  BY DEF TypeInv
<1>1. CASE engine' = engine
  BY <1>1, SameLast
<1>2. CASE Run
  BY <1>0, <1>2, RunLast
<1>3. CASE Close
  BY <1>0, <1>3, CallsLast DEF Close
<1>4. CASE \E msgs : FeedFromServer(msgs)
  BY <1>0, <1>4, CallsLast DEF FeedFromServer
<1>5. CASE \E accept \in BOOLEAN : VerifierAnswers(accept)
  BY <1>0, <1>5, CallsLast DEF VerifierAnswers
<1>6. CASE Enter \/ CtrlC \/ clientUnchanged
  BY <1>1, <1>6 DEF Enter, CtrlC, clientUnchanged
<1>7. ASSUME ServerReads \/ Ends PROVE clientUnchanged
  BY <1>7, ServerSteps
<1>8. ASSUME LoopReads PROVE clientUnchanged \/ \E msgs : FeedFromServer(msgs)
  BY <1>8 DEF LoopReads
<1>9. ASSUME LoopEnds \/ WriteFails PROVE clientUnchanged \/ Close
  BY <1>9 DEF LoopEnds, WriteFails, CloseClient
<1>10. ASSUME TimerFires \/ SinkAccepts \/ CleansUp \/ UNCHANGED allVars PROVE clientUnchanged
  BY <1>10 DEF TimerFires, SinkAccepts, CleansUp, CancelReader, CloseWriter, CloseSocket,
               Rethrow, allVars, vars, clientUnchanged
<1>11. ASSUME Others
       PROVE  ServerReads \/ Ends \/ Enter \/ CtrlC \/ Close
              \/ \E accept \in BOOLEAN : VerifierAnswers(accept)
  BY <1>11 DEF Others, UserTypes, UserCloses, Answers
<1>12. ASSUME ClientRuns PROVE Run
  BY <1>12 DEF ClientRuns
<1> QED
  BY <1>2, <1>3, <1>4, <1>5, <1>6, <1>7, <1>8, <1>9, <1>10, <1>11, <1>12 DEF ConnectNext

\* No authentication succeeds any more.
Over == Shut(engine) \/ NoTurn

\* The frames behind which a client is closed, and those that its callbacks ready
\* and close have left.
Ending == {f \in Frames : f.at \in {"shutdown", "settle"}}

Readying == {f \in Frames : f.at = "openShell" \/ (f.at = "callback" /\ f.arg = "ready")}

Closing == {f \in Frames : f.at = "callback" /\ f.arg = "close"}

First(name) == called # <<>> /\ called[1] = name

NeverReady == \A i \in DOMAIN called : called[i] # "ready"

\* A client that has begun with anything but ready never comes to it.
FirstInv ==
    /\ ~Lacks(stack, Ending) \/ client.closed => Over
    /\ called # <<>> => First("ready") \/ (Over /\ NeverReady)
    /\ ~Lacks(stack, Readying) \/ client.shellChannelId # 0 => First("ready")
    /\ ~Lacks(stack, Closing) => called # <<>>

-----------------------------------------------------------------------------
\* All steps but one, the handler of AuthSuccess, leave the order as it is.

Stands(S) == Lacks(stack, S) => Lacks(stack', S)

Notes(name) == called' = Append(called, name)

Calm ==
    /\ Stands(Ending) \/ Over'
    /\ Stands(Readying)
    /\ Stands(Closing) \/ called' # <<>>
    /\ client'.closed => client.closed \/ Over'
    /\ client'.shellChannelId # 0 => client.shellChannelId # 0 \/ First("ready")
    /\ called' = called \/ ((called # <<>> \/ Over') /\ (Notes("error") \/ Notes("close")))

\* The names of callbacks that have been called.
LEMMA Noted ==
    ASSUME CloseInv, NEW name, Notes(name)
    PROVE  /\ called' # <<>>
           /\ called # <<>> => (\A x : First(x)' <=> First(x))
           /\ called = <<>> => called'[1] = name
           /\ name # "ready" => (NeverReady => NeverReady')
<1>1. called \in Seq(Names)
  BY DEF CloseInv, Names
<1>2. PICK n : n = Len(called)
  OBVIOUS
<1> QED
  BY <1>1, <1>2 DEF Notes, First, NeverReady

\* So they keep the invariant, and neither bring ready about nor undo it.
LEMMA CalmFirst ==
    ASSUME CloseInv, FirstInv, Calm, Over => Over'
    PROVE  /\ FirstInv'
           /\ First("ready")' <=> First("ready")
           /\ called # <<>> /\ NeverReady => called' # <<>> /\ NeverReady'
<1>1. CASE called' = called
  <2>1. /\ First("ready")' <=> First("ready")
        /\ NeverReady' <=> NeverReady
    BY <1>1 DEF First, NeverReady
  <2> QED
    BY <1>1, <2>1 DEF FirstInv, Calm, Stands
<1>2. CASE (called # <<>> \/ Over') /\ (Notes("error") \/ Notes("close"))
  <2>1. PICK name \in {"error", "close"} : Notes(name)
    BY <1>2
  <2>2. /\ called' # <<>>
        /\ called # <<>> => (First("ready")' <=> First("ready"))
        /\ called = <<>> => ~First("ready") /\ ~First("ready")' /\ NeverReady
        /\ NeverReady => NeverReady'
    <3>1. called = <<>> => NeverReady
      BY DEF NeverReady
    <3> QED
      BY <2>1, <3>1, Noted DEF First
  <2> QED
    BY <1>2, <2>2 DEF FirstInv, Calm, Stands
<1> QED
  BY <1>1, <1>2 DEF Calm

\* The frame on top of a stack.
LEMMA OnTop ==
    ASSUME NEW f \in Seq(Frames), f # <<>>, NEW s \in Seq(Frames)
    PROVE  f \o s # <<>> /\ (f \o s)[1] = f[1]
<1>1. Len(f) \in Nat /\ Len(s) \in Nat /\ Len(f) # 0
  OBVIOUS
<1>2. Len(f \o s) = Len(f) + Len(s) /\ \A i \in 1..Len(f) : (f \o s)[i] = f[i]
  BY Joined
<1> QED
  BY <1>1, <1>2

\* The one step: the event is an answer, so that the turn has not ended.
LEMMA ReadyFirst ==
    ASSUME StackInv, CloseInv, TypeInv, FirstInv, HandleAuthSuccess
    PROVE  /\ FirstInv' /\ First("ready")' /\ (called # <<>> => First("ready"))
           /\ Running("callback")' /\ stack'[1].arg = "ready"
<1>1. /\ Notes("ready") /\ Call(<<Callback("ready"), Do("openShell")>>) /\ client' = client
      /\ Handles("AuthSuccess")
  BY DEF HandleAuthSuccess, Notes
<1>2. engine.events # <<>> /\ ~Lacks(engine.events, Questions)
  <2>1. engine.events # <<>> /\ Head(engine.events) \in Questions
    BY <1>1, QuestionPolled
  <2>2. engine.events \in Seq(EventRecords)
    BY DEF TypeInv, Typed
  <2> QED
    BY <2>1, <2>2, TurnTail
<1>3. ~Over
  BY <1>2 DEF Over, Shut, NoTurn
<1>4. /\ First("ready")' /\ called' # <<>> /\ (called # <<>> => First("ready"))
  BY <1>1, <1>3, Noted DEF FirstInv, First
<1> DEFINE f == <<Callback("ready"), Do("openShell")>>
<1>5. f \in Seq(Frames) /\ Len(f) = 2 /\ f[1] = Callback("ready") /\ f[2] = Do("openShell")
  BY PlainFrames DEF Callback, Do, Arguments
<1>6. Lacks(f, Ending)
  BY <1>5 DEF Lacks, Ending, Callback, Do, Frame
<1>7. stack \in Seq(Frames) /\ stack' = f \o stack
  BY <1>1 DEF StackInv, WellFormed, Call
<1> HIDE DEF f
<1>8. Lacks(stack', Ending)
  BY <1>3, <1>5, <1>6, <1>7, TurnJoin DEF FirstInv
<1>9. stack' # <<>> /\ stack'[1] = Callback("ready")
  <2>1. f # <<>>
    BY <1>5
  <2>2. f \o stack # <<>> /\ (f \o stack)[1] = f[1]
    BY <1>5, <1>7, <2>1, OnTop
  <2> QED
    BY <1>5, <1>7, <2>2
<1>10. Running("callback")' /\ stack'[1].arg = "ready"
  BY <1>9 DEF Running, Callback, Frame
<1> QED
  BY <1>1, <1>3, <1>4, <1>8, <1>10 DEF FirstInv

-----------------------------------------------------------------------------
\* Which frames are put on the stack.

Plain == (Frames \ Ending) \ (Readying \cup Closing)

\* Frames that are none of these.
LEMMA PlainFrame ==
    /\ \A at \in {"drive", "flush", "poll", "prompt", "submit"} : Do(at) \in Plain
    /\ \A name \in {"terminal", "hostKey", "error"} : Callback(name) \in Plain
BY DEF Do, Callback, Frame, Plain, Frames, Ending, Readying, Closing, Places, Arguments

\* And a callback, or a shutdown.
LEMMA SpecialFrames ==
    /\ <<Callback("close")>> \in Seq(Frames)
    /\ Lacks(<<Callback("close")>>, Ending) /\ Lacks(<<Callback("close")>>, Readying)
    /\ \A arg \in Arguments :
          /\ <<Frame("shutdown", arg)>> \in Seq(Frames) /\ <<Frame("settle", arg)>> \in Seq(Frames)
          /\ Lacks(<<Frame("shutdown", arg)>>, Readying \cup Closing)
          /\ Lacks(<<Frame("settle", arg)>>, Readying \cup Closing)
          /\ <<Callback("error"), Frame("settle", arg)>> \in Seq(Frames)
          /\ Lacks(<<Callback("error"), Frame("settle", arg)>>, Readying \cup Closing)
<1>1. /\ Callback("close") \in Frames /\ Callback("close") \notin Ending
      /\ Callback("close") \notin Readying
      /\ Callback("error") \in Frames /\ Callback("error") \notin Readying \cup Closing
  BY DEF Callback, Frame, Frames, Ending, Readying, Closing, Places, Arguments
<1>2. ASSUME NEW arg \in Arguments
      PROVE  /\ Frame("shutdown", arg) \in Frames /\ Frame("settle", arg) \in Frames
             /\ Frame("shutdown", arg) \notin Readying \cup Closing
             /\ Frame("settle", arg) \notin Readying \cup Closing
  BY DEF Frame, Frames, Readying, Closing, Places
<1> QED
  BY <1>1, <1>2 DEF Lacks

\* What is not on the stack is not there behind frames without it, on top of the
\* others or in place of the top one.
LEMMA FramesStand ==
    ASSUME StackInv, NEW f \in Seq(Frames), Call(f) \/ (Then(f) /\ stack # <<>>), NEW S, Lacks(f, S)
    PROVE  Stands(S)
<1>1. stack \in Seq(Frames)
  BY DEF StackInv, WellFormed
<1>2. CASE Call(f)
  BY <1>1, <1>2, TurnJoin DEF Stands, Call
<1>3. CASE Then(f) /\ stack # <<>>
  <2>1. Tail(stack) \in Seq(Frames) /\ Quiet(stack, Tail(stack), S)
    BY <1>1, <1>3, TurnTail
  <2> QED
    BY <1>3, <2>1, TurnJoin DEF Stands, Then, Quiet
<1> QED
  BY <1>2, <1>3

\* So much for plain frames.
LEMMA PlainStands ==
    ASSUME StackInv, NEW f \in Seq(Plain), Call(f) \/ (Then(f) /\ stack # <<>>)
    PROVE  Stands(Ending) /\ Stands(Readying) /\ Stands(Closing)
<1>1. f \in Seq(Frames) /\ Lacks(f, Ending) /\ Lacks(f, Readying) /\ Lacks(f, Closing)
  BY DEF Lacks, Plain
<1> QED
  BY <1>1, FramesStand

-----------------------------------------------------------------------------
\* The steps.

\* Most of them put plain frames on the stack, if any.
LEMMA PlainCalm ==
    ASSUME StackInv,
           \/ UNCHANGED stack
           \/ \E f \in Seq(Plain) : Call(f) \/ (Then(f) /\ stack # <<>>),
           client'.closed = client.closed,
           client'.shellChannelId \in {client.shellChannelId, 0},
           UNCHANGED called
    PROVE  Calm
<1>1. Stands(Ending) /\ Stands(Readying) /\ Stands(Closing)
  <2>1. CASE UNCHANGED stack
    BY <2>1 DEF Stands
  <2>2. CASE \E f \in Seq(Plain) : Call(f) \/ (Then(f) /\ stack # <<>>)
    BY <2>2, PlainStands
  <2> QED
    BY <2>1, <2>2
<1> QED
  BY <1>1 DEF Calm

\* A shutdown is begun when nothing can succeed any more.
LEMMA ShutdownCalm ==
    ASSUME StackInv, NEW f \in Seq(Frames), Call(f), Lacks(f, Readying \cup Closing), Over',
           client'.closed = client.closed, client'.shellChannelId = client.shellChannelId,
           UNCHANGED called
    PROVE  Calm
<1>1. Lacks(f, Readying) /\ Lacks(f, Closing)
  BY DEF Lacks
<1>2. Stands(Readying) /\ Stands(Closing)
  BY <1>1, FramesStand
<1> QED
  BY <1>2 DEF Calm

\* The calls.
LEMMA CallsCalm ==
    ASSUME StackInv, CloseInv, TypeInv, TurnInv
    PROVE  /\ Close \/ Enter \/ (\E msgs : FeedFromServer(msgs)) => Calm
           /\ /\ UNCHANGED to_client
              /\ CtrlC \/ (\E accept \in BOOLEAN : VerifierAnswers(accept))
              => Calm
<1>0. DOMAIN client = ClientFields
  BY Flags
<1>1. Pump \in Seq(Plain) /\ <<Do("drive")>> \in Seq(Plain)
      /\ <<Callback("terminal"), Do("submit")>> \in Seq(Plain)
      /\ <<Do("drive"), Do("flush")>> \in Seq(Plain)
  BY PlainFrame DEF Pump
<1>2. ASSUME Close PROVE Calm
  <2>1. /\ client'.closed = client.closed /\ client'.shellChannelId = client.shellChannelId
        /\ called' = called /\ Call(Pump)
    BY <1>0, <1>2 DEF Close, ClientFields
  <2> QED
    BY <1>1, <2>1, PlainCalm
<1>3. ASSUME Enter PROVE Calm
  <2>1. /\ client'.closed = client.closed /\ client'.shellChannelId = client.shellChannelId
        /\ called' = called /\ Call(<<Callback("terminal"), Do("submit")>>)
    BY <1>0, <1>3 DEF Enter, ClientFields
  <2> QED
    BY <1>1, <2>1, PlainCalm
<1>4. ASSUME NEW msgs, FeedFromServer(msgs) PROVE Calm
  <2>1. client' = client /\ called' = called /\ Call(<<Do("drive")>> \o Pump)
    BY <1>4 DEF FeedFromServer
  <2>2. <<Do("drive")>> \o Pump \in Seq(Plain)
    BY <1>1
  <2> QED
    BY <2>1, <2>2, PlainCalm
<1>5. ASSUME CtrlC, UNCHANGED to_client PROVE Calm
  <2>1. /\ client'.closed = client.closed /\ client'.shellChannelId = client.shellChannelId
        /\ called' = called /\ Call(<<Frame("shutdown", "auth")>>)
    BY <1>0, <1>5 DEF CtrlC, ClientFields
  <2>2. Over'
    BY <1>5, CallsTurn DEF Over
  <2>3. /\ <<Frame("shutdown", "auth")>> \in Seq(Frames)
        /\ Lacks(<<Frame("shutdown", "auth")>>, Readying \cup Closing)
    BY SpecialFrames DEF Arguments
  <2> QED
    BY <2>1, <2>2, <2>3, ShutdownCalm
<1>6. ASSUME VerifierAnswers(TRUE) PROVE Calm
  <2>1. /\ client'.closed = client.closed /\ client'.shellChannelId = client.shellChannelId
        /\ called' = called /\ Call(<<Do("drive"), Do("flush")>> \o <<>>)
    BY <1>0, <1>6 DEF VerifierAnswers, ClientFields
  <2>2. <<Do("drive"), Do("flush")>> \o <<>> \in Seq(Plain)
    BY <1>1
  <2> QED
    BY <2>1, <2>2, PlainCalm
<1>7. ASSUME VerifierAnswers(FALSE), UNCHANGED to_client PROVE Calm
  <2> DEFINE f == <<Do("drive"), Do("flush")>>
             g == <<Frame("shutdown", "hostKey")>>
  <2>1. /\ client'.closed = client.closed /\ client'.shellChannelId = client.shellChannelId
        /\ called' = called /\ Call(f \o g)
    BY <1>0, <1>7 DEF VerifierAnswers, ClientFields
  <2>2. Over'
    BY <1>7, CallsTurn DEF Over
  <2>3. g \in Seq(Frames) /\ Lacks(g, Readying \cup Closing)
    BY SpecialFrames DEF Arguments
  <2>4. f \in Seq(Frames) /\ Lacks(f, Readying \cup Closing)
    BY <1>1 DEF Lacks, Plain
  <2> HIDE DEF f, g
  <2>5. f \o g \in Seq(Frames) /\ Lacks(f \o g, Readying \cup Closing)
    BY <2>3, <2>4, TurnJoin, Joined
  <2> QED
    BY <2>1, <2>2, <2>5, ShutdownCalm
<1> QED
  BY <1>2, <1>3, <1>4, <1>5, <1>6, <1>7

\* The frames that settle what goes on behind a shutdown.
LEMMA EndingCalm ==
    ASSUME StackInv, CloseInv, FirstInv, Over => Over', Shutdown \/ Settle
    PROVE  Calm
<1>0. DOMAIN client = ClientFields /\ stack \in Seq(Frames) /\ stack # <<>>
  BY Flags DEF StackInv, WellFormed, Shutdown, Settle, Running
<1>1. ~Lacks(stack, Ending)
  <2>1. stack[1] \in Frames /\ stack[1].at \in {"shutdown", "settle"} /\ 1 \in 1..Len(stack)
    BY <1>0 DEF Shutdown, Settle, Running
  <2> QED
    BY <2>1 DEF Lacks, Ending
<1>2. Over'
  BY <1>1 DEF FirstInv
<1>3. stack[1].arg \in Arguments
  <2>1. stack[1] \in Frames
    BY <1>0
  <2> QED
    BY <2>1 DEF Frames
<1>4. CASE Shutdown
  <2>1. client' = client /\ (called' = called \/ Notes("error"))
    BY <1>4 DEF Shutdown, Notes
  <2>2. PICK f \in {<<Frame("settle", stack[1].arg)>>,
                   <<Callback("error"), Frame("settle", stack[1].arg)>>} : Then(f)
    BY <1>4 DEF Shutdown
  <2>3. f \in Seq(Frames) /\ Lacks(f, Readying \cup Closing)
    BY <1>3, <2>2, SpecialFrames
  <2>4. Lacks(f, Readying) /\ Lacks(f, Closing)
    BY <2>3 DEF Lacks
  <2>5. Stands(Readying) /\ Stands(Closing)
    BY <1>0, <2>2, <2>3, <2>4, FramesStand
  <2> QED
    BY <1>2, <2>1, <2>5 DEF Calm
<1>5. CASE Settle
  <2>1. /\ client'.shellChannelId = client.shellChannelId
        /\ \/ called' = called /\ Then(<<>>)
           \/ Notes("close") /\ Then(<<Callback("close")>>)
    BY <1>0, <1>5 DEF Settle, ClientFields, Notes
  <2>2. CASE called' = called /\ Then(<<>>)
    <3>1. <<>> \in Seq(Plain)
      OBVIOUS
    <3>2. Stands(Readying) /\ Stands(Closing)
      BY <1>0, <2>2, <3>1, PlainStands
    <3> QED
      BY <1>2, <2>1, <2>2, <3>2 DEF Calm
  <2>3. CASE Notes("close") /\ Then(<<Callback("close")>>)
    <3>1. Stands(Readying)
      BY <1>0, <2>3, SpecialFrames, FramesStand
    <3>2. called' # <<>>
      BY <2>3, Noted
    <3> QED
      BY <1>2, <2>1, <2>3, <3>1, <3>2 DEF Calm
  <2> QED
    BY <2>1, <2>2, <2>3
<1> QED
  BY <1>4, <1>5

\* The thread: the last case is the one that is not calm.
LEMMA RunCalm ==
    ASSUME StackInv, CloseInv, TypeInv, TurnInv, LastEvent(engine), FirstInv, Over => Over',
           UNCHANGED to_client, Run
    PROVE  Calm \/ HandleAuthSuccess
<1>0. DOMAIN client = ClientFields /\ Typed(engine) /\ stack \in Seq(Frames)
  BY Flags DEF TypeInv, StackInv, WellFormed
<1>a. /\ <<>> \in Seq(Plain)
      /\ \A at \in {"drive", "flush", "poll", "prompt", "submit"} : <<Do(at)>> \in Seq(Plain)
      /\ \A name \in {"terminal", "hostKey", "error"} : <<Callback(name)>> \in Seq(Plain)
      /\ <<Callback("terminal"), Do("prompt")>> \in Seq(Plain)
      /\ <<Do("drive"), Do("flush")>> \in Seq(Plain)
  BY PlainFrame
<1>1. CASE Drive \/ FlushOutgoing \/ PolledAll \/ Returns \/ Prompt \/ Submit
  <2>1. /\ client'.closed = client.closed /\ client'.shellChannelId = client.shellChannelId
        /\ called' = called
    BY <1>0, <1>1 DEF Drive, FlushOutgoing, PolledAll, Returns, Prompt, Submit, ClientFields
  <2>2. /\ stack # <<>>
        /\ \/ UNCHANGED stack \/ Then(<<>>) \/ Then(<<Do("flush")>>)
           \/ Then(<<Callback("terminal")>>)
    BY <1>1 DEF Drive, FlushOutgoing, PolledAll, Returns, Prompt, Submit, Running
  <2> QED
    BY <1>a, <2>1, <2>2, PlainCalm
<1>2. CASE OpenShell
  <2>1. stack # <<>> /\ stack[1].at = "openShell" /\ called' = called
        /\ client'.closed = client.closed /\ (Then(<<Do("flush")>>) \/ Then(<<>>))
    BY <1>0, <1>2 DEF OpenShell, Running, ClientFields
  <2>2. ~Lacks(stack, Readying)
    <3>1. stack[1] \in Frames /\ 1 \in 1..Len(stack)
      BY <1>0, <2>1
    <3> QED
      BY <2>1, <3>1 DEF Lacks, Readying
  <2>3. First("ready")
    BY <2>2 DEF FirstInv
  <2>4. Stands(Ending) /\ Stands(Readying) /\ Stands(Closing)
    BY <1>a, <2>1, PlainStands
  <2> QED
    BY <2>1, <2>3, <2>4 DEF Calm
<1>3. CASE Shutdown \/ Settle
  BY <1>3, EndingCalm
<1>4. CASE HandleHostKeyVerify
  <2>1. /\ client'.closed = client.closed /\ client'.shellChannelId = client.shellChannelId
        /\ called' = called
        /\ Call(<<Callback("hostKey")>>) \/ Call(<<Do("drive"), Do("flush")>>)
    BY <1>0, <1>4 DEF HandleHostKeyVerify, ClientFields
  <2> QED
    BY <1>a, <2>1, PlainCalm
<1>5. CASE HandleReadyForAuth \/ HandleAuthFailure
  <2>1. /\ client' = client /\ called' = called /\ to_server' = to_server
        /\ \/ Call(<<Do("prompt")>>) \/ Call(<<Do("flush")>>)
           \/ Call(<<Callback("terminal"), Do("prompt")>>)
           \/ Call(<<Frame("shutdown", "auth")>>) /\ engine' = Polled(engine)
    BY <1>5 DEF HandleReadyForAuth, HandleAuthFailure
  <2>2. CASE \/ Call(<<Do("prompt")>>) \/ Call(<<Do("flush")>>)
             \/ Call(<<Callback("terminal"), Do("prompt")>>)
    BY <1>a, <2>1, <2>2, PlainCalm
  <2>3. CASE Call(<<Frame("shutdown", "auth")>>) /\ engine' = Polled(engine)
    <3>1. /\ <<Frame("shutdown", "auth")>> \in Seq(Frames)
          /\ Lacks(<<Frame("shutdown", "auth")>>, Readying \cup Closing)
      BY SpecialFrames DEF Arguments
    <3>2. Lacks(<<Frame("shutdown", "auth")>>, Typings)
      BY PlainFrames DEF Places, Arguments
    <3>3. engine.events # <<>> /\ Head(engine.events) \in Questions
      BY <1>5, QuestionPolled DEF HandleReadyForAuth, HandleAuthFailure
    <3>4. SameTurnFlags
      BY <2>1 DEF SameTurnFlags
    <3>5. NoTurn'
      BY <2>1, <2>3, <3>1, <3>2, <3>3, <3>4, PollStands
    <3> QED
      BY <2>1, <2>3, <3>1, <3>5, ShutdownCalm DEF Over
  <2> QED
    BY <2>1, <2>2, <2>3
<1>6. CASE HandleOpenFailed
  <2>1. /\ client'.closed = client.closed
        /\ client'.shellChannelId \in {client.shellChannelId, 0}
        /\ \/ called' = called /\ UNCHANGED stack
           \/ /\ Event.id = client.shellChannelId
              /\ Notes("error") /\ Call(<<Callback("error")>>)
    BY <1>0, <1>6 DEF HandleOpenFailed, Settled, ClientFields, Notes
  <2>2. CASE called' = called /\ UNCHANGED stack
    BY <2>1, <2>2, PlainCalm
  <2>3. CASE /\ Event.id = client.shellChannelId
             /\ Notes("error") /\ Call(<<Callback("error")>>)
    <3>1. Event \in EventRecords /\ Event.type = "ChannelOpenFailed"
      BY <1>0, <1>6, PollTyped DEF HandleOpenFailed, Handles, Event
    <3>2. Event.id # 0
      BY <3>1 DEF EventRecords
    <3>3. called # <<>>
      BY <2>3, <3>2 DEF FirstInv, First
    <3>4. Stands(Ending) /\ Stands(Readying) /\ Stands(Closing)
      BY <1>a, <2>3, PlainStands
    <3> QED
      BY <2>1, <2>3, <3>3, <3>4 DEF Calm
  <2> QED
    BY <2>1, <2>2, <2>3
<1>7. CASE HandleData \/ HandleExitStatus \/ HandleChannelClosed \/ HandleOther
  <2>1. /\ client'.closed = client.closed /\ called' = called
        /\ client'.shellChannelId \in {client.shellChannelId, 0}
        /\ UNCHANGED stack \/ Call(<<Callback("terminal")>>)
    BY <1>0, <1>7 DEF HandleData, HandleExitStatus, HandleChannelClosed, HandleOther, Settled,
                      ClientFields
  <2> QED
    BY <1>a, <2>1, PlainCalm
<1>8. CASE HandleTerminal
  <2> DEFINE arg == IF client.intentionalClose THEN "none" ELSE Event.type
             f == <<Frame("shutdown", arg)>>
  <2>1. /\ client' = client /\ called' = called /\ engine' = Polled(engine)
        /\ engine.events # <<>> /\ Head(engine.events).type \in Terminal /\ Call(f)
    BY <1>8 DEF HandleTerminal, Handles, Event, Terminal
  <2>2. arg \in Arguments
    BY <1>8 DEF HandleTerminal, Handles, Arguments
  <2> HIDE DEF arg
  <2>3. f \in Seq(Frames) /\ Lacks(f, Readying \cup Closing)
    BY <2>2, SpecialFrames
  <2>4. Over'
    BY <1>0, <2>1, PollLast DEF Over
  <2> QED
    BY <2>1, <2>3, <2>4, ShutdownCalm
<1> QED
  BY <1>1, <1>2, <1>3, <1>4, <1>5, <1>6, <1>7, <1>8 DEF Run

\* Every step of connect() and its surroundings.
LEMMA StepCalm ==
    ASSUME ConnectInv, TurnInv, LastEvent(engine), FirstInv, [ConnectNext]_allVars
    PROVE  /\ Over => Over'
           /\ Calm \/ (ClientRuns /\ HandleAuthSuccess)
<1>0. StackInv /\ CloseInv /\ TypeInv
  BY DEF ConnectInv, ClientInv
<1>1. Over => Over'
  BY <1>0, LastStep, TurnStep DEF Over, LastKept, TurnKept
<1>2. CASE clientUnchanged
  BY <1>0, <1>1, <1>2, PlainCalm DEF clientUnchanged
<1>3. CASE ClientRuns
  BY <1>0, <1>1, <1>3, RunCalm DEF ClientRuns, serverVars
<1>4. CASE LoopReads
  BY <1>0, <1>1, <1>2, <1>4, CallsCalm DEF LoopReads
<1>5. CASE LoopEnds \/ WriteFails
  BY <1>0, <1>1, <1>2, <1>5, CallsCalm DEF LoopEnds, WriteFails, CloseClient
<1>6. CASE TimerFires \/ SinkAccepts \/ CleansUp \/ UNCHANGED allVars
  BY <1>2, <1>6 DEF TimerFires, SinkAccepts, CleansUp, CancelReader, CloseWriter, CloseSocket,
                    Rethrow, allVars, vars, clientUnchanged
<1>7. CASE Others
  <2>1. CASE ServerReads \/ Ends
    BY <1>0, <1>2, <2>1, ServerSteps
  <2>2. CASE UserTypes \/ UserCloses \/ Answers
    BY <1>0, <1>1, <2>2, CallsCalm DEF UserTypes, UserCloses, Answers, serverVars
  <2> QED
    BY <1>7, <2>1, <2>2 DEF Others
<1> QED
  BY <1>1, <1>3, <1>4, <1>5, <1>6, <1>7 DEF ConnectNext

\* So the invariant is kept.
LEMMA FirstStep ==
    ASSUME ConnectInv, TurnInv, LastEvent(engine), FirstInv, [ConnectNext]_allVars
    PROVE  LastEvent(engine)' /\ FirstInv'
<1>0. StackInv /\ CloseInv /\ TypeInv
  BY DEF ConnectInv, ClientInv
<1>1. LastEvent(engine)'
  BY <1>0, LastStep DEF LastKept
<1>2. CASE Calm
  BY <1>0, <1>1, <1>2, StepCalm, CalmFirst
<1>3. CASE HandleAuthSuccess
  BY <1>0, <1>1, <1>3, ReadyFirst
<1> QED
  BY <1>2, <1>3, StepCalm

-----------------------------------------------------------------------------
(***************************************************************************)
(* The promise.  Behind a first ready that has not settled it, the frame   *)
(* of that callback is on top of the stack: no other step comes between.   *)
(***************************************************************************)

DecideInv ==
    /\ timer = "set" <=> outcome = "pending"
    /\ timer = "fired" <=> outcome = "timeout"
    /\ outcome = "pending" /\ First("ready") => Running("callback") /\ stack[1].arg = "ready"
    /\ outcome = "ready" => First("ready")
    /\ outcome = "closed" => called # <<>> /\ NeverReady
    /\ result = "resolved" => outcome = "ready"

\* The thread runs a callback that connect() has registered, or anything else.
LEMMA RunDecides ==
    ASSUME ConnectInv, FirstInv, DecideInv, ClientRuns, Calm, Over => Over'
    PROVE  DecideInv'
<1>0. StackInv /\ CloseInv
  BY DEF ConnectInv, ClientInv
<1>1. /\ First("ready")' <=> First("ready")
      /\ called # <<>> /\ NeverReady => called' # <<>> /\ NeverReady'
  BY <1>0, CalmFirst
<1>2. CASE Running("callback") /\ stack[1].arg \in DOMAIN Callbacks
  <2>1. ClearTimeout /\ SettlePromise(Callbacks[stack[1].arg])
    BY <1>2 DEF ClientRuns
  <2>2. stack # <<>> /\ stack[1].at = "callback" /\ stack[1] \in Frames /\ 1 \in 1..Len(stack)
    BY <1>0, <1>2 DEF Running, StackInv, WellFormed
  <2>3. stack[1].arg \in {"ready", "close"}
    BY <1>2 DEF Callbacks
  <2>4. CASE outcome # "pending"
    BY <1>1, <2>1, <2>4 DEF DecideInv, ClearTimeout, SettlePromise
  <2>5. CASE outcome = "pending" /\ stack[1].arg = "ready"
    <3>1. ~Lacks(stack, Readying)
      BY <2>2, <2>5 DEF Lacks, Readying
    <3>2. First("ready")'
      BY <1>1, <3>1 DEF FirstInv
    <3>3. outcome' = "ready" /\ result' = "resolved" /\ timer' = "cleared"
      BY <2>1, <2>5 DEF DecideInv, ClearTimeout, SettlePromise, Callbacks
    <3> QED
      BY <3>2, <3>3 DEF DecideInv
  <2>6. CASE outcome = "pending" /\ stack[1].arg = "close"
    <3>1. ~Lacks(stack, Closing)
      BY <2>2, <2>6 DEF Lacks, Closing
    <3>2. called # <<>> /\ NeverReady
      BY <2>6, <3>1 DEF FirstInv, DecideInv
    <3>3. outcome' = "closed" /\ result' = result /\ timer' = "cleared"
      BY <2>1, <2>6 DEF DecideInv, ClearTimeout, SettlePromise, Callbacks
    <3>4. result # "resolved"
      BY <2>6 DEF DecideInv
    <3> QED
      BY <1>1, <3>2, <3>3, <3>4 DEF DecideInv
  <2> QED
    BY <2>3, <2>4, <2>5, <2>6
<1>3. CASE ~(Running("callback") /\ stack[1].arg \in DOMAIN Callbacks)
  <2>1. UNCHANGED <<timer, outcome, result>>
    BY <1>3 DEF ClientRuns
  <2>2. ~(outcome = "pending" /\ First("ready"))
    BY <1>3 DEF DecideInv, Callbacks
  <2> QED
    BY <1>1, <2>1, <2>2 DEF DecideInv
<1> QED
  BY <1>2, <1>3

\* The callback ready is put on the stack.
LEMMA ReadyDecides ==
    ASSUME ConnectInv, FirstInv, DecideInv, ClientRuns, HandleAuthSuccess
    PROVE  DecideInv'
<1>0. StackInv /\ CloseInv /\ TypeInv
  BY DEF ConnectInv, ClientInv
<1>1. /\ First("ready")' /\ (called # <<>> => First("ready"))
      /\ Running("callback")' /\ stack'[1].arg = "ready"
  BY <1>0, ReadyFirst
<1>2. UNCHANGED <<timer, outcome, result>>
  BY DEF ClientRuns, HandleAuthSuccess, Handles, Running
<1>3. outcome # "closed"
  <2>1. First("ready") => ~NeverReady
    <3>1. called \in Seq(Names)
      BY <1>0 DEF CloseInv, Names
    <3> QED
      BY <3>1 DEF First, NeverReady
  <2> QED
    BY <1>1, <2>1 DEF DecideInv
<1> QED
  BY <1>1, <1>2, <1>3 DEF DecideInv

\* What is not a step of the thread finds it idle, or leaves the stack alone, or
\* is taken behind a connect() that has resolved.
LEMMA OthersDecide ==
    ASSUME ConnectInv, FirstInv, DecideInv, [ConnectNext]_allVars, ~ClientRuns, Calm,
           Over => Over'
    PROVE  DecideInv'
<1>0. StackInv /\ CloseInv /\ TypeInv
  BY DEF ConnectInv, ClientInv
<1>1. /\ First("ready")' <=> First("ready")
      /\ called # <<>> /\ NeverReady => called' # <<>> /\ NeverReady'
  BY <1>0, CalmFirst
<1>2. Idle => ~Running("callback")
  BY DEF Idle, Running
<1>3. CASE TimerFires
  <2>1. /\ outcome' = "timeout" /\ timer' = "fired" /\ result' = result /\ result # "resolved"
    BY <1>3 DEF TimerFires, SettlePromise, DecideInv
  <2> QED
    BY <2>1 DEF DecideInv
<1>4. CASE /\ Idle \/ UNCHANGED stack \/ result = "resolved"
           /\ UNCHANGED <<timer, outcome>> /\ (result' = result \/ result' = "rejected")
  BY <1>1, <1>2, <1>4 DEF DecideInv, Running
<1>5. ASSUME LoopReads \/ LoopEnds \/ WriteFails \/ SinkAccepts \/ UNCHANGED allVars
      PROVE  (Idle \/ UNCHANGED stack) /\ UNCHANGED <<timer, outcome, result>>
  BY <1>5 DEF LoopReads, LoopEnds, WriteFails, SinkAccepts, allVars, vars, connectVars
<1>6. ASSUME CleansUp
      PROVE  Idle /\ UNCHANGED <<timer, outcome>> /\ (result' = result \/ result' = "rejected")
  BY <1>6 DEF CleansUp, CancelReader, CloseWriter, CloseSocket, Rethrow
<1>7. ASSUME Others PROVE Idle \/ result = "resolved"
  BY <1>7 DEF Others, ServerReads, Greets, Grants, Judges, OpensChannel, Ends, Says, UserTypes,
              Answers, VerifierAnswers, UserCloses
<1> QED
  BY <1>3, <1>4, <1>5, <1>6, <1>7 DEF ConnectNext

\* Together.
PromiseParts == ConnectInv /\ TurnInv /\ LastEvent(engine) /\ FirstInv /\ DecideInv

LEMMA PartsStart == ConnectInit => PromiseParts
<1> SUFFICES ASSUME ConnectInit PROVE PromiseParts
  OBVIOUS
<1>1. /\ engine.events = <<>> /\ stack = <<>> /\ called = <<>> /\ client.closed = FALSE
      /\ client.shellChannelId = 0 /\ timer = "set" /\ outcome = "pending" /\ result = "pending"
  BY DEF ConnectInit, Init, ClientInit, NewEngine
<1>2. LastEvent(engine)
  BY <1>1 DEF LastEvent
<1>3. FirstInv
  BY <1>1 DEF FirstInv, Lacks
<1>4. DecideInv
  BY <1>1 DEF DecideInv, First
<1> QED
  BY <1>2, <1>3, <1>4, ConnectStart, TurnStart DEF PromiseParts

LEMMA PartsStep == PromiseParts /\ [ConnectNext]_allVars => PromiseParts'
<1> SUFFICES ASSUME PromiseParts, [ConnectNext]_allVars PROVE PromiseParts'
  OBVIOUS
<1>0. ConnectInv /\ TurnInv /\ LastEvent(engine) /\ FirstInv /\ DecideInv
  BY DEF PromiseParts
<1>1. ConnectInv' /\ TurnInv'
  BY <1>0, ConnectStep, TurnStep DEF TurnKept
<1>2. LastEvent(engine)' /\ FirstInv'
  BY <1>0, FirstStep
<1>3. (Over => Over') /\ (Calm \/ (ClientRuns /\ HandleAuthSuccess))
  BY <1>0, StepCalm
<1>4. DecideInv'
  BY <1>0, <1>3, RunDecides, ReadyDecides, OthersDecide
<1> QED
  BY <1>1, <1>2, <1>4 DEF PromiseParts

\* The promise of connect() is decided by whichever of ready, close and timer
\* comes first, for every server, transport and verifier: it is fulfilled only if
\* the first callback of all was ready, and rejected by a close only if ready has
\* not been called and is not called any more (socket-connect.ts:52-61).
THEOREM FirstComes == ConnectSpec => []FirstDecides
<1>1. PromiseParts => FirstDecides
  BY DEF PromiseParts, DecideInv, FirstDecides, First, NeverReady
<1> QED
  BY <1>1, PartsStart, PartsStep, PTL DEF ConnectSpec

-----------------------------------------------------------------------------
(***************************************************************************)
(* Behind the rejection.  The client is closed and has nothing to send; a  *)
(* verifier that answers now finds the session closed as well, because the *)
(* turn has not ended with its question open, so that the shutdown has     *)
(* been behind a terminal event.                                           *)
(***************************************************************************)

\* The frames of what a late answer starts.
Harmless == {f \in Frames : f.at \in {"drive", "flush", "shutdown", "callback", "settle"}}

AtRest ==
    /\ client.closed
    /\ engine.outgoing = <<>>
    /\ stack \in Seq(Harmless)
    /\ stack # <<>> => engine.phase = "Closed"

QuietInv == result = "rejected" => AtRest

\* What is put in place of a frame.
LEMMA HarmlessFrames ==
    /\ \A arg \in Arguments : <<Frame("settle", arg)>> \in Seq(Harmless)
    /\ \A arg \in Arguments : <<Callback("error"), Frame("settle", arg)>> \in Seq(Harmless)
    /\ <<Do("drive"), Do("flush")>> \in Seq(Harmless)
    /\ <<Frame("shutdown", "hostKey")>> \in Seq(Harmless)
<1>1. /\ \A arg \in Arguments : Frame("settle", arg) \in Harmless
      /\ Callback("error") \in Harmless /\ Do("drive") \in Harmless /\ Do("flush") \in Harmless
      /\ Frame("shutdown", "hostKey") \in Harmless
  BY DEF Callback, Do, Frame, Frames, Harmless, Places, Arguments
<1> QED
  BY <1>1

\* The thread runs them without handing anything over.
LEMMA RestRun ==
    ASSUME StackInv, CloseInv, Typed(engine), AtRest, Run
    PROVE  AtRest' /\ to_server' \in {to_server, to_server \o <<>>}
<1>0. DOMAIN client = ClientFields
  BY Flags
<1>1. /\ stack # <<>> /\ stack \in Seq(Harmless) /\ Tail(stack) \in Seq(Harmless)
      /\ stack[1] \in Harmless
  <2>1. stack # <<>>
    BY DEF Run, Drive, FlushOutgoing, PolledAll, Returns, Prompt, Submit, OpenShell, Shutdown,
           Settle, HandleHostKeyVerify, HandleReadyForAuth, HandleAuthFailure,
           HandleAuthSuccess, HandleOpenFailed, HandleData, HandleExitStatus,
           HandleChannelClosed, HandleTerminal, HandleOther, Handles, Running
  <2> QED
    BY <2>1 DEF AtRest
<1>2. engine.phase = "Closed" /\ client.closed /\ engine.outgoing = <<>>
  BY <1>1 DEF AtRest
<1>3. stack[1].at \in {"drive", "flush", "shutdown", "callback", "settle"}
      /\ stack[1].arg \in Arguments
  BY <1>1 DEF Harmless, Frames
<1>4. Drive \/ FlushOutgoing \/ Returns \/ Shutdown \/ Settle
  BY <1>3 DEF Run, PolledAll, Prompt, Submit, OpenShell, HandleHostKeyVerify,
              HandleReadyForAuth, HandleAuthFailure, HandleAuthSuccess, HandleOpenFailed,
              HandleData, HandleExitStatus, HandleChannelClosed, HandleTerminal, HandleOther,
              Handles, Running
<1>5. /\ client'.closed
      /\ engine'.phase = engine.phase /\ engine'.outgoing = <<>>
      /\ to_server' \in {to_server, to_server \o <<>>}
  <2>1. CASE Drive
    BY <1>2, <2>1 DEF Drive, DriveGoesOn
  <2>2. CASE FlushOutgoing
    BY <1>2, <2>2 DEF FlushOutgoing, Taken, Typed, EngineFields
  <2>3. CASE Returns \/ Shutdown
    BY <1>2, <2>3 DEF Returns, Shutdown
  <2>4. CASE Settle
    BY <1>0, <1>2, <2>4 DEF Settle, ClientFields
  <2> QED
    BY <1>4, <2>1, <2>2, <2>3, <2>4
<1>6. \E f \in Seq(Harmless) : Then(f)
  <2>1. Then(<<>>) \/ Shutdown
    BY <1>2, <1>4 DEF Drive, DriveGoesOn, FlushOutgoing, Returns, Settle
  <2>2. <<>> \in Seq(Harmless)
    OBVIOUS
  <2>3. CASE Shutdown
    BY <1>3, <2>3, HarmlessFrames DEF Shutdown
  <2> QED
    BY <2>1, <2>2, <2>3
<1>7. stack' \in Seq(Harmless)
  BY <1>1, <1>6 DEF Then
<1> QED
  BY <1>2, <1>5, <1>7 DEF AtRest

\* The verifier's answer comes too late for the session.
LEMMA RestAnswers ==
    ASSUME StackInv, CloseInv, TurnInv, FirstInv, AtRest,
           NEW accept \in BOOLEAN, VerifierAnswers(accept)
    PROVE  AtRest' /\ to_server' = to_server
<1>0. DOMAIN client = ClientFields
  BY Flags
<1>1. engine.phase = "Closed"
  <2>1. client.verifier = "pending" /\ Over
    BY DEF VerifierAnswers, FirstInv, AtRest
  <2> QED
    BY <2>1 DEF Over, NoTurn, Shut
<1>2. engine' = engine
  BY <1>1 DEF VerifierAnswers, Decided
<1>3. client'.closed /\ to_server' = to_server
  BY <1>0 DEF VerifierAnswers, AtRest, ClientFields
<1> DEFINE g == IF accept THEN <<>> ELSE <<Frame("shutdown", "hostKey")>>
<1>4. stack' = (<<Do("drive"), Do("flush")>> \o g) \o stack
  BY DEF VerifierAnswers, Call
<1>5. g \in Seq(Harmless)
  BY HarmlessFrames
<1> HIDE DEF g
<1>6. stack' \in Seq(Harmless)
  BY <1>4, <1>5, HarmlessFrames DEF AtRest
<1> QED
  BY <1>1, <1>2, <1>3, <1>6 DEF AtRest

\* Every step: what the client hands over behind the rejection is nothing.
LEMMA RestStep ==
    ASSUME ConnectInv, TurnInv, FirstInv, QuietInv, [ConnectNext]_allVars
    PROVE  QuietInv' /\ (result = "rejected" => Len(to_server') <= Len(to_server))
<1>0. /\ StackInv /\ CloseInv /\ TypeInv /\ CleanupInv /\ Typed(engine)
      /\ to_server \in Seq(Outgoing)
  BY DEF ConnectInv, ClientInv, TypeInv
<1>1. CASE result # "rejected"
  <2>1. CASE Rethrow
    <3>1. client.closed /\ stack = <<>> /\ UNCHANGED vars
      BY <1>0, <2>1 DEF Rethrow, CleanupInv, Idle
    <3>2. engine.outgoing = <<>>
      BY <1>0, <3>1 DEF StackInv, WillFlush
    <3> QED
      BY <1>1, <3>1, <3>2 DEF QuietInv, AtRest, vars
  <2>2. CASE ~Rethrow
    <3>1. result' # "rejected"
      BY <1>1, <2>2 DEF ConnectNext, ClientRuns, SettlePromise, TimerFires, LoopReads, LoopEnds,
         SinkAccepts, WriteFails, CleansUp, CancelReader, CloseWriter, CloseSocket, allVars,
         connectVars
    <3> QED
      BY <1>1, <3>1 DEF QuietInv
  <2> QED
    BY <2>1, <2>2
<1>2. CASE result = "rejected"
  <2>0. AtRest /\ client.closed
    BY <1>2 DEF QuietInv, AtRest
  <2>1. CASE ClientRuns
    <3>1. AtRest' /\ to_server' \in {to_server, to_server \o <<>>}
      BY <1>0, <2>0, <2>1, RestRun DEF ClientRuns
    <3>2. to_server \o <<>> = to_server
      BY <1>0
    <3>3. Len(to_server') <= Len(to_server)
      BY <1>0, <3>1, <3>2
    <3> QED
      BY <3>1, <3>3 DEF QuietInv
  <2>2. CASE Answers
    <3>1. AtRest' /\ to_server' = to_server
      BY <1>0, <2>0, <2>2, RestAnswers DEF Answers
    <3> QED
      BY <1>0, <3>1 DEF QuietInv
  <2>3. CASE /\ clientUnchanged
             /\ to_server' = to_server \/ (to_server # <<>> /\ to_server' = Tail(to_server))
    <3>1. AtRest'
      BY <2>0, <2>3 DEF AtRest, clientUnchanged
    <3>2. Len(to_server') <= Len(to_server)
      BY <1>0, <2>3
    <3> QED
      BY <3>1, <3>2 DEF QuietInv
  <2>4. ASSUME ServerReads \/ Ends
        PROVE  /\ clientUnchanged
               /\ to_server' = to_server \/ (to_server # <<>> /\ to_server' = Tail(to_server))
    <3>1. clientUnchanged
      BY <1>0, <2>4, ServerSteps
    <3>2. to_server' = to_server \/ (to_server # <<>> /\ to_server' = Tail(to_server))
      BY <2>4 DEF ServerReads, Greets, Grants, Judges, OpensChannel, Ends, Reads
    <3> QED
      BY <3>1, <3>2
  <2>5. ASSUME LoopReads \/ LoopEnds \/ WriteFails
        PROVE  clientUnchanged /\ to_server' = to_server
    BY <2>0, <2>5 DEF LoopReads, LoopEnds, WriteFails, CloseClient
  <2>6. ASSUME TimerFires \/ SinkAccepts \/ CleansUp \/ UNCHANGED allVars
        PROVE  clientUnchanged /\ to_server' = to_server
    BY <2>6 DEF TimerFires, SinkAccepts, CleansUp, CancelReader, CloseWriter, CloseSocket,
                Rethrow, allVars, vars, clientUnchanged
  <2>7. ~UserTypes /\ ~(UserCloses /\ result = "resolved")
    BY <1>2, <2>0 DEF UserTypes, Enter, CtrlC
  <2> QED
    BY <2>1, <2>2, <2>3, <2>4, <2>5, <2>6, <2>7 DEF ConnectNext, Others
<1> QED
  BY <1>1, <1>2

\* Nothing is handed to the socket behind the rejection of connect(), not even
\* when the verifier of a host key answers late (socket-connect.ts:53,
\* client.ts:258-260).
THEOREM QuietAfterwards == ConnectSpec => QuietOnceRejected
<1>1. ConnectInit => PromiseParts /\ QuietInv
  BY PartsStart DEF QuietInv, ConnectInit
<1>2. PromiseParts /\ QuietInv /\ [ConnectNext]_allVars => (PromiseParts /\ QuietInv)'
  BY PartsStep, RestStep DEF PromiseParts
<1>3. PromiseParts /\ QuietInv /\ [ConnectNext]_allVars =>
          [result = "rejected" => Len(to_server') <= Len(to_server)]_allVars
  BY RestStep DEF PromiseParts
<1> QED
  BY <1>1, <1>2, <1>3, PTL DEF ConnectSpec, QuietOnceRejected
=============================================================================
