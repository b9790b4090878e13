---------------------------- MODULE ClientProofs ----------------------------
(***************************************************************************)
(* What SshClient owes its user, for every number of commands, attempts    *)
(* and chunks of output, and every depth of calls from callbacks: it is    *)
(* closed once, no promise of exec() outlives it, whenever control returns *)
(* to the host nothing is left unsent, and a command that is over has all  *)
(* its output.                                                             *)
(*                                                                         *)
(* The argument is about the stack.  Whatever makes the session want to    *)
(* send something leaves a "flush" on the stack, and every "drive" has one *)
(* directly below it, so that a stack that has become empty has flushed.   *)
(* The next two follow from what `closed` says of `called` and of the      *)
(* promises, which no callback can change behind it.                       *)
(*                                                                         *)
(* The last is an account kept of each channel, over everything that is    *)
(* still on its way: what the server wrote is collected, or in an event,   *)
(* or due, and a close is the last that is said and the last handled.      *)
(***************************************************************************)
EXTENDS ClientHost, FiniteSetTheorems, SequenceTheorems, TLAPS

Places == {"drive", "flush", "poll", "callback", "prompt", "submit", "openShell",
           "shutdown", "settle"}

Arguments == {"none", "ready", "error", "close", "terminal", "hostKey", "auth",
              "Disconnected", "Unrecoverable"}

Frames == [at : Places, arg : Arguments]

\* Every drive is followed by a flush.
WellFormed(s) ==
    /\ s \in Seq(Frames)
    /\ \A i \in 1..Len(s) : s[i].at = "drive" => i < Len(s) /\ s[i + 1].at = "flush"

WillFlush(s) == \E i \in 1..Len(s) : s[i].at = "flush"

ClientFields == {"closed", "intentionalClose", "awaitingPasswordInput",
                 "shellChannelId", "execs", "verifier"}

EngineFields == {"phase", "buffered", "outgoing", "events", "last_event_data", "next_id"}

\* The three parts of the inductive invariant.
StackInv ==
    /\ WellFormed(stack)
    /\ DOMAIN engine = EngineFields
    /\ engine.outgoing # <<>> => WillFlush(stack)

CloseInv ==
    /\ DOMAIN client = ClientFields
    /\ client.closed \in BOOLEAN
    /\ called \in Seq({"ready", "error", "close"})
    /\ ClosesOnce
    /\ ~client.closed => \A i \in DOMAIN called : called[i] # "close"

PromiseInv ==
    /\ DOMAIN promise = Channels
    /\ \A id \in Channels : promise[id] = "pending" => id \in client.execs
    /\ client.closed => client.execs = {}

ClientInv == StackInv /\ CloseInv /\ PromiseInv

-----------------------------------------------------------------------------
\* The stack.

\* A concatenation, element by element.
LEMMA Joined ==
    ASSUME NEW f \in Seq(Frames), NEW s \in Seq(Frames)
    PROVE  /\ f \o s \in Seq(Frames)
           /\ Len(f \o s) = Len(f) + Len(s)
           /\ \A i \in 1..Len(f) : (f \o s)[i] = f[i]
           /\ \A i \in 1..Len(s) : (f \o s)[Len(f) + i] = s[i]
OBVIOUS

\* Well-formed stacks may be put on top of each other, and keep their flushes.
LEMMA Pushed ==
    ASSUME NEW f, NEW s, WellFormed(f), WellFormed(s)
    PROVE  /\ WellFormed(f \o s)
           /\ WillFlush(f) => WillFlush(f \o s)
           /\ WillFlush(s) => WillFlush(f \o s)
<1> f \in Seq(Frames) /\ s \in Seq(Frames)
  BY DEF WellFormed
<1>1. /\ f \o s \in Seq(Frames)
      /\ Len(f \o s) = Len(f) + Len(s)
      /\ \A i \in 1..Len(f) : (f \o s)[i] = f[i]
      /\ \A i \in 1..Len(s) : (f \o s)[Len(f) + i] = s[i]
  BY Joined
<1>2. ASSUME NEW i \in 1..Len(f \o s), (f \o s)[i].at = "drive"
      PROVE  i < Len(f \o s) /\ (f \o s)[i + 1].at = "flush"
  <2>1. CASE i <= Len(f)
    BY <1>1, <1>2, <2>1 DEF WellFormed
  <2>2. CASE i > Len(f)
    <3> DEFINE j == i - Len(f)
    <3>1. j \in 1..Len(s) /\ i = Len(f) + j
      BY <1>1, <2>2
    <3>2. j < Len(s) /\ s[j + 1].at = "flush"
      BY <1>1, <1>2, <3>1 DEF WellFormed
    <3> QED
      BY <1>1, <3>1, <3>2
  <2> QED
    BY <1>1, <2>1, <2>2
<1>3. WillFlush(f) => WillFlush(f \o s)
  BY <1>1 DEF WillFlush
<1>4. WillFlush(s) => WillFlush(f \o s)
  <2> SUFFICES ASSUME NEW j \in 1..Len(s), s[j].at = "flush"
               PROVE  WillFlush(f \o s)
    BY DEF WillFlush
  <2>1. Len(f) + j \in 1..Len(f \o s) /\ (f \o s)[Len(f) + j].at = "flush"
    BY <1>1
  <2> QED
    BY <2>1 DEF WillFlush
<1> QED
  BY <1>1, <1>2, <1>3, <1>4 DEF WellFormed

\* The top frame may be taken away; the flushes stay unless it was one.
LEMMA Popped ==
    ASSUME NEW s, WellFormed(s), s # <<>>
    PROVE  /\ WellFormed(Tail(s))
           /\ WillFlush(s) /\ s[1].at # "flush" => WillFlush(Tail(s))
<1> s \in Seq(Frames)
  BY DEF WellFormed
<1>1. /\ Tail(s) \in Seq(Frames)
      /\ Len(Tail(s)) = Len(s) - 1
      /\ \A i \in 1..Len(Tail(s)) : Tail(s)[i] = s[i + 1]
  OBVIOUS
<1>2. ASSUME NEW i \in 1..Len(Tail(s)), Tail(s)[i].at = "drive"
      PROVE  i < Len(Tail(s)) /\ Tail(s)[i + 1].at = "flush"
  BY <1>1, <1>2 DEF WellFormed
<1>3. ASSUME WillFlush(s), s[1].at # "flush"
      PROVE  WillFlush(Tail(s))
  <2>1. PICK j \in 1..Len(s) : s[j].at = "flush"
    BY <1>3 DEF WillFlush
  <2>2. j - 1 \in 1..Len(Tail(s)) /\ Tail(s)[j - 1].at = "flush"
    BY <1>1, <1>3, <2>1
  <2> QED
    BY <2>2 DEF WillFlush
<1> QED
  BY <1>1, <1>2, <1>3 DEF WellFormed

\* A frame without an argument.
LEMMA DoFrame ==
    ASSUME NEW at \in Places
    PROVE  Do(at) \in Frames /\ Do(at).at = at
BY DEF Do, Frame, Frames, Arguments

\* What the pump runs.
LEMMA PumpFormed == WellFormed(Pump) /\ WillFlush(Pump)
<1>1. /\ Pump \in Seq(Frames) /\ Len(Pump) = 2
      /\ Pump[1].at = "flush" /\ Pump[2].at = "poll"
  BY DoFrame DEF Pump, Places
<1> QED
  BY <1>1 DEF WellFormed, WillFlush

\* A call that ends with a flush.
LEMMA FlushFormed == WellFormed(<<Do("flush")>>) /\ WillFlush(<<Do("flush")>>)
<1> DEFINE s == <<Do("flush")>>
<1>1. s \in Seq(Frames) /\ Len(s) = 1 /\ s[1].at = "flush"
  BY DoFrame DEF Places
<1> HIDE DEF s
<1>2. WellFormed(s) /\ WillFlush(s)
  BY <1>1 DEF WellFormed, WillFlush
<1> QED
  BY <1>2 DEF s

\* A drive and its flush.
LEMMA DriveFormed ==
    /\ WellFormed(<<Do("drive"), Do("flush")>>)
    /\ WillFlush(<<Do("drive"), Do("flush")>>)
<1> DEFINE s == <<Do("drive"), Do("flush")>>
<1>1. s \in Seq(Frames) /\ Len(s) = 2 /\ s[1].at = "drive" /\ s[2].at = "flush"
  BY DoFrame DEF Places
<1> HIDE DEF s
<1>2. WellFormed(s) /\ WillFlush(s)
  BY <1>1 DEF WellFormed, WillFlush
<1> QED
  BY <1>2 DEF s

\* A drive on top of a flush.
LEMMA DriveOnTop ==
    ASSUME NEW d \in Seq(Frames), Len(d) = 1, d[1].at = "drive",
           NEW p \in Seq(Frames), Len(p) = 2, p[1].at = "flush", p[2].at = "poll"
    PROVE  WellFormed(d \o p) /\ WillFlush(d \o p)
<1> DEFINE s == d \o p
<1>1. /\ s \in Seq(Frames) /\ Len(s) = 3
      /\ s[1] = d[1] /\ s[2] = p[1] /\ s[3] = p[2]
  <2>1. /\ s \in Seq(Frames) /\ Len(s) = Len(d) + Len(p)
        /\ \A i \in 1..Len(d) : s[i] = d[i]
        /\ \A i \in 1..Len(p) : s[Len(d) + i] = p[i]
    BY Joined
  <2> HIDE DEF s
  <2> QED
    BY <2>1
<1> HIDE DEF s
<1>2. WellFormed(s) /\ WillFlush(s)
  BY <1>1 DEF WellFormed, WillFlush
<1> QED
  BY <1>2 DEF s

\* A drive in front of the pump.
LEMMA DrivePumpFormed ==
    WellFormed(<<Do("drive")>> \o Pump) /\ WillFlush(<<Do("drive")>> \o Pump)
<1>1. /\ Pump \in Seq(Frames) /\ Len(Pump) = 2
      /\ Pump[1].at = "flush" /\ Pump[2].at = "poll"
  BY DoFrame DEF Pump, Places
<1>2. /\ <<Do("drive")>> \in Seq(Frames) /\ Len(<<Do("drive")>>) = 1
      /\ <<Do("drive")>>[1].at = "drive"
  BY DoFrame DEF Places
<1> QED
  BY <1>1, <1>2, DriveOnTop

\* Nothing to run.
LEMMA EmptyFormed == WellFormed(<<>>)
BY DEF WellFormed

\* A frame that is not a drive.
LEMMA OneFormed ==
    ASSUME NEW at \in Places, NEW arg \in Arguments, at # "drive"
    PROVE  WellFormed(<<Frame(at, arg)>>)
BY DEF Frame, WellFormed, Frames

\* Two frames, neither of them a drive.
LEMMA TwoFormed ==
    ASSUME NEW at1 \in Places, NEW arg1 \in Arguments, at1 # "drive",
           NEW at2 \in Places, NEW arg2 \in Arguments, at2 # "drive"
    PROVE  WellFormed(<<Frame(at1, arg1), Frame(at2, arg2)>>)
BY DEF Frame, WellFormed, Frames

\* A frame on top that is not a flush is replaced.
LEMMA Replaced ==
    ASSUME WellFormed(stack), stack # <<>>, stack[1].at # "flush",
           NEW f, WellFormed(f), Then(f)
    PROVE  /\ WellFormed(stack')
           /\ WillFlush(stack) \/ WillFlush(f) => WillFlush(stack')
BY Popped, Pushed DEF Then

\* Frames pushed on top.
LEMMA Called ==
    ASSUME WellFormed(stack), NEW f, WellFormed(f), Call(f)
    PROVE  /\ WellFormed(stack')
           /\ WillFlush(stack) \/ WillFlush(f) => WillFlush(stack')
BY Pushed DEF Call

-----------------------------------------------------------------------------
\* Calls of the engine keep its shape, and only three make it want to send.

\* The calls, one after the other.
LEMMA EngineShape ==
    ASSUME NEW e, DOMAIN e = EngineFields
    PROVE  /\ \A msgs : /\ DOMAIN FeedIncoming(e, msgs) = EngineFields
                        /\ FeedIncoming(e, msgs).outgoing = e.outgoing
           /\ DOMAIN DriveOne(e) = EngineFields
           /\ DOMAIN Polled(e) = EngineFields /\ Polled(e).outgoing = e.outgoing
           /\ DOMAIN DataTaken(e) = EngineFields /\ DataTaken(e).outgoing = e.outgoing
           /\ DOMAIN Taken(e) = EngineFields /\ Taken(e).outgoing = <<>>
           /\ \A a : DOMAIN Decided(e, a) = EngineFields
           /\ DOMAIN Authenticated(e) = EngineFields
           /\ \A k : DOMAIN Opened(e, k) = EngineFields
           /\ DOMAIN NotifiedClosed(e) = EngineFields
           /\ NotifiedClosed(e).outgoing = e.outgoing
BY DEF EngineFields, FeedIncoming, DriveOne, Polled, DataTaken, Taken, Decided, Sends,
       Authenticated, Opened, NotifiedClosed

-----------------------------------------------------------------------------
\* The stack, one action after the other.

\* What is pushed with nothing to send, and what is pushed with a flush.
LEMMA PushKeeps ==
    ASSUME StackInv, NEW f, WellFormed(f), Call(f), DOMAIN engine' = EngineFields,
           engine'.outgoing = engine.outgoing \/ WillFlush(f)
    PROVE  StackInv'
BY Called DEF StackInv

\* What goes in place of the top frame.
LEMMA ReplaceKeeps ==
    ASSUME StackInv, NEW at, Running(at), at # "flush", NEW f, WellFormed(f), Then(f),
           DOMAIN engine' = EngineFields,
           engine'.outgoing = engine.outgoing \/ WillFlush(f)
    PROVE  StackInv'
<1>1. stack # <<>> /\ stack[1].at # "flush"
  BY DEF Running
<1> QED
  BY <1>1, Replaced DEF StackInv

\* A step that changes neither the stack nor the engine.
LEMMA SameKeeps == StackInv /\ UNCHANGED <<stack, engine>> => StackInv'
BY DEF StackInv, WellFormed, WillFlush

\* A callback of the user.
LEMMA CallbackFormed ==
    ASSUME NEW name \in Arguments
    PROVE  WellFormed(<<Callback(name)>>)
BY OneFormed DEF Callback, Places

\* The frames of shutdown.
LEMMA ShutdownFormed ==
    ASSUME NEW err \in Arguments
    PROVE  WellFormed(<<Frame("shutdown", err)>>) /\ WellFormed(<<Frame("settle", err)>>)
BY OneFormed DEF Places

\* The user's calls.
LEMMA CallsKeepStack ==
    ASSUME StackInv
    PROVE  /\ \A msgs : FeedFromServer(msgs) => StackInv'
           /\ Close => StackInv'
           /\ Exec => StackInv'
           /\ Enter => StackInv'
           /\ CtrlC => StackInv'
           /\ \A accept \in BOOLEAN : VerifierAnswers(accept) => StackInv'
<1> USE EngineShape DEF StackInv
<1>1. ASSUME NEW msgs, FeedFromServer(msgs)
      PROVE  StackInv'
  BY <1>1, DrivePumpFormed, PushKeeps DEF FeedFromServer
<1>2. ASSUME Close
      PROVE  StackInv'
  BY <1>2, PumpFormed, PushKeeps DEF Close
<1>3. ASSUME Exec
      PROVE  StackInv'
  BY <1>3, FlushFormed, PushKeeps DEF Exec, OpenExec
<1>4. ASSUME Enter
      PROVE  StackInv'
  <2>1. WellFormed(<<Callback("terminal"), Do("submit")>>)
    BY TwoFormed DEF Callback, Do, Places, Arguments
  <2> QED
    BY <1>4, <2>1, PushKeeps DEF Enter
<1>5. ASSUME CtrlC
      PROVE  StackInv'
  <2>1. WellFormed(<<Frame("shutdown", "auth")>>)
    BY ShutdownFormed DEF Arguments
  <2> QED
    BY <1>5, <2>1, PushKeeps DEF CtrlC
<1>6. ASSUME NEW accept \in BOOLEAN, VerifierAnswers(accept)
      PROVE  StackInv'
  <2> DEFINE f == <<Do("drive"), Do("flush")>> \o
                    (IF accept THEN <<>> ELSE <<Frame("shutdown", "hostKey")>>)
  <2>1. WellFormed(IF accept THEN <<>> ELSE <<Frame("shutdown", "hostKey")>>)
    BY EmptyFormed, ShutdownFormed DEF Arguments
  <2>2. WellFormed(f) /\ WillFlush(f)
    BY <2>1, DriveFormed, Pushed
  <2>3. Call(f) /\ engine' = Decided(engine, accept)
    BY <1>6 DEF VerifierAnswers
  <2> HIDE DEF f
  <2> QED
    BY <2>2, <2>3, PushKeeps
<1> QED
  BY <1>1, <1>2, <1>3, <1>4, <1>5, <1>6

\* The frames.
LEMMA RunKeepsStack == StackInv /\ Run => StackInv'
<1> SUFFICES ASSUME StackInv, Run
             PROVE  StackInv'
  OBVIOUS
<1> USE EngineShape DEF StackInv
<1>1. CASE Drive
  <2>1. CASE UNCHANGED stack
    <3>1. WillFlush(stack)
      BY <1>1 DEF Drive, Running, WellFormed, WillFlush
    <3> QED
      BY <1>1, <2>1, <3>1 DEF Drive, WellFormed, WillFlush
  <2>2. CASE Then(<<>>) /\ UNCHANGED engine
    BY <1>1, <2>2, EmptyFormed, ReplaceKeeps DEF Drive
  <2> QED
    BY <1>1, <2>1, <2>2 DEF Drive
<1>2. CASE FlushOutgoing
  <2>1. WellFormed(Tail(stack)) /\ stack # <<>>
    BY <1>2, Popped DEF FlushOutgoing, Running
  <2>2. stack' = Tail(stack)
    BY <1>2, <2>1 DEF FlushOutgoing, Then, WellFormed
  <2> QED
    BY <1>2, <2>1, <2>2 DEF FlushOutgoing, WellFormed
<1>3. CASE PolledAll
  BY <1>3, FlushFormed, ReplaceKeeps DEF PolledAll
<1>4. CASE Returns
  BY <1>4, EmptyFormed, ReplaceKeeps DEF Returns
<1>5. CASE Prompt
  <2>1. WellFormed(<<Callback("terminal")>>)
    BY CallbackFormed DEF Arguments
  <2> QED
    BY <1>5, <2>1, ReplaceKeeps DEF Prompt
<1>6. CASE Submit
  BY <1>6, FlushFormed, ReplaceKeeps DEF Submit
<1>7. CASE OpenShell
  <2>1. CASE options.autoShell
    BY <1>7, <2>1, FlushFormed, ReplaceKeeps DEF OpenShell
  <2>2. CASE ~options.autoShell
    BY <1>7, <2>2, EmptyFormed, ReplaceKeeps DEF OpenShell
  <2> QED
    BY <2>1, <2>2
<1>8. CASE Shutdown
  <2>1. stack[1].arg \in Arguments
    <3>1. stack \in Seq(Frames) /\ stack # <<>>
      BY <1>8 DEF Shutdown, Running, WellFormed
    <3>2. stack[1] \in Frames
      BY <3>1
    <3> QED
      BY <3>2 DEF Frames
  <2>2. WellFormed(<<Frame("settle", stack[1].arg)>>)
    BY <2>1, ShutdownFormed
  <2>3. WellFormed(<<Callback("error"), Frame("settle", stack[1].arg)>>)
    <3>1. "error" \in Arguments /\ "callback" \in Places /\ "settle" \in Places
      BY DEF Arguments, Places
    <3>2. WellFormed(<<Frame("callback", "error"), Frame("settle", stack[1].arg)>>)
      BY <2>1, <3>1, TwoFormed
    <3> QED
      BY <3>2 DEF Callback
  <2> QED
    BY <1>8, <2>2, <2>3, ReplaceKeeps DEF Shutdown
<1>9. CASE Settle
  <2>1. WellFormed(<<Callback("close")>>)
    BY CallbackFormed DEF Arguments
  <2>2. Running("settle") /\ (Then(<<>>) \/ Then(<<Callback("close")>>)) /\ UNCHANGED engine
    BY <1>9 DEF Settle
  <2>3. CASE Then(<<>>)
    BY <2>2, <2>3, EmptyFormed, ReplaceKeeps
  <2>4. CASE Then(<<Callback("close")>>)
    BY <2>1, <2>2, <2>4, ReplaceKeeps
  <2> QED
    BY <2>2, <2>3, <2>4
<1>10. CASE HandleHostKeyVerify
  <2>1. WellFormed(<<Callback("hostKey")>>)
    BY CallbackFormed DEF Arguments
  <2>2. CASE options.hostKeyCb
    <3>1. engine' = DataTaken(Polled(engine)) /\ Call(<<Callback("hostKey")>>)
      BY <1>10, <2>2 DEF HandleHostKeyVerify
    <3>2. DOMAIN engine' = EngineFields /\ engine'.outgoing = engine.outgoing
      BY <3>1
    <3> QED
      BY <2>1, <3>1, <3>2, PushKeeps
  <2>3. CASE ~options.hostKeyCb
    <3>1. engine' = Decided(DataTaken(Polled(engine)), TRUE) /\ Call(<<Do("drive"), Do("flush")>>)
      BY <1>10, <2>3 DEF HandleHostKeyVerify
    <3>2. DOMAIN engine' = EngineFields
      BY <3>1
    <3> QED
      BY <3>1, <3>2, DriveFormed, PushKeeps
  <2> QED
    BY <2>2, <2>3
<1>11. CASE HandleReadyForAuth
  <2>1. WellFormed(<<Do("prompt")>>) /\ WellFormed(<<Frame("shutdown", "auth")>>)
    BY OneFormed DEF Do, Places, Arguments
  <2> QED
    BY <1>11, <2>1, FlushFormed, PushKeeps DEF HandleReadyForAuth
<1>12. CASE HandleAuthFailure
  <2>1. /\ WellFormed(<<Callback("terminal"), Do("prompt")>>)
        /\ WellFormed(<<Frame("shutdown", "auth")>>)
    BY OneFormed, TwoFormed DEF Callback, Do, Places, Arguments
  <2> QED
    BY <1>12, <2>1, PushKeeps DEF HandleAuthFailure
<1>13. CASE HandleAuthSuccess
  <2>1. WellFormed(<<Callback("ready"), Do("openShell")>>)
    BY TwoFormed DEF Callback, Do, Places, Arguments
  <2> QED
    BY <1>13, <2>1, PushKeeps DEF HandleAuthSuccess
<1>14. CASE HandleOpenFailed
  <2>1. WellFormed(<<Callback("error")>>)
    BY CallbackFormed DEF Arguments
  <2> QED
    BY <1>14, <2>1, PushKeeps DEF HandleOpenFailed
<1>15. CASE HandleData
  <2>1. WellFormed(<<Callback("terminal")>>)
    BY CallbackFormed DEF Arguments
  <2> QED
    BY <1>15, <2>1, PushKeeps DEF HandleData
<1>16. CASE HandleExitStatus
  BY <1>16 DEF HandleExitStatus, WellFormed, WillFlush
<1>17. CASE HandleChannelClosed
  BY <1>17 DEF HandleChannelClosed, WellFormed, WillFlush
<1>18. CASE HandleTerminal
  <2>1. (IF client.intentionalClose THEN "none" ELSE Event.type) \in Arguments
    BY <1>18 DEF HandleTerminal, Handles, Arguments
  <2> QED
    BY <1>18, <2>1, ShutdownFormed, PushKeeps DEF HandleTerminal
<1>19. CASE HandleOther
  BY <1>19 DEF HandleOther, WellFormed, WillFlush
<1> QED
  BY <1>1, <1>2, <1>3, <1>4, <1>5, <1>6, <1>7, <1>8, <1>9, <1>10, <1>11, <1>12, <1>13,
     <1>14, <1>15, <1>16, <1>17, <1>18, <1>19 DEF Run

-----------------------------------------------------------------------------
\* Closing, and the promises, one action after the other.

Names == {"ready", "error", "close"}

\* Another callback is noted; the close one only by a client that was open.
LEMMA NoteKeeps ==
    ASSUME CloseInv, NEW name \in Names, called' = Append(called, name),
           DOMAIN client' = ClientFields, client'.closed \in BOOLEAN,
           name # "close" => client'.closed = client.closed,
           name = "close" => ~client.closed /\ client'.closed
    PROVE  CloseInv'
<1>1. /\ called' \in Seq(Names) /\ Len(called') = Len(called) + 1
      /\ \A i \in 1..Len(called) : called'[i] = called[i]
      /\ called'[Len(called) + 1] = name
      /\ DOMAIN called = 1..Len(called) /\ DOMAIN called' = 1..(Len(called) + 1)
  BY DEF CloseInv, Names
<1>2. CASE name = "close"
  BY <1>1, <1>2 DEF CloseInv, ClosesOnce, Names
<1>3. CASE name # "close"
  BY <1>1, <1>3 DEF CloseInv, ClosesOnce, Names
<1> QED
  BY <1>2, <1>3

\* What most steps leave alone.
LEMMA QuietKeeps ==
    ASSUME CloseInv, PromiseInv, UNCHANGED <<called, promise>>,
           DOMAIN client' = ClientFields, client'.closed = client.closed,
           client'.execs = client.execs
    PROVE  CloseInv' /\ PromiseInv'
BY DEF CloseInv, ClosesOnce, PromiseInv

\* The promise of a channel is settled.
LEMMA SettledKeeps ==
    ASSUME CloseInv, PromiseInv, NEW how \in {"resolved", "rejected"}, Settled(how)
    PROVE  /\ PromiseInv'
           /\ DOMAIN client' = ClientFields /\ client'.closed = client.closed
<1>1. /\ DOMAIN client' = ClientFields /\ client'.closed = client.closed
      /\ client'.execs = client.execs \ {Event.id}
  BY DEF Settled, CloseInv, ClientFields
<1>2. DOMAIN promise' = Channels
  BY DEF Settled, PromiseInv
<1>3. ASSUME NEW id \in Channels, promise'[id] = "pending"
      PROVE  id \in client'.execs
  BY <1>1, <1>3 DEF Settled, PromiseInv
<1>4. client'.closed => client'.execs = {}
  BY <1>1 DEF PromiseInv
<1> QED
  BY <1>1, <1>2, <1>3, <1>4 DEF PromiseInv

\* The user's calls.
LEMMA CallsKeepPromises ==
    ASSUME CloseInv, PromiseInv
    PROVE  /\ \A msgs : FeedFromServer(msgs) => CloseInv' /\ PromiseInv'
           /\ Close => CloseInv' /\ PromiseInv'
           /\ Exec => CloseInv' /\ PromiseInv'
           /\ Enter => CloseInv' /\ PromiseInv'
           /\ CtrlC => CloseInv' /\ PromiseInv'
           /\ \A accept : VerifierAnswers(accept) => CloseInv' /\ PromiseInv'
<1>0. DOMAIN client = ClientFields
  BY DEF CloseInv
<1>1. ASSUME NEW msgs, FeedFromServer(msgs) PROVE CloseInv' /\ PromiseInv'
  BY <1>0, <1>1, QuietKeeps DEF FeedFromServer, Results
<1>2. CASE Close
  BY <1>0, <1>2, QuietKeeps DEF Close, Results, ClientFields
<1>3. CASE Exec
  <2>1. /\ DOMAIN client' = ClientFields /\ ~client.closed /\ ~client'.closed
        /\ client'.execs = client.execs \cup {engine.next_id}
        /\ client'.closed = client.closed
        /\ promise' = [promise EXCEPT ![engine.next_id] = "pending"]
        /\ called' = called
    BY <1>0, <1>3 DEF Exec, OpenExec, ClientFields, CloseInv
  <2>2. CloseInv'
    BY <2>1 DEF CloseInv, ClosesOnce
  <2>3. PromiseInv'
    BY <2>1 DEF PromiseInv
  <2> QED
    BY <2>2, <2>3
<1>4. CASE Enter
  BY <1>0, <1>4, QuietKeeps DEF Enter, Results, ClientFields
<1>5. CASE CtrlC
  BY <1>0, <1>5, QuietKeeps DEF CtrlC, Results, ClientFields
<1>6. ASSUME NEW accept, VerifierAnswers(accept) PROVE CloseInv' /\ PromiseInv'
  BY <1>0, <1>6, QuietKeeps DEF VerifierAnswers, Results, ClientFields
<1> QED
  BY <1>1, <1>2, <1>3, <1>4, <1>5, <1>6

\* The frames.
LEMMA RunKeepsPromises ==
    ASSUME CloseInv, PromiseInv, Run
    PROVE  CloseInv' /\ PromiseInv'
<1>0. DOMAIN client = ClientFields /\ client.closed \in BOOLEAN
  BY DEF CloseInv
<1>1. CASE Drive
  BY <1>0, <1>1, QuietKeeps DEF Drive, Results, ClientFields
<1>2. CASE FlushOutgoing
  BY <1>0, <1>2, QuietKeeps DEF FlushOutgoing, Results, ClientFields
<1>3. CASE PolledAll
  BY <1>0, <1>3, QuietKeeps DEF PolledAll, Results, ClientFields
<1>4. CASE Returns
  BY <1>0, <1>4, QuietKeeps DEF Returns, Results, ClientFields
<1>5. CASE Prompt
  BY <1>0, <1>5, QuietKeeps DEF Prompt, Results, ClientFields
<1>6. CASE Submit
  BY <1>0, <1>6, QuietKeeps DEF Submit, Results, ClientFields
<1>7. CASE OpenShell
  BY <1>0, <1>7, QuietKeeps DEF OpenShell, Results, ClientFields
<1>8. CASE HandleHostKeyVerify
  BY <1>0, <1>8, QuietKeeps DEF HandleHostKeyVerify, Results, ClientFields
<1>9. CASE HandleReadyForAuth
  BY <1>0, <1>9, QuietKeeps DEF HandleReadyForAuth, Results, ClientFields
<1>10. CASE HandleAuthFailure
  BY <1>0, <1>10, QuietKeeps DEF HandleAuthFailure, Results, ClientFields
<1>11. CASE HandleData
  BY <1>0, <1>11, QuietKeeps DEF HandleData, Results, ClientFields
<1>12. CASE HandleExitStatus
  BY <1>0, <1>12, QuietKeeps DEF HandleExitStatus, Results, ClientFields
<1>13. CASE HandleTerminal
  BY <1>0, <1>13, QuietKeeps DEF HandleTerminal, Results, ClientFields
<1>14. CASE HandleOther
  BY <1>0, <1>14, QuietKeeps DEF HandleOther, Results, ClientFields
<1>15. CASE Shutdown
  <2>1. DOMAIN client' = ClientFields /\ client' = client /\ promise' = promise
    BY <1>0, <1>15 DEF Shutdown, Results
  <2>2. CASE called' = called
    BY <2>1, <2>2, QuietKeeps
  <2>3. CASE called' = Append(called, "error")
    <3>1. CloseInv'
      BY <1>0, <2>1, <2>3, NoteKeeps DEF Names
    <3> QED
      BY <2>1, <3>1 DEF PromiseInv
  <2> QED
    BY <1>15, <2>2, <2>3 DEF Shutdown
<1>16. CASE Settle
  <2>1. /\ DOMAIN client' = ClientFields /\ client'.closed = TRUE /\ client'.execs = {}
    BY <1>0, <1>16 DEF Settle, ClientFields
  <2>2. CloseInv'
    <3>1. CASE client.closed
      BY <1>16, <2>1, <3>1 DEF Settle, CloseInv, ClosesOnce
    <3>2. CASE ~client.closed
      BY <1>16, <2>1, <3>2, NoteKeeps DEF Settle, Names
    <3> QED
      BY <3>1, <3>2
  <2>3. PromiseInv'
    BY <1>16, <2>1 DEF Settle, RejectAll, PromiseInv
  <2> QED
    BY <2>2, <2>3
<1>17. CASE HandleAuthSuccess
  <2>1. client' = client /\ promise' = promise /\ called' = Append(called, "ready")
    BY <1>17 DEF HandleAuthSuccess, Results
  <2>2. CloseInv'
    BY <1>0, <2>1, NoteKeeps DEF Names
  <2> QED
    BY <2>1, <2>2 DEF PromiseInv
<1>18. CASE HandleOpenFailed
  <2>1. PromiseInv' /\ DOMAIN client' = ClientFields /\ client'.closed = client.closed
    BY <1>18, SettledKeeps DEF HandleOpenFailed
  <2>2. CASE called' = called
    BY <2>1, <2>2 DEF CloseInv, ClosesOnce
  <2>3. CASE called' = Append(called, "error")
    BY <1>0, <2>1, <2>3, NoteKeeps DEF Names
  <2> QED
    BY <1>18, <2>1, <2>2, <2>3 DEF HandleOpenFailed
<1>19. CASE HandleChannelClosed
  <2>1. PromiseInv' /\ DOMAIN client' = ClientFields /\ client'.closed = client.closed
    BY <1>19, SettledKeeps DEF HandleChannelClosed
  <2> QED
    BY <1>19, <2>1 DEF HandleChannelClosed, CloseInv, ClosesOnce
<1> QED
  BY <1>1, <1>2, <1>3, <1>4, <1>5, <1>6, <1>7, <1>8, <1>9,
     <1>10, <1>11, <1>12, <1>13, <1>14, <1>15, <1>16, <1>17, <1>18, <1>19 DEF Run

-----------------------------------------------------------------------------
\* The specification.

\* The invariant holds at first.
LEMMA InitHolds == Init => ClientInv
<1> SUFFICES ASSUME Init PROVE ClientInv
  OBVIOUS
<1>1. StackInv
  BY EmptyFormed DEF Init, ClientInit, StackInv, NewEngine, EngineFields
<1>2. CloseInv
  BY DEF Init, ClientInit, CloseInv, ClosesOnce, ClientFields
<1>3. PromiseInv
  BY DEF Init, ClientInit, PromiseInv
<1> QED
  BY <1>1, <1>2, <1>3 DEF ClientInv

\* It is about the client's state alone.
LEMMA UnchangedHolds == ClientInv /\ clientUnchanged => ClientInv'
BY SameKeeps DEF ClientInv, clientUnchanged, CloseInv, ClosesOnce, PromiseInv

\* Every step keeps it.
LEMMA StepHolds == ClientInv /\ [Next]_vars => ClientInv'
<1> SUFFICES ASSUME ClientInv, [Next]_vars PROVE ClientInv'
  OBVIOUS
<1>0. StackInv /\ CloseInv /\ PromiseInv
  BY DEF ClientInv
<1>1. CASE Run
  BY <1>0, <1>1, RunKeepsStack, RunKeepsPromises DEF ClientInv
<1>2. CASE \E msgs : FeedFromServer(msgs)
  BY <1>0, <1>2, CallsKeepStack, CallsKeepPromises DEF ClientInv
<1>3. CASE Close \/ Exec \/ Enter \/ CtrlC
  BY <1>0, <1>3, CallsKeepStack, CallsKeepPromises DEF ClientInv
<1>4. CASE \E accept \in BOOLEAN : VerifierAnswers(accept)
  BY <1>0, <1>4, CallsKeepStack, CallsKeepPromises DEF ClientInv
<1>5. CASE clientUnchanged
  BY <1>5, UnchangedHolds
<1>6. ASSUME ServerReads \/ Ends \/ \E id \in Channels : Writes(id) \/ Exits(id) \/ Closes(id)
      PROVE  clientUnchanged
  BY <1>6 DEF ServerReads, Greets, Grants, Judges, OpensChannel, Writes, Exits, Closes, Ends, Says
<1>7. ASSUME Feeds PROVE \E msgs : FeedFromServer(msgs)
  BY <1>7 DEF Feeds
<1>8. ASSUME StreamEnds \/ UserTypes \/ UserExecs \/ UserCloses
      PROVE  Close \/ Exec \/ Enter \/ CtrlC
  BY <1>8 DEF StreamEnds, UserTypes, UserExecs, UserCloses
<1>9. ASSUME Answers PROVE \E accept \in BOOLEAN : VerifierAnswers(accept)
  BY <1>9 DEF Answers
<1>10. ASSUME UNCHANGED vars PROVE clientUnchanged
  BY <1>10 DEF vars, clientUnchanged
<1> QED
  BY <1>1, <1>2, <1>3, <1>4, <1>5, <1>6, <1>7, <1>8, <1>9, <1>10 DEF Next

\* So it always holds.
LEMMA InvHolds == Spec => []ClientInv
BY InitHolds, StepHolds, PTL DEF Spec

\* The close callback is called at most once, however often the user and the
\* server end the session, and whatever callbacks call (client.ts:350-365).
THEOREM ClosedOnce == Spec => []ClosesOnce
<1>1. ClientInv => ClosesOnce
  BY DEF ClientInv, CloseInv
<1> QED
  BY <1>1, InvHolds, PTL

\* A closed client has no pending promise, so none is forgotten: closed and
\* rejected are one step, and a closed client makes no new ones
\* (client.ts:140-147, 350-361).
THEOREM NoneOrphaned == Spec => []NoOrphans
<1>1. ClientInv => NoOrphans
  BY DEF ClientInv, PromiseInv, NoOrphans
<1> QED
  BY <1>1, InvHolds, PTL

\* On an idle thread nothing waits to be sent: each call that can make the
\* session send leaves a flush to run, below every drive
\* (client.ts:225-243).
THEOREM AllSent == Spec => []NothingUnsent
<1>1. ClientInv => NothingUnsent
  BY DEF ClientInv, StackInv, WellFormed, WillFlush, NothingUnsent, Idle
<1> QED
  BY <1>1, InvHolds, PTL

-----------------------------------------------------------------------------
(***************************************************************************)
(* What is in the queues between the session and the server, and where the *)
(* end of a session is.                                                    *)
(***************************************************************************)

\* Channels are numbered from 1.
Incoming ==
    {m \in [type : {"kexReply", "serviceAccept", "failure", "lastFailure", "success", "confirm",
                    "refuse", "data", "exit", "close", "disconnect", "garbage"},
            id : Nat] : m.type \in {"confirm", "refuse"} => m.id # 0}

Outgoing ==
    {m \in [type : {"ident", "service", "auth", "exec", "shell", "setup"}, id : Nat] :
        m.type \in {"exec", "shell", "setup"} => m.id # 0}

EventRecords ==
    {e \in [type : {"HostKeyVerify", "ReadyForAuth", "AuthFailure", "AuthFailureNoPassword",
                    "AuthSuccess", "ChannelOpened", "ChannelOpenFailed", "ChannelData",
                    "ChannelExitStatus", "ChannelClosed", "Disconnected", "Unrecoverable"},
            id : Nat] : e.type = "ChannelOpenFailed" => e.id # 0}

Terminal == {"Disconnected", "Unrecoverable"}

Typed(e) ==
    /\ DOMAIN e = EngineFields
    /\ e.buffered \in Seq(Incoming) /\ e.outgoing \in Seq(Outgoing)
    /\ e.events \in Seq(EventRecords) /\ e.next_id \in Nat \ {0}

\* A terminal event is in the queue.
Terminates(e) == \E i \in 1..Len(e.events) : e.events[i].type \in Terminal

Has(s, at) == \E i \in 1..Len(s) : s[i].at = at

TypeInv == Typed(engine) /\ to_server \in Seq(Outgoing) /\ to_client \in Seq(Incoming)

\* Where the end of a session is, and that a deliberate close is still polled.
EndInv ==
    /\ engine.phase = "Closed" =>
          client.closed \/ Terminates(engine) \/ Has(stack, "shutdown") \/ Has(stack, "settle")
    /\ client.intentionalClose => engine.phase = "Closed"
    /\ client.intentionalClose /\ engine.events # <<>> => Has(stack, "poll")

-----------------------------------------------------------------------------
\* The engine's calls.  All but the poll of a terminal event advance it.

Advances(e, n) ==
    /\ Terminates(e) => Terminates(n)
    /\ n.phase = "Closed" => e.phase = "Closed" \/ Terminates(n)
    /\ e.phase = "Closed" => n.phase = "Closed" /\ (n.events # <<>> => e.events # <<>>)

\* What leaves phase and events alone.
LEMMA SameAdvances ==
    ASSUME NEW e, NEW n, n.phase = e.phase, n.events = e.events
    PROVE  Advances(e, n)
BY DEF Advances, Terminates

\* And one call after another.
LEMMA AdvancesOn ==
    ASSUME NEW e, NEW n, NEW o, Advances(e, n), Advances(n, o)
    PROVE  Advances(e, o)
BY DEF Advances

\* An event put behind the others is in the queue, and so are they.
LEMMA Queued ==
    ASSUME NEW e, NEW n, e.events \in Seq(EventRecords), NEW ev \in EventRecords,
           n.events = Append(e.events, ev)
    PROVE  /\ n.events \in Seq(EventRecords)
           /\ Terminates(e) => Terminates(n)
           /\ ev.type \in Terminal => Terminates(n)
<1>1. /\ n.events \in Seq(EventRecords) /\ Len(n.events) = Len(e.events) + 1
      /\ \A i \in 1..Len(e.events) : n.events[i] = e.events[i]
      /\ n.events[Len(e.events) + 1] = ev
      /\ Len(e.events) \in Nat
  OBVIOUS
<1> QED
  BY <1>1 DEF Terminates

\* What is fed is only buffered.
LEMMA FeedTyped ==
    ASSUME NEW e, Typed(e), NEW msgs \in Seq(Incoming)
    PROVE  Typed(FeedIncoming(e, msgs)) /\ Advances(e, FeedIncoming(e, msgs))
<1> DEFINE n == FeedIncoming(e, msgs)
<1>1. /\ DOMAIN n = EngineFields /\ n.buffered = e.buffered \o msgs /\ n.outgoing = e.outgoing
      /\ n.events = e.events /\ n.next_id = e.next_id /\ n.phase = e.phase
  BY DEF FeedIncoming, Typed, EngineFields
<1> HIDE DEF n
<1> QED
  BY <1>1, SameAdvances DEF Typed, n

\* A message becomes an event, and the last one a terminal event.
LEMMA DriveTyped ==
    ASSUME NEW e, Typed(e), DriveGoesOn(e)
    PROVE  Typed(DriveOne(e)) /\ Advances(e, DriveOne(e))
<1> DEFINE n == DriveOne(e)
           m == Head(e.buffered)
           ev == ChannelMsg(EventOf[m.type], m.id)
<1>1. m \in Incoming /\ Tail(e.buffered) \in Seq(Incoming)
  BY DEF Typed, DriveGoesOn
<1>2. /\ DOMAIN n = EngineFields /\ n.buffered = Tail(e.buffered)
      /\ n.events = Append(e.events, ev) /\ n.next_id = e.next_id
      /\ n.outgoing = IF m.type = "confirm" THEN Append(e.outgoing, ChannelMsg("setup", m.id))
                      ELSE e.outgoing
      /\ n.phase = IF m.type \in DOMAIN PhaseAfter THEN PhaseAfter[m.type] ELSE e.phase
  BY DEF DriveOne, Typed, EngineFields
<1> HIDE DEF n, m
<1>3. EventOf[m.type] \in
        {"HostKeyVerify", "ReadyForAuth", "AuthFailure", "AuthFailureNoPassword",
         "AuthSuccess", "ChannelOpened", "ChannelOpenFailed", "ChannelData",
         "ChannelExitStatus", "ChannelClosed", "Disconnected", "Unrecoverable"}
  BY <1>1 DEF EventOf, Incoming
<1>4. ev \in EventRecords /\ ev.type = EventOf[m.type]
  <2>1. EventOf[m.type] = "ChannelOpenFailed" => m.id # 0
    BY <1>1 DEF EventOf, Incoming
  <2>2. m.id \in Nat
    BY <1>1 DEF Incoming
  <2> QED
    BY <1>3, <2>1, <2>2 DEF EventRecords, ChannelMsg
<1>5. n.phase = "Closed" => EventOf[m.type] \in Terminal
  <2>1. e.phase # "Closed"
    BY DEF DriveGoesOn
  <2>2. m.type \in DOMAIN PhaseAfter /\ PhaseAfter[m.type] = "Closed" =>
            m.type \in {"disconnect", "garbage"}
    BY DEF PhaseAfter
  <2>3. m.type \in {"disconnect", "garbage"} => EventOf[m.type] \in Terminal
    BY DEF EventOf, Terminal
  <2> QED
    BY <1>2, <2>1, <2>2, <2>3
<1>6. n.outgoing \in Seq(Outgoing)
  <2>1. m.type = "confirm" => ChannelMsg("setup", m.id) \in Outgoing
    BY <1>1 DEF ChannelMsg, Outgoing, Incoming
  <2> QED
    BY <1>2, <2>1 DEF Typed
<1> HIDE DEF ev
<1>7. /\ n.events \in Seq(EventRecords)
      /\ Terminates(e) => Terminates(n)
      /\ ev.type \in Terminal => Terminates(n)
  BY <1>2, <1>4, Queued DEF Typed
<1>8. Typed(n)
  BY <1>1, <1>2, <1>6, <1>7 DEF Typed
<1>9. Advances(e, n)
  BY <1>4, <1>5, <1>7 DEF Advances, DriveGoesOn
<1> QED
  BY <1>8, <1>9 DEF n

\* A poll takes the first event away.
LEMMA PollTyped ==
    ASSUME NEW e, Typed(e), e.events # <<>>
    PROVE  /\ Typed(Polled(e))
           /\ Polled(e).phase = e.phase
           /\ Head(e.events) \in EventRecords
           /\ Head(e.events).type \notin Terminal => Advances(e, Polled(e))
<1> DEFINE n == Polled(e)
<1>1. /\ DOMAIN n = EngineFields /\ n.buffered = e.buffered /\ n.outgoing = e.outgoing
      /\ n.events = Tail(e.events) /\ n.next_id = e.next_id /\ n.phase = e.phase
  BY DEF Polled, Typed, EngineFields
<1>2. /\ Head(e.events) \in EventRecords /\ Head(e.events) = e.events[1]
      /\ Tail(e.events) \in Seq(EventRecords)
      /\ Len(Tail(e.events)) = Len(e.events) - 1 /\ Len(e.events) \in Nat
      /\ \A i \in 1..Len(Tail(e.events)) : Tail(e.events)[i] = e.events[i + 1]
  BY DEF Typed
<1> HIDE DEF n
<1>3. Typed(n)
  BY <1>1, <1>2 DEF Typed
<1>4. ASSUME Head(e.events).type \notin Terminal, Terminates(e)
      PROVE  Terminates(n)
  <2>1. PICK i \in 1..Len(e.events) : e.events[i].type \in Terminal
    BY <1>4 DEF Terminates
  <2>2. i # 1
    BY <1>2, <1>4, <2>1
  <2>3. i - 1 \in 1..Len(n.events) /\ n.events[i - 1].type \in Terminal
    BY <1>1, <1>2, <2>1, <2>2
  <2> QED
    BY <2>3 DEF Terminates
<1>5. Head(e.events).type \notin Terminal => Advances(e, n)
  BY <1>1, <1>4 DEF Advances
<1> QED
  BY <1>1, <1>2, <1>3, <1>5 DEF n

\* The calls that send.
LEMMA SendTyped ==
    ASSUME NEW e, Typed(e), NEW m \in Outgoing
    PROVE  Typed(Sends(e, m)) /\ Advances(e, Sends(e, m)) /\ Sends(e, m).phase = e.phase
<1> DEFINE n == Sends(e, m)
<1>1. /\ DOMAIN n = EngineFields /\ n.buffered = e.buffered /\ n.outgoing = Append(e.outgoing, m)
      /\ n.events = e.events /\ n.next_id = e.next_id /\ n.phase = e.phase
  BY DEF Sends, Typed, EngineFields
<1> HIDE DEF n
<1> QED
  BY <1>1, SameAdvances DEF Typed, n

\* An attempt.
LEMMA AuthTyped ==
    ASSUME NEW e, Typed(e)
    PROVE  Typed(Authenticated(e)) /\ Advances(e, Authenticated(e))
<1>1. Msg("auth") \in Outgoing
  BY DEF Msg, Outgoing
<1> QED
  BY <1>1, SendTyped, SameAdvances DEF Authenticated

\* A channel, opened in whatever phase.
LEMMA OpenTyped ==
    ASSUME NEW e, Typed(e), NEW kind \in {"exec", "shell"}
    PROVE  Typed(Opened(e, kind)) /\ Advances(e, Opened(e, kind))
<1> DEFINE m == ChannelMsg(kind, e.next_id)
           s == Sends(e, m)
           n == Opened(e, kind)
<1>1. m \in Outgoing
  BY DEF ChannelMsg, Outgoing, Typed
<1>2. Typed(s) /\ s.events = e.events /\ s.phase = e.phase
  BY <1>1, SendTyped DEF Sends, Typed, EngineFields
<1>3. n = [s EXCEPT !.next_id = @ + 1]
  BY DEF Opened
<1> HIDE DEF s, n
<1>4. /\ DOMAIN n = EngineFields /\ n.buffered = s.buffered /\ n.outgoing = s.outgoing
      /\ n.events = s.events /\ n.next_id = s.next_id + 1 /\ n.phase = s.phase
  BY <1>2, <1>3 DEF Typed, EngineFields
<1>5. Typed(n)
  BY <1>2, <1>4 DEF Typed
<1>6. Advances(e, n)
  BY <1>2, <1>4, SameAdvances
<1> QED
  BY <1>5, <1>6 DEF n

\* The session closes, with a terminal event behind the others.
LEMMA CloseTyped ==
    ASSUME NEW e, Typed(e)
    PROVE  LET n == [e EXCEPT !.phase = "Closed", !.events = Append(@, Msg("Unrecoverable"))]
           IN  Typed(n) /\ Terminates(n) /\ n.phase = "Closed" /\ n.events # <<>>
<1> DEFINE n == [e EXCEPT !.phase = "Closed", !.events = Append(@, Msg("Unrecoverable"))]
<1>1. /\ DOMAIN n = EngineFields /\ n.buffered = e.buffered /\ n.outgoing = e.outgoing
      /\ n.events = Append(e.events, Msg("Unrecoverable")) /\ n.next_id = e.next_id
      /\ n.phase = "Closed"
  BY DEF Typed, EngineFields
<1>2. Msg("Unrecoverable") \in EventRecords /\ Msg("Unrecoverable").type \in Terminal
  BY DEF Msg, EventRecords, Terminal
<1> HIDE DEF n
<1>3. n.events \in Seq(EventRecords) /\ Terminates(n)
  BY <1>1, <1>2, Queued DEF Typed
<1>4. n.events # <<>>
  BY <1>1, <1>2 DEF Typed
<1> QED
  BY <1>1, <1>3, <1>4 DEF Typed, n

\* The transport is closed: a session that is open ends.
LEMMA NotifyTyped ==
    ASSUME NEW e, Typed(e)
    PROVE  /\ Typed(NotifiedClosed(e)) /\ NotifiedClosed(e).phase = "Closed"
           /\ e.phase = "Closed" => NotifiedClosed(e) = e
           /\ e.phase # "Closed" => Terminates(NotifiedClosed(e))
BY CloseTyped DEF NotifiedClosed

\* The answer to the host-key question: one in time, and one too late.
LEMMA DecideTyped ==
    ASSUME NEW e, Typed(e), NEW accept \in BOOLEAN
    PROVE  Typed(Decided(e, accept)) /\ Advances(e, Decided(e, accept))
<1>1. CASE e.phase # "AwaitingHostKeyDecision"
  BY <1>1, SameAdvances DEF Decided
<1>2. CASE e.phase = "AwaitingHostKeyDecision" /\ accept
  <2> DEFINE s == Sends(e, Msg("service"))
             n == [s EXCEPT !.phase = "ServiceRequest"]
  <2>1. Msg("service") \in Outgoing
    BY DEF Msg, Outgoing
  <2>2. Typed(s) /\ s.events = e.events
    BY <2>1, SendTyped DEF Sends, Typed, EngineFields
  <2> HIDE DEF s
  <2>3. /\ DOMAIN n = EngineFields /\ n.buffered = s.buffered /\ n.outgoing = s.outgoing
        /\ n.events = s.events /\ n.next_id = s.next_id /\ n.phase = "ServiceRequest"
    BY <2>2 DEF Typed, EngineFields
  <2>4. Decided(e, accept) = n
    BY <1>2 DEF Decided, s
  <2> HIDE DEF n
  <2>5. Typed(n)
    BY <2>2, <2>3 DEF Typed
  <2>6. Advances(e, n)
    BY <1>2, <2>2, <2>3 DEF Advances, Terminates
  <2> QED
    BY <2>4, <2>5, <2>6
<1>3. CASE e.phase = "AwaitingHostKeyDecision" /\ ~accept
  <2>1. Decided(e, accept) =
            [e EXCEPT !.phase = "Closed", !.events = Append(@, Msg("Unrecoverable"))]
    BY <1>3 DEF Decided
  <2> QED
    BY <1>3, <2>1, CloseTyped DEF Advances
<1> QED
  BY <1>1, <1>2, <1>3

\* The stash and the output are not looked at.
LEMMA TakeTyped ==
    ASSUME NEW e, Typed(e)
    PROVE  /\ Typed(Taken(e)) /\ Advances(e, Taken(e))
           /\ Typed(DataTaken(e)) /\ Advances(e, DataTaken(e)) /\ DataTaken(e).phase = e.phase
<1>1. /\ DOMAIN Taken(e) = EngineFields /\ Taken(e).buffered = e.buffered
      /\ Taken(e).outgoing = <<>> /\ Taken(e).events = e.events
      /\ Taken(e).next_id = e.next_id /\ Taken(e).phase = e.phase
  BY DEF Taken, Typed, EngineFields
<1>2. /\ DOMAIN DataTaken(e) = EngineFields /\ DataTaken(e).buffered = e.buffered
      /\ DataTaken(e).outgoing = e.outgoing /\ DataTaken(e).events = e.events
      /\ DataTaken(e).next_id = e.next_id /\ DataTaken(e).phase = e.phase
  BY DEF DataTaken, Typed, EngineFields
<1>3. <<>> \in Seq(Outgoing)
  OBVIOUS
<1>4. Advances(e, Taken(e)) /\ Advances(e, DataTaken(e))
  BY <1>1, <1>2, SameAdvances
<1> QED
  BY <1>1, <1>2, <1>3, <1>4 DEF Typed

-----------------------------------------------------------------------------
\* The stack.

Kept == \A at \in {"shutdown", "settle", "poll"} : Has(stack, at) => Has(stack', at)

\* A frame of either part is in the whole.
LEMMA HasOn ==
    ASSUME NEW f \in Seq(Frames), NEW s \in Seq(Frames), NEW at
    PROVE  Has(f, at) \/ Has(s, at) => Has(f \o s, at)
<1>1. Has(f, at) => Has(f \o s, at)
  BY Joined DEF Has
<1>2. ASSUME NEW i \in 1..Len(s), s[i].at = at
      PROVE  Has(f \o s, at)
  <2>1. Len(f) + i \in 1..Len(f \o s) /\ (f \o s)[Len(f) + i].at = at
    BY <1>2, Joined
  <2> QED
    BY <2>1 DEF Has
<1> QED
  BY <1>1, <1>2 DEF Has

\* What is not on top stays when the top frame goes.
LEMMA HasBelow ==
    ASSUME NEW s \in Seq(Frames), NEW at, Has(s, at), s[1].at # at
    PROVE  Tail(s) \in Seq(Frames) /\ Has(Tail(s), at)
<1>1. PICK i \in 1..Len(s) : s[i].at = at
  BY DEF Has
<1>2. i # 1
  BY <1>1
<1>3. /\ Tail(s) \in Seq(Frames) /\ Len(Tail(s)) = Len(s) - 1
      /\ \A j \in 1..Len(Tail(s)) : Tail(s)[j] = s[j + 1]
  BY <1>1
<1>4. i - 1 \in 1..Len(Tail(s)) /\ Tail(s)[i - 1].at = at
  BY <1>1, <1>2, <1>3
<1> QED
  BY <1>3, <1>4 DEF Has

\* Frames put on top.
LEMMA CallKept ==
    ASSUME StackInv, NEW f, WellFormed(f), Call(f)
    PROVE  Kept /\ \A at : Has(f, at) => Has(stack', at)
BY HasOn DEF StackInv, WellFormed, Call, Kept

\* Frames in place of the top one.
LEMMA ThenKept ==
    ASSUME StackInv, NEW f, WellFormed(f), Then(f), stack # <<>>
    PROVE  /\ \A at : Has(stack, at) /\ stack[1].at # at => Has(stack', at)
           /\ \A at : Has(f, at) => Has(stack', at)
<1>1. stack \in Seq(Frames) /\ f \in Seq(Frames) /\ Tail(stack) \in Seq(Frames)
  BY DEF StackInv, WellFormed
<1> QED
  BY <1>1, HasOn, HasBelow DEF Then

\* A frame that neither polls nor shuts down may be replaced.
LEMMA ReplacedKept ==
    ASSUME StackInv, NEW at, Running(at), at \notin {"shutdown", "settle", "poll"},
           NEW f, WellFormed(f), Then(f)
    PROVE  Kept
<1>1. stack # <<>> /\ stack[1].at = at
  BY DEF Running
<1> QED
  BY <1>1, ThenKept DEF Kept

\* No change.
LEMMA SameKept == UNCHANGED stack => Kept
BY DEF Kept, Has

-----------------------------------------------------------------------------
\* Steps.

ClientTyped == Typed(engine') /\ to_server' \in Seq(Outgoing)

\* What a step of the client may do to the two flags that connect() rests on.
Forward ==
    /\ client.closed => client'.closed
    /\ client.intentionalClose => client'.intentionalClose

SameFlags ==
    client'.closed = client.closed /\ client'.intentionalClose = client.intentionalClose

\* A step that advances the engine and keeps those frames.
LEMMA EndKeeps ==
    ASSUME EndInv, Advances(engine, engine'), Kept, SameFlags
    PROVE  EndInv' /\ Forward
BY DEF EndInv, Advances, Kept, SameFlags, Forward, Has, Terminates

\* A closed client stays a field of the record.
LEMMA Flags ==
    ASSUME CloseInv
    PROVE  /\ UNCHANGED client => SameFlags
           /\ DOMAIN client = ClientFields
BY DEF CloseInv, SameFlags

\* The user's calls, and the reader's.
LEMMA CallsEnd ==
    ASSUME StackInv, CloseInv, TypeInv, EndInv
    PROVE  /\ \A msgs \in Seq(Incoming) : FeedFromServer(msgs) => ClientTyped /\ EndInv' /\ Forward
           /\ Close => ClientTyped /\ EndInv' /\ Forward /\ client'.intentionalClose
           /\ Enter \/ CtrlC => ClientTyped /\ EndInv' /\ Forward
           /\ \A accept \in BOOLEAN :
                VerifierAnswers(accept) => ClientTyped /\ EndInv' /\ Forward
<1>0. DOMAIN client = ClientFields
  BY Flags
<1>1. ASSUME NEW msgs \in Seq(Incoming), FeedFromServer(msgs)
      PROVE  ClientTyped /\ EndInv' /\ Forward
  <2>1. WellFormed(<<Do("drive")>> \o Pump)
    BY DrivePumpFormed
  <2>2. Kept
    BY <1>1, <2>1, CallKept DEF FeedFromServer
  <2>3. Typed(engine') /\ Advances(engine, engine')
    BY <1>1, FeedTyped DEF FeedFromServer, TypeInv
  <2> QED
    BY <1>1, <2>2, <2>3, EndKeeps DEF FeedFromServer, ClientTyped, TypeInv, SameFlags
<1>2. ASSUME Close
      PROVE  ClientTyped /\ EndInv' /\ Forward /\ client'.intentionalClose
  <2>1. /\ client'.intentionalClose = TRUE /\ client'.closed = client.closed
        /\ engine' = NotifiedClosed(engine) /\ Call(Pump) /\ to_server' = to_server
    BY <1>0, <1>2 DEF Close, ClientFields
  <2>2. Has(Pump, "poll")
    <3>1. Len(Pump) = 2 /\ Pump[2].at = "poll"
      BY DEF Pump, Do, Frame
    <3> QED
      BY <3>1 DEF Has
  <2>3. Kept /\ Has(stack', "poll")
    BY <2>1, <2>2, PumpFormed, CallKept
  <2>4. /\ Typed(engine') /\ engine'.phase = "Closed"
        /\ engine.phase = "Closed" => engine' = engine
        /\ engine.phase # "Closed" => Terminates(engine')
    BY <2>1, NotifyTyped DEF TypeInv
  <2>5. EndInv'
    BY <2>1, <2>3, <2>4 DEF EndInv, Kept, Terminates, Has
  <2> QED
    BY <2>1, <2>4, <2>5 DEF ClientTyped, TypeInv, Forward
<1>3. ASSUME Enter
      PROVE  ClientTyped /\ EndInv' /\ Forward
  <2>1. SameFlags
    BY <1>0, <1>3 DEF Enter, SameFlags, ClientFields
  <2>2. WellFormed(<<Callback("terminal"), Do("submit")>>)
    BY TwoFormed DEF Callback, Do, Places, Arguments
  <2>3. Kept
    BY <1>3, <2>2, CallKept DEF Enter
  <2>4. engine' = engine /\ to_server' = to_server /\ Advances(engine, engine')
    BY <1>3, SameAdvances DEF Enter
  <2> QED
    BY <2>1, <2>3, <2>4, EndKeeps DEF ClientTyped, TypeInv
<1>4. ASSUME CtrlC
      PROVE  ClientTyped /\ EndInv' /\ Forward
  <2>1. SameFlags
    BY <1>0, <1>4 DEF CtrlC, SameFlags, ClientFields
  <2>2. WellFormed(<<Frame("shutdown", "auth")>>)
    BY ShutdownFormed DEF Arguments
  <2>3. Kept
    BY <1>4, <2>2, CallKept DEF CtrlC
  <2>4. engine' = engine /\ to_server' = to_server /\ Advances(engine, engine')
    BY <1>4, SameAdvances DEF CtrlC
  <2> QED
    BY <2>1, <2>3, <2>4, EndKeeps DEF ClientTyped, TypeInv
<1>5. ASSUME NEW accept \in BOOLEAN, VerifierAnswers(accept)
      PROVE  ClientTyped /\ EndInv' /\ Forward
  <2>1. SameFlags /\ to_server' = to_server
    BY <1>0, <1>5 DEF VerifierAnswers, SameFlags, ClientFields
  <2> DEFINE g == IF accept THEN <<>> ELSE <<Frame("shutdown", "hostKey")>>
             f == <<Do("drive"), Do("flush")>> \o g
  <2>2. WellFormed(g)
    BY EmptyFormed, ShutdownFormed DEF Arguments
  <2>3. Call(f) /\ engine' = Decided(engine, accept)
    BY <1>5 DEF VerifierAnswers
  <2> HIDE DEF g
  <2>4. WellFormed(f)
    BY <2>2, DriveFormed, Pushed
  <2>5. Kept
    BY <2>3, <2>4, CallKept
  <2>6. Typed(engine') /\ Advances(engine, engine')
    BY <2>3, DecideTyped DEF TypeInv
  <2> QED
    BY <2>1, <2>5, <2>6, EndKeeps DEF ClientTyped, TypeInv
<1> QED
  BY <1>1, <1>2, <1>3, <1>4, <1>5

\* An event that is not a terminal one is polled.
LEMMA PollsOn ==
    ASSUME TypeInv, NEW type, Handles(type), type \notin Terminal
    PROVE  Typed(Polled(engine)) /\ Advances(engine, Polled(engine))
BY PollTyped DEF TypeInv, Handles, Event

\* The frames.
LEMMA RunEnd ==
    ASSUME StackInv, CloseInv, TypeInv, EndInv, Run
    PROVE  ClientTyped /\ EndInv' /\ Forward
<1>0. DOMAIN client = ClientFields /\ Typed(engine) /\ to_server \in Seq(Outgoing)
  BY Flags DEF TypeInv
<1>a. ASSUME Typed(engine'), Advances(engine, engine'), Kept, SameFlags, to_server' = to_server
      PROVE  ClientTyped /\ EndInv' /\ Forward
  BY <1>0, <1>a, EndKeeps DEF ClientTyped
<1>1. CASE Drive
  <2>1. SameFlags /\ to_server' = to_server
    BY <1>0, <1>1 DEF Drive, SameFlags, ClientFields
  <2>2. CASE DriveGoesOn(engine) /\ engine' = DriveOne(engine) /\ UNCHANGED stack
    BY <1>0, <1>a, <2>1, <2>2, DriveTyped, SameKept
  <2>3. CASE Then(<<>>) /\ UNCHANGED engine
    <3>1. Kept
      BY <1>1, <2>3, EmptyFormed, ReplacedKept DEF Drive
    <3> QED
      BY <1>0, <1>a, <2>1, <2>3, <3>1, SameAdvances
  <2> QED
    BY <1>1, <2>2, <2>3 DEF Drive
<1>2. CASE FlushOutgoing
  <2>1. SameFlags /\ engine' = Taken(engine) /\ to_server' = to_server \o engine.outgoing
    BY <1>2 DEF FlushOutgoing, SameFlags
  <2>2. Typed(engine') /\ Advances(engine, engine')
    BY <1>0, <2>1, TakeTyped
  <2>3. to_server' \in Seq(Outgoing)
    BY <1>0, <2>1 DEF Typed
  <2>4. Kept
    BY <1>2, EmptyFormed, ReplacedKept DEF FlushOutgoing
  <2> QED
    BY <2>1, <2>2, <2>3, <2>4, EndKeeps DEF ClientTyped
<1>3. CASE PolledAll
  <2>1. /\ SameFlags /\ engine' = engine /\ to_server' = to_server /\ engine.events = <<>>
        /\ stack # <<>> /\ stack[1].at = "poll" /\ Then(<<Do("flush")>>)
    BY <1>3 DEF PolledAll, SameFlags, Running
  <2>2. /\ Has(stack, "shutdown") => Has(stack', "shutdown")
        /\ Has(stack, "settle") => Has(stack', "settle")
    BY <2>1, FlushFormed, ThenKept
  <2>3. EndInv'
    BY <2>1, <2>2 DEF EndInv, SameFlags
  <2> QED
    BY <1>0, <2>1, <2>3 DEF ClientTyped, SameFlags, Forward
<1>4. CASE Returns
  <2>1. SameFlags /\ to_server' = to_server
    BY <1>0, <1>4 DEF Returns, SameFlags, ClientFields
  <2>9. Kept
    BY <1>4, EmptyFormed, ReplacedKept DEF Returns
  <2>10. Typed(engine') /\ Advances(engine, engine')
    BY <1>0, <1>4, SameAdvances DEF Returns
  <2> QED
    BY <1>a, <2>1, <2>9, <2>10
<1>5. CASE Prompt
  <2>1. SameFlags /\ to_server' = to_server
    BY <1>0, <1>5 DEF Prompt, SameFlags, ClientFields
  <2>2. WellFormed(<<Callback("terminal")>>)
    BY CallbackFormed DEF Arguments
  <2>9. Kept
    BY <1>5, <2>2, ReplacedKept DEF Prompt
  <2>10. Typed(engine') /\ Advances(engine, engine')
    BY <1>0, <1>5, SameAdvances DEF Prompt
  <2> QED
    BY <1>a, <2>1, <2>9, <2>10
<1>6. CASE Submit
  <2>1. SameFlags /\ to_server' = to_server
    BY <1>0, <1>6 DEF Submit, SameFlags, ClientFields
  <2>9. Kept
    BY <1>6, FlushFormed, ReplacedKept DEF Submit
  <2>10. Typed(engine') /\ Advances(engine, engine')
    BY <1>0, <1>6, AuthTyped DEF Submit
  <2> QED
    BY <1>a, <2>1, <2>9, <2>10
<1>7. CASE OpenShell
  <2>1. SameFlags /\ to_server' = to_server
    BY <1>0, <1>7 DEF OpenShell, SameFlags, ClientFields
  <2>2. CASE options.autoShell
    <3>1. engine' = Opened(engine, "shell") /\ Then(<<Do("flush")>>) /\ Running("openShell")
      BY <1>7, <2>2 DEF OpenShell
    <3>2. Typed(engine') /\ Advances(engine, engine')
      BY <1>0, <3>1, OpenTyped
    <3>3. Kept
      BY <3>1, FlushFormed, ReplacedKept
    <3> QED
      BY <1>a, <2>1, <3>2, <3>3
  <2>3. CASE ~options.autoShell
    <3>1. engine' = engine /\ Then(<<>>) /\ Running("openShell")
      BY <1>7, <2>3 DEF OpenShell
    <3>2. Kept
      BY <3>1, EmptyFormed, ReplacedKept
    <3> QED
      BY <1>0, <1>a, <2>1, <3>1, <3>2, SameAdvances
  <2> QED
    BY <2>2, <2>3
<1>8. CASE Shutdown
  <2>1. /\ SameFlags /\ engine' = engine /\ to_server' = to_server
        /\ stack # <<>> /\ stack[1].at = "shutdown"
        /\ stack \in Seq(Frames)
    BY <1>8 DEF Shutdown, SameFlags, Running, StackInv, WellFormed
  <2>2. stack[1].arg \in Arguments
    <3>1. stack[1] \in Frames
      BY <2>1
    <3> QED
      BY <3>1 DEF Frames
  <2>3. PICK f \in {<<Frame("settle", stack[1].arg)>>,
                   <<Callback("error"), Frame("settle", stack[1].arg)>>} : Then(f)
    BY <1>8 DEF Shutdown
  <2>4. WellFormed(f)
    <3>1. "error" \in Arguments /\ "callback" \in Places /\ "settle" \in Places
      BY DEF Arguments, Places
    <3>2. WellFormed(<<Frame("callback", "error"), Frame("settle", stack[1].arg)>>)
      BY <2>2, <3>1, TwoFormed
    <3>3. WellFormed(<<Frame("settle", stack[1].arg)>>)
      BY <2>2, ShutdownFormed
    <3> QED
      BY <2>3, <3>2, <3>3 DEF Callback
  <2>5. Has(f, "settle")
    <3>1. CASE f = <<Frame("settle", stack[1].arg)>>
      <4>1. Len(f) = 1 /\ f[1].at = "settle"
        BY <3>1 DEF Frame
      <4> QED
        BY <4>1 DEF Has
    <3>2. CASE f = <<Callback("error"), Frame("settle", stack[1].arg)>>
      <4>1. Len(f) = 2 /\ f[2].at = "settle"
        BY <3>2 DEF Frame
      <4> QED
        BY <4>1 DEF Has
    <3> QED
      BY <2>3, <3>1, <3>2
  <2>6. Has(stack', "settle") /\ (Has(stack, "poll") => Has(stack', "poll"))
    BY <2>1, <2>3, <2>4, <2>5, ThenKept
  <2>7. EndInv'
    BY <2>1, <2>6 DEF EndInv, SameFlags
  <2> QED
    BY <1>0, <2>1, <2>7 DEF ClientTyped, SameFlags, Forward
<1>9. CASE Settle
  <2>1. /\ client'.closed = TRUE /\ client'.intentionalClose = client.intentionalClose
        /\ engine' = engine /\ to_server' = to_server
        /\ stack # <<>> /\ stack[1].at = "settle"
        /\ Then(<<>>) \/ Then(<<Callback("close")>>)
    BY <1>0, <1>9 DEF Settle, Running, ClientFields
  <2>2. WellFormed(<<Callback("close")>>) /\ WellFormed(<<>>)
    BY CallbackFormed, EmptyFormed DEF Arguments
  <2>3. Has(stack, "poll") => Has(stack', "poll")
    BY <2>1, <2>2, ThenKept
  <2>4. EndInv'
    BY <2>1, <2>3 DEF EndInv
  <2> QED
    BY <1>0, <2>1, <2>4 DEF ClientTyped, Forward
<1>10. CASE HandleHostKeyVerify
  <2>1. SameFlags /\ to_server' = to_server
    BY <1>0, <1>10 DEF HandleHostKeyVerify, SameFlags, ClientFields
  <2> DEFINE p == Polled(engine)
  <2>2. Typed(p) /\ Advances(engine, p)
    BY <1>10, PollsOn DEF HandleHostKeyVerify, Terminal
  <2> HIDE DEF p
  <2>3. Typed(DataTaken(p)) /\ Advances(engine, DataTaken(p))
    BY <2>2, TakeTyped, AdvancesOn
  <2>4. CASE options.hostKeyCb
    <3>1. engine' = DataTaken(p) /\ Call(<<Callback("hostKey")>>)
      BY <1>10, <2>4 DEF HandleHostKeyVerify, p
    <3>2. WellFormed(<<Callback("hostKey")>>)
      BY CallbackFormed DEF Arguments
    <3>3. Kept
      BY <3>1, <3>2, CallKept
    <3> QED
      BY <1>a, <2>1, <2>3, <3>1, <3>3
  <2>5. CASE ~options.hostKeyCb
    <3>1. engine' = Decided(DataTaken(p), TRUE) /\ Call(<<Do("drive"), Do("flush")>>)
      BY <1>10, <2>5 DEF HandleHostKeyVerify, p
    <3>2. Kept
      BY <3>1, DriveFormed, CallKept
    <3>3. Typed(engine') /\ Advances(DataTaken(p), engine')
      BY <2>3, <3>1, DecideTyped
    <3>4. Advances(engine, engine')
      BY <2>3, <3>3, AdvancesOn
    <3> QED
      BY <1>a, <2>1, <3>2, <3>3, <3>4
  <2> QED
    BY <2>4, <2>5
<1>11. CASE HandleReadyForAuth
  <2>1. SameFlags /\ to_server' = to_server
    BY <1>0, <1>11 DEF HandleReadyForAuth, SameFlags, ClientFields
  <2> DEFINE p == Polled(engine)
  <2>2. Typed(p) /\ Advances(engine, p)
    BY <1>11, PollsOn DEF HandleReadyForAuth, Terminal
  <2> HIDE DEF p
  <2>3. Typed(Authenticated(p)) /\ Advances(engine, Authenticated(p))
    BY <2>2, AuthTyped, AdvancesOn
  <2>4. engine' = p \/ engine' = Authenticated(p)
    BY <1>11 DEF HandleReadyForAuth, p
  <2>5. WellFormed(<<Do("prompt")>>) /\ WellFormed(<<Frame("shutdown", "auth")>>)
    BY OneFormed DEF Do, Places, Arguments
  <2>6. Kept
    BY <1>11, <2>5, FlushFormed, CallKept DEF HandleReadyForAuth
  <2> QED
    BY <1>a, <2>1, <2>2, <2>3, <2>4, <2>6
<1>12. CASE HandleAuthFailure
  <2>1. SameFlags /\ to_server' = to_server
    BY <1>0, <1>12 DEF HandleAuthFailure, SameFlags, ClientFields
  <2>2. Typed(engine') /\ Advances(engine, engine')
    BY <1>12, PollsOn DEF HandleAuthFailure, Terminal
  <2>3. /\ WellFormed(<<Callback("terminal"), Do("prompt")>>)
        /\ WellFormed(<<Frame("shutdown", "auth")>>)
    BY OneFormed, TwoFormed DEF Callback, Do, Places, Arguments
  <2>9. Kept
    BY <1>12, <2>3, CallKept DEF HandleAuthFailure
  <2> QED
    BY <1>a, <2>1, <2>2, <2>9
<1>13. CASE HandleAuthSuccess
  <2>1. SameFlags /\ to_server' = to_server
    BY <1>0, <1>13 DEF HandleAuthSuccess, SameFlags, ClientFields
  <2>2. Typed(engine') /\ Advances(engine, engine')
    BY <1>13, PollsOn DEF HandleAuthSuccess, Terminal
  <2>3. WellFormed(<<Callback("ready"), Do("openShell")>>)
    BY TwoFormed DEF Callback, Do, Places, Arguments
  <2>9. Kept
    BY <1>13, <2>3, CallKept DEF HandleAuthSuccess
  <2> QED
    BY <1>a, <2>1, <2>2, <2>9
<1>14. CASE HandleOpenFailed
  <2>1. SameFlags /\ to_server' = to_server
    BY <1>0, <1>14 DEF HandleOpenFailed, Settled, SameFlags, ClientFields
  <2>2. Typed(engine') /\ Advances(engine, engine')
    BY <1>14, PollsOn DEF HandleOpenFailed, Terminal
  <2>3. WellFormed(<<Callback("error")>>)
    BY CallbackFormed DEF Arguments
  <2>9. Kept
    BY <1>14, <2>3, CallKept, SameKept DEF HandleOpenFailed
  <2> QED
    BY <1>a, <2>1, <2>2, <2>9
<1>15. CASE HandleData
  <2>1. SameFlags /\ to_server' = to_server
    BY <1>0, <1>15 DEF HandleData, SameFlags, ClientFields
  <2> DEFINE p == Polled(engine)
  <2>2. Typed(p) /\ Advances(engine, p)
    BY <1>15, PollsOn DEF HandleData, Terminal
  <2>3. engine' = DataTaken(p)
    BY <1>15 DEF HandleData
  <2> HIDE DEF p
  <2>4. Typed(engine') /\ Advances(engine, engine')
    BY <2>2, <2>3, TakeTyped, AdvancesOn
  <2>5. WellFormed(<<Callback("terminal")>>)
    BY CallbackFormed DEF Arguments
  <2>6. Kept
    BY <1>15, <2>5, CallKept, SameKept DEF HandleData
  <2> QED
    BY <1>a, <2>1, <2>4, <2>6
<1>16. CASE HandleExitStatus
  <2>1. SameFlags /\ to_server' = to_server
    BY <1>0, <1>16 DEF HandleExitStatus, SameFlags, ClientFields
  <2>2. Typed(engine') /\ Advances(engine, engine')
    BY <1>16, PollsOn DEF HandleExitStatus, Terminal
  <2>9. Kept
    BY <1>16, SameKept DEF HandleExitStatus
  <2> QED
    BY <1>a, <2>1, <2>2, <2>9
<1>17. CASE HandleChannelClosed
  <2>1. SameFlags /\ to_server' = to_server
    BY <1>0, <1>17 DEF HandleChannelClosed, Settled, SameFlags, ClientFields
  <2>2. Typed(engine') /\ Advances(engine, engine')
    BY <1>17, PollsOn DEF HandleChannelClosed, Terminal
  <2>9. Kept
    BY <1>17, SameKept DEF HandleChannelClosed
  <2> QED
    BY <1>a, <2>1, <2>2, <2>9
<1>18. CASE HandleTerminal
  <2>1. SameFlags /\ to_server' = to_server
    BY <1>0, <1>18 DEF HandleTerminal, SameFlags, ClientFields
  <2> DEFINE arg == IF client.intentionalClose THEN "none" ELSE Event.type
             f == <<Frame("shutdown", arg)>>
  <2>2. Call(f) /\ engine' = Polled(engine) /\ engine.events # <<>>
    BY <1>18 DEF HandleTerminal, Handles
  <2>3. arg \in Arguments
    BY <1>18 DEF HandleTerminal, Handles, Arguments
  <2> HIDE DEF arg
  <2>4. WellFormed(f)
    BY <2>3, ShutdownFormed
  <2>5. Has(f, "shutdown")
    <3>1. Len(f) = 1 /\ f[1].at = "shutdown"
      BY DEF Frame
    <3> QED
      BY <3>1 DEF Has
  <2>6. Kept /\ Has(stack', "shutdown")
    BY <2>2, <2>4, <2>5, CallKept
  <2>7. Typed(engine') /\ engine'.phase = engine.phase
    BY <1>0, <2>2, PollTyped
  <2>8. EndInv'
    BY <2>1, <2>2, <2>6, <2>7 DEF EndInv, SameFlags, Kept
  <2> QED
    BY <1>0, <2>1, <2>7, <2>8 DEF ClientTyped, SameFlags, Forward
<1>19. CASE HandleOther
  <2>1. SameFlags /\ to_server' = to_server
    BY <1>0, <1>19 DEF HandleOther, SameFlags, ClientFields
  <2>2. Typed(engine') /\ Advances(engine, engine')
    BY <1>19, PollsOn DEF HandleOther, Terminal
  <2>9. Kept
    BY <1>19, SameKept DEF HandleOther
  <2> QED
    BY <1>a, <2>1, <2>2, <2>9
<1> QED
  BY <1>1, <1>2, <1>3, <1>4, <1>5, <1>6, <1>7, <1>8, <1>9, <1>10,
     <1>11, <1>12, <1>13, <1>14, <1>15, <1>16, <1>17, <1>18, <1>19 DEF Run

-----------------------------------------------------------------------------
\* An idle client whose close was deliberate is closed: the terminal event has
\* been polled, and shutdown has run.
LEMMA IdleClosed ==
    ASSUME EndInv, Idle, client.intentionalClose
    PROVE  client.closed
<1>1. ~Has(stack, "poll") /\ ~Has(stack, "shutdown") /\ ~Has(stack, "settle")
  BY DEF Idle, Has
<1>2. engine.events = <<>>
  BY <1>1 DEF EndInv
<1>3. ~Terminates(engine)
  BY <1>2 DEF Terminates
<1> QED
  BY <1>1, <1>3 DEF EndInv

\* What a step of the server adds is typed, and what it takes.
ServerTyped == to_server' \in Seq(Outgoing) /\ to_client' \in Seq(Incoming)

\* What the server sends.
LEMMA SaysTyped ==
    ASSUME TypeInv, NEW msgs \in Seq(Incoming), Says(msgs)
    PROVE  to_client' \in Seq(Incoming)
BY DEF TypeInv, Says

\* What it reads.
LEMMA ReadsTyped ==
    ASSUME TypeInv, NEW type, Reads(type)
    PROVE  to_server' \in Seq(Outgoing) /\ Head(to_server) \in Outgoing
BY DEF TypeInv, Reads

\* The messages it has.
LEMMA MsgTyped ==
    /\ \A type \in {"kexReply", "serviceAccept", "failure", "lastFailure", "success",
                    "disconnect", "garbage"} : <<Msg(type)>> \in Seq(Incoming)
    /\ \A type \in {"confirm", "refuse"}, id \in Nat \ {0} : <<ChannelMsg(type, id)>> \in Seq(Incoming)
    /\ <<>> \in Seq(Incoming)
<1>1. \A type \in {"kexReply", "serviceAccept", "failure", "lastFailure", "success",
                   "disconnect", "garbage"} : Msg(type) \in Incoming
  BY DEF Msg, Incoming
<1>2. \A type \in {"confirm", "refuse"}, id \in Nat \ {0} : ChannelMsg(type, id) \in Incoming
  BY DEF ChannelMsg, Incoming
<1> QED
  BY <1>1, <1>2

\* The server's steps leave the client alone.
LEMMA ServerSteps ==
    ASSUME TypeInv, ServerReads \/ Ends
    PROVE  ServerTyped /\ clientUnchanged
<1>1. CASE Greets
  BY <1>1, SaysTyped, ReadsTyped, MsgTyped DEF Greets, ServerTyped, Says
<1>2. CASE Grants
  BY <1>2, SaysTyped, ReadsTyped, MsgTyped DEF Grants, ServerTyped, Says
<1>3. CASE Judges
  BY <1>3, SaysTyped, ReadsTyped, MsgTyped DEF Judges, ServerTyped, Says
<1>4. CASE OpensChannel
  <2>1. to_server' \in Seq(Outgoing) /\ Head(to_server).id \in Nat \ {0}
    BY <1>4, ReadsTyped DEF OpensChannel, Outgoing, Reads
  <2>2. clientUnchanged
    BY <1>4 DEF OpensChannel, Says
  <2>3. to_client' \in Seq(Incoming)
    BY <1>4, <2>1, SaysTyped, MsgTyped DEF OpensChannel
  <2> QED
    BY <2>1, <2>2, <2>3 DEF ServerTyped
<1>5. CASE Ends
  <2>1. to_server' = to_server
    BY <1>5 DEF Ends
  <2>2. to_client' \in Seq(Incoming) /\ clientUnchanged
    BY <1>5, SaysTyped, MsgTyped DEF Ends, Says
  <2> QED
    BY <2>1, <2>2 DEF ServerTyped, TypeInv
<1> QED
  BY <1>1, <1>2, <1>3, <1>4, <1>5 DEF ServerReads

-----------------------------------------------------------------------------
(***************************************************************************)
(* Where the output of a channel is.  Between the two ends of a channel    *)
(* there are three queues: what the client sends, what it is due to        *)
(* receive, and the events it has not polled.  All a step does to one of   *)
(* them is to put something behind it or to take its head.                 *)
(***************************************************************************)

Sent == to_server \o engine.outgoing

Due == engine.buffered \o to_client

\* What may still open the channel, and what is said on it: messages and events.
Opening(id) == [type : {"exec", "shell", "setup", "confirm"}, id : {id}]

DataOf(id) == [type : {"data", "ChannelData"}, id : {id}]

ExitOf(id) == [type : {"exit", "ChannelExitStatus"}, id : {id}]

CloseOf(id) == [type : {"close", "ChannelClosed"}, id : {id}]

TalkOn(id) == DataOf(id) \cup ExitOf(id) \cup CloseOf(id)

Count(q, S) == Cardinality({i \in 1..Len(q) : q[i] \in S})

NoneOf(q, id) ==
    Count(q, DataOf(id)) = 0 /\ Count(q, ExitOf(id)) = 0 /\ Count(q, CloseOf(id)) = 0

\* Nothing is said on a channel behind its close.
EndsClosed(q, id) ==
    \A i, j \in 1..Len(q) : i < j /\ q[i] \in CloseOf(id) => q[j] \notin TalkOn(id)

\* What has been written is collected, in an event, or still due.
Balanced(collected, queued, due, written) == collected + queued + due = written

\* One channel's life: how many openings are under way (`opens`), what the server
\* has said of data, exits and closes that is still due, and in events (`told`);
\* the next number `n`, the server's end, the result collected, the state of the
\* promise and the commands exec() still waits for.
Life(opens, dueData, dueExit, dueClose, toldData, toldExit, toldClose,
     n, end, result, state, execs, id) ==
    /\ end.data \in Seq({id}) /\ result.data \in Seq({id})
    /\ end.open \in BOOLEAN /\ end.exited \in BOOLEAN /\ result.exited \in BOOLEAN
    /\ opens <= 1
    /\ opens = 1 => ~end.open
    /\ dueClose > 0 \/ toldClose > 0 \/ state = "resolved" => opens = 0 /\ ~end.open
    /\ toldClose > 0 => dueData = 0 /\ dueExit = 0 /\ dueClose = 0
    /\ id \in execs => Balanced(Len(result.data), toldData, dueData, Len(end.data))
    /\ id \in execs => (end.exited <=> result.exited \/ toldExit > 0 \/ dueExit > 0)
    /\ state = "resolved" => result.data = end.data /\ result.exited = end.exited /\ id \notin execs
    /\ id >= n => /\ opens = 0 /\ ~end.open /\ state # "resolved"
                  /\ dueData = 0 /\ dueExit = 0 /\ dueClose = 0
                  /\ toldData = 0 /\ toldExit = 0 /\ toldClose = 0
                  /\ end.data = <<>> /\ ~end.exited /\ result.data = <<>> /\ ~result.exited

Traced(sent, due, events, n, end, result, state, execs, id) ==
    /\ EndsClosed(due, id) /\ EndsClosed(events, id)
    /\ Life(Count(sent, Opening(id)) + Count(due, Opening(id)),
            Count(due, DataOf(id)), Count(due, ExitOf(id)), Count(due, CloseOf(id)),
            Count(events, DataOf(id)), Count(events, ExitOf(id)), Count(events, CloseOf(id)),
            n, end, result, state, execs, id)

TracedOn(id) ==
    Traced(Sent, Due, engine.events, engine.next_id, chan[id], output[id], promise[id],
           client.execs, id)

Shaped ==
    /\ DOMAIN chan = Channels /\ DOMAIN output = Channels
    /\ \A id \in Channels : /\ DOMAIN chan[id] = {"open", "data", "exited"}
                            /\ DOMAIN output[id] = {"data", "exited"}

TraceInv == Shaped /\ \A id \in Channels : TracedOn(id)

-----------------------------------------------------------------------------
\* Counting in a queue.

\* A count is a number.
LEMMA CountNat ==
    ASSUME NEW A, NEW q \in Seq(A), NEW S
    PROVE  /\ Count(q, S) \in Nat
           /\ IsFiniteSet({i \in 1..Len(q) : q[i] \in S})
           /\ Count(q, S) = 0 <=> \A i \in 1..Len(q) : q[i] \notin S
<1> DEFINE T == {i \in 1..Len(q) : q[i] \in S}
<1>1. IsFiniteSet(1..Len(q)) /\ T \in SUBSET (1..Len(q))
  <2>1. 1 \in Int /\ Len(q) \in Int
    OBVIOUS
  <2> QED
    BY <2>1, FS_Interval
<1>2. IsFiniteSet(T)
  BY <1>1, FS_Subset
<1>3. Cardinality(T) \in Nat /\ (Cardinality(T) = 0 <=> T = {})
  BY <1>2, FS_CardinalityType, FS_EmptySet
<1>4. Count(q, S) = Cardinality(T)
  BY DEF Count
<1> QED
  BY <1>2, <1>3, <1>4

\* Something is put behind a queue.
LEMMA CountAppend ==
    ASSUME NEW A, NEW q \in Seq(A), NEW m \in A, NEW S
    PROVE  Count(Append(q, m), S) = Count(q, S) + (IF m \in S THEN 1 ELSE 0)
<1> DEFINE r == Append(q, m)
           T == {i \in 1..Len(q) : q[i] \in S}
           U == {i \in 1..Len(r) : r[i] \in S}
<1>1. PICK n : n = Len(q)
  OBVIOUS
<1>2. /\ n \in Nat /\ Len(r) = n + 1 /\ r[n + 1] = m
      /\ \A i \in 1..n : r[i] = q[i]
  BY <1>1
<1>3. Count(q, S) = Cardinality(T) /\ Count(r, S) = Cardinality(U) /\ IsFiniteSet(T)
  BY CountNat DEF Count
<1> HIDE DEF r
<1>4. CASE m \in S
  <2>1. U = T \cup {n + 1} /\ n + 1 \notin T
    BY <1>1, <1>2, <1>4
  <2> HIDE DEF T, U
  <2>2. Cardinality(U) = Cardinality(T) + 1
    BY <1>3, <2>1, FS_AddElement
  <2> QED
    BY <1>3, <1>4, <2>2 DEF r
<1>5. CASE m \notin S
  <2>1. U = T
    BY <1>1, <1>2, <1>5
  <2>2. Cardinality(T) \in Nat
    BY <1>3, FS_CardinalityType
  <2> HIDE DEF T, U
  <2> QED
    BY <1>3, <1>5, <2>1, <2>2 DEF r
<1> QED
  BY <1>4, <1>5

\* Its head is taken.
LEMMA CountTail ==
    ASSUME NEW A, NEW q \in Seq(A), q # <<>>, NEW S
    PROVE  Count(q, S) = Count(Tail(q), S) + (IF Head(q) \in S THEN 1 ELSE 0)
<1> DEFINE r == Tail(q)
           T == {i \in 1..Len(r) : r[i] \in S}
           U == {i \in 1..Len(q) : q[i] \in S}
           V == {i \in 2..Len(q) : q[i] \in S}
           f == [i \in T |-> i + 1]
<1>1. PICK n : n = Len(r)
  OBVIOUS
<1>2. /\ n \in Nat /\ Len(q) = n + 1 /\ q[1] = Head(q) /\ r \in Seq(A)
      /\ \A i \in 1..n : r[i] = q[i + 1]
  BY <1>1
<1>3. Count(r, S) = Cardinality(T) /\ Count(q, S) = Cardinality(U) /\ IsFiniteSet(T)
  BY <1>2, CountNat DEF Count
<1> HIDE DEF r
<1>4. f \in Bijection(T, V)
  <2>1. \A i \in T : i + 1 \in V
    BY <1>1, <1>2
  <2>2. \A j \in V : j - 1 \in T /\ (j - 1) + 1 = j
    BY <1>1, <1>2
  <2>3. \A i, j \in T : i + 1 = j + 1 => i = j
    BY <1>1, <1>2
  <2> HIDE DEF T, V
  <2> QED
    BY <2>1, <2>2, <2>3 DEF Bijection, Injection, Surjection, IsInjective
<1>5. IsFiniteSet(V) /\ Cardinality(V) = Cardinality(T)
  <2> HIDE DEF T, V, f
  <2> QED
    BY <1>3, <1>4, FS_Bijection DEF ExistsBijection
<1>6. 1 \notin V
  OBVIOUS
<1>7. U = IF Head(q) \in S THEN V \cup {1} ELSE V
  BY <1>2
<1>8. Cardinality(T) \in Nat
  BY <1>3, FS_CardinalityType
<1> HIDE DEF T, U, V
<1>9. Cardinality(V \cup {1}) = Cardinality(V) + 1
  BY <1>5, <1>6, FS_AddElement
<1> QED
  BY <1>3, <1>5, <1>7, <1>8, <1>9 DEF r

\* The order behind a close, when something is put behind the queue
LEMMA EndsAppend ==
    ASSUME NEW A, NEW q \in Seq(A), NEW m \in A, NEW id, EndsClosed(q, id),
           m \notin TalkOn(id) \/ Count(q, CloseOf(id)) = 0
    PROVE  EndsClosed(Append(q, m), id)
<1> DEFINE r == Append(q, m)
<1>1. PICK n : n = Len(q)
  OBVIOUS
<1>2. /\ n \in Nat /\ Len(r) = n + 1 /\ r[n + 1] = m
      /\ \A i \in 1..n : r[i] = q[i]
  BY <1>1
<1> HIDE DEF r
<1>3. ASSUME NEW i \in 1..Len(r), NEW j \in 1..Len(r), i < j, r[i] \in CloseOf(id)
      PROVE  r[j] \notin TalkOn(id)
  <2>1. i \in 1..n /\ r[i] = q[i]
    BY <1>2, <1>3
  <2>2. CASE j = n + 1
    <3>1. Count(q, CloseOf(id)) # 0
      BY <1>1, <1>3, <2>1, CountNat
    <3> QED
      BY <1>2, <2>2, <3>1
  <2>3. CASE j \in 1..n
    BY <1>1, <1>2, <1>3, <2>1, <2>3 DEF EndsClosed
  <2> QED
    BY <1>2, <2>2, <2>3
<1> QED
  BY <1>3 DEF EndsClosed, r

\* or its head is taken.
LEMMA EndsTail ==
    ASSUME NEW A, NEW q \in Seq(A), q # <<>>, NEW id, EndsClosed(q, id)
    PROVE  /\ EndsClosed(Tail(q), id)
           /\ Head(q) \in CloseOf(id) => NoneOf(Tail(q), id)
<1> DEFINE r == Tail(q)
<1>1. PICK n : n = Len(r)
  OBVIOUS
<1>2. /\ n \in Nat /\ Len(q) = n + 1 /\ q[1] = Head(q) /\ r \in Seq(A)
      /\ \A i \in 1..n : r[i] = q[i + 1] /\ i + 1 \in 1..Len(q)
  BY <1>1
<1> HIDE DEF r
<1>3. ASSUME NEW i \in 1..n, NEW j \in 1..n, i < j, r[i] \in CloseOf(id)
      PROVE  r[j] \notin TalkOn(id)
  <2>1. i + 1 < j + 1
    BY <1>2, <1>3
  <2> QED
    BY <1>2, <1>3, <2>1 DEF EndsClosed
<1>4. ASSUME Head(q) \in CloseOf(id)
      PROVE  NoneOf(r, id)
  <2>1. \A i \in 1..n : r[i] \notin TalkOn(id)
    <3> SUFFICES ASSUME NEW i \in 1..n PROVE q[i + 1] \notin TalkOn(id)
      BY <1>2
    <3>1. 1 < i + 1 /\ 1 \in 1..Len(q) /\ q[1] \in CloseOf(id)
      BY <1>2, <1>4
    <3> QED
      BY <1>2, <3>1 DEF EndsClosed
  <2> QED
    BY <1>1, <1>2, <2>1, CountNat DEF NoneOf, TalkOn
<1> QED
  BY <1>1, <1>3, <1>4 DEF EndsClosed, r

\* A queue in two parts.
LEMMA TwoParts ==
    ASSUME NEW A, NEW a \in Seq(A), NEW b \in Seq(A)
    PROVE  /\ a \o b \in Seq(A)
           /\ \A m \in A : a \o Append(b, m) = Append(a \o b, m)
           /\ a # <<>> => a \o b # <<>> /\ Head(a \o b) = Head(a) /\ Tail(a \o b) = Tail(a) \o b
<1>1. a \o b \in Seq(A)
  OBVIOUS
<1>2. ASSUME NEW m \in A
      PROVE  a \o Append(b, m) = Append(a \o b, m)
  <2>1. Append(b, m) = b \o <<m>> /\ Append(a \o b, m) = (a \o b) \o <<m>> /\ <<m>> \in Seq(A)
    BY <1>1, AppendIsConcat
  <2> QED
    BY <2>1, ConcatAssociative
<1>3. ASSUME a # <<>>
      PROVE  a \o b # <<>> /\ Head(a \o b) = Head(a) /\ Tail(a \o b) = Tail(a) \o b
  <2> DEFINE c == a \o b
             s == Tail(c)
             t == Tail(a) \o b
  <2>1. PICK m : m = Len(Tail(a))
    OBVIOUS
  <2>2. PICK n : n = Len(b)
    OBVIOUS
  <2>3. /\ m \in Nat /\ n \in Nat /\ Len(a) = m + 1 /\ Tail(a) \in Seq(A)
        /\ Head(a) = a[1] /\ \A i \in 1..m : Tail(a)[i] = a[i + 1]
    BY <1>3, <2>1, <2>2
  <2>4. /\ Len(c) = m + 1 + n
        /\ \A i \in 1..(m + 1 + n) : c[i] = IF i <= m + 1 THEN a[i] ELSE b[i - (m + 1)]
    <3>1. /\ Len(a \o b) = Len(a) + Len(b)
          /\ \A i \in 1..(Len(a) + Len(b)) : (a \o b)[i] = IF i <= Len(a) THEN a[i] ELSE b[i - Len(a)]
      BY ConcatProperties
    <3>2. Len(a) = m + 1 /\ Len(b) = n
      BY <2>2, <2>3
    <3> QED
      BY <3>1, <3>2
  <2>5. t \in Seq(A) /\ Len(t) = m + n
        /\ \A i \in 1..(m + n) : t[i] = IF i <= m THEN Tail(a)[i] ELSE b[i - m]
    BY <2>1, <2>2, <2>3, ConcatProperties
  <2> HIDE DEF c, t
  <2>6. c \in Seq(A) /\ c # <<>> /\ Head(c) = c[1]
    BY <1>1, <2>3, <2>4 DEF c
  <2>7. s \in Seq(A) /\ Len(s) = m + n /\ \A i \in 1..(m + n) : s[i] = c[i + 1]
    BY <2>3, <2>4, <2>6
  <2> HIDE DEF s
  <2>8. ASSUME NEW i \in 1..(m + n) PROVE s[i] = t[i]
    <3>1. i + 1 \in 1..(m + 1 + n) /\ s[i] = c[i + 1]
      BY <2>3, <2>7
    <3>2. CASE i <= m
      BY <2>3, <2>4, <2>5, <3>1, <3>2
    <3>3. CASE i > m
      <4>1. (i + 1) - (m + 1) = i - m /\ ~(i + 1 <= m + 1) /\ ~(i <= m)
        BY <2>3, <3>3
      <4> QED
        BY <2>4, <2>5, <3>1, <4>1
    <3> QED
      BY <2>3, <3>2, <3>3
  <2>9. s = t
    BY <2>5, <2>7, <2>8, SeqEqual
  <2>10. c[1] = a[1]
    BY <2>3, <2>4
  <2> QED
    BY <2>3, <2>6, <2>9, <2>10 DEF c, s, t
<1> QED
  BY <1>1, <1>2, <1>3

\* Which messages and events are a channel's.
LEMMA Kinds ==
    ASSUME NEW m \in Incoming \cup Outgoing \cup EventRecords, NEW id \in Nat
    PROVE  /\ m \in Opening(id) <=> m.id = id /\ m.type \in {"exec", "shell", "setup", "confirm"}
           /\ m \in DataOf(id) <=> m.id = id /\ m.type \in {"data", "ChannelData"}
           /\ m \in ExitOf(id) <=> m.id = id /\ m.type \in {"exit", "ChannelExitStatus"}
           /\ m \in CloseOf(id) <=> m.id = id /\ m.type \in {"close", "ChannelClosed"}
<1>1. m = [type |-> m.type, id |-> m.id]
  BY DEF Incoming, Outgoing, EventRecords
<1> QED
  BY <1>1 DEF Opening, DataOf, ExitOf, CloseOf

\* What concerns another channel, or none.
Foreign(m, id) == m \notin Opening(id) /\ m \notin TalkOn(id)

Strange(m, id) ==
    \/ m.id # id
    \/ m.type \notin {"exec", "shell", "setup", "confirm", "data", "ChannelData", "exit",
                      "ChannelExitStatus", "close", "ChannelClosed"}

\* A stranger by type or by number is foreign to the channel.
LEMMA Strangers ==
    ASSUME NEW m \in Incoming \cup Outgoing \cup EventRecords, NEW id \in Nat
    PROVE  Strange(m, id) <=> Foreign(m, id)
BY Kinds DEF Foreign, TalkOn, Strange

\* The account of a channel's output.
LEMMA Balance ==
    ASSUME NEW a \in Nat, NEW b \in Nat, NEW c \in Nat, NEW d \in Nat
    PROVE  /\ Balanced(a, b, c + 1, d) => Balanced(a, b + 1, c, d)
           /\ Balanced(a, b + 1, c, d) => Balanced(a + 1, b, c, d)
           /\ Balanced(a, b, c, d) => Balanced(a, b, c + 1, d + 1)
           /\ Balanced(a, 0, 0, d) => a = d
           /\ Balanced(0, 0, 0, 0)
BY DEF Balanced

\* A queue in which a channel does not see a difference.
Alike(q, r, id) ==
    /\ Count(r, Opening(id)) = Count(q, Opening(id))
    /\ Count(r, DataOf(id)) = Count(q, DataOf(id))
    /\ Count(r, ExitOf(id)) = Count(q, ExitOf(id))
    /\ Count(r, CloseOf(id)) = Count(q, CloseOf(id))
    /\ EndsClosed(q, id) => EndsClosed(r, id)

\* Another channel's message comes or goes.
LEMMA ForeignMoves ==
    ASSUME NEW A, NEW q \in Seq(A), NEW id
    PROVE  /\ \A m \in A : Foreign(m, id) => Alike(q, Append(q, m), id)
           /\ q # <<>> /\ Foreign(Head(q), id) => Alike(q, Tail(q), id)
           /\ Alike(q, q, id)
<1>0. /\ Count(q, Opening(id)) \in Nat /\ Count(q, DataOf(id)) \in Nat
      /\ Count(q, ExitOf(id)) \in Nat /\ Count(q, CloseOf(id)) \in Nat
  BY CountNat
<1>1. ASSUME NEW m \in A, Foreign(m, id)
      PROVE  Alike(q, Append(q, m), id)
  <2>1. /\ m \notin Opening(id) /\ m \notin DataOf(id) /\ m \notin ExitOf(id)
        /\ m \notin CloseOf(id) /\ m \notin TalkOn(id)
    BY <1>1 DEF Foreign, TalkOn
  <2>2. EndsClosed(q, id) => EndsClosed(Append(q, m), id)
    BY <2>1, EndsAppend
  <2>3. /\ Count(Append(q, m), Opening(id)) = Count(q, Opening(id))
        /\ Count(Append(q, m), DataOf(id)) = Count(q, DataOf(id))
        /\ Count(Append(q, m), ExitOf(id)) = Count(q, ExitOf(id))
        /\ Count(Append(q, m), CloseOf(id)) = Count(q, CloseOf(id))
    BY <1>0, <2>1, CountAppend
  <2> QED
    BY <2>2, <2>3 DEF Alike
<1>2. ASSUME q # <<>>, Foreign(Head(q), id)
      PROVE  Alike(q, Tail(q), id)
  <2>1. /\ Head(q) \notin Opening(id) /\ Head(q) \notin DataOf(id) /\ Head(q) \notin ExitOf(id)
        /\ Head(q) \notin CloseOf(id)
    BY <1>2 DEF Foreign, TalkOn
  <2>2. EndsClosed(q, id) => EndsClosed(Tail(q), id)
    BY <1>2, EndsTail
  <2>3. Tail(q) \in Seq(A)
    BY <1>2
  <2>4. /\ Count(Tail(q), Opening(id)) \in Nat /\ Count(Tail(q), DataOf(id)) \in Nat
        /\ Count(Tail(q), ExitOf(id)) \in Nat /\ Count(Tail(q), CloseOf(id)) \in Nat
    BY <2>3, CountNat
  <2>5. /\ Count(Tail(q), Opening(id)) = Count(q, Opening(id))
        /\ Count(Tail(q), DataOf(id)) = Count(q, DataOf(id))
        /\ Count(Tail(q), ExitOf(id)) = Count(q, ExitOf(id))
        /\ Count(Tail(q), CloseOf(id)) = Count(q, CloseOf(id))
    BY <1>2, <2>1, <2>4, CountTail
  <2> QED
    BY <2>2, <2>5 DEF Alike
<1> QED
  BY <1>1, <1>2 DEF Alike

\* So does nothing that concerns it.
LEMMA AlikeTraced ==
    ASSUME NEW W, NEW R, NEW E, NEW n \in Nat, NEW end, NEW result, NEW state,
           NEW execs, NEW id \in Nat,
           Traced(W, R, E, n, end, result, state, execs, id),
           NEW W1, NEW R1, NEW E1, NEW n1 \in Nat, NEW state1, NEW execs1,
           Alike(W, W1, id), Alike(R, R1, id), Alike(E, E1, id), n <= n1,
           state1 = "resolved" <=> state = "resolved", id \in execs1 => id \in execs
    PROVE  Traced(W1, R1, E1, n1, end, result, state1, execs1, id)
<1>1. id >= n1 => id >= n
  OBVIOUS
<1> QED
  BY <1>1 DEF Traced, Alike, Life

\* All counts are numbers.
LEMMA OwnMoves ==
    ASSUME NEW q \in Seq(Incoming) \cup Seq(Outgoing) \cup Seq(EventRecords), NEW id \in Nat
    PROVE  /\ Count(q, Opening(id)) \in Nat /\ Count(q, DataOf(id)) \in Nat
           /\ Count(q, ExitOf(id)) \in Nat /\ Count(q, CloseOf(id)) \in Nat
<1>1. PICK A : q \in Seq(A)
  OBVIOUS
<1> QED
  BY <1>1, CountNat

\* What a message of the channel's own adds to a queue, and what it leaves behind.
Adds(q, r, o, d, x, c, id) ==
    /\ Count(r, Opening(id)) = Count(q, Opening(id)) + o
    /\ Count(r, DataOf(id)) = Count(q, DataOf(id)) + d
    /\ Count(r, ExitOf(id)) = Count(q, ExitOf(id)) + x
    /\ Count(r, CloseOf(id)) = Count(q, CloseOf(id)) + c

\* Put behind the others,
LEMMA OwnAppend ==
    ASSUME NEW A, A \in {Incoming, Outgoing, EventRecords}, NEW q \in Seq(A), NEW m \in A,
           NEW id \in Nat, m.id = id
    PROVE  LET r == Append(q, m) IN
           /\ m.type \in {"exec", "shell", "setup", "confirm"} => Adds(q, r, 1, 0, 0, 0, id)
           /\ m.type \in {"data", "ChannelData"} => Adds(q, r, 0, 1, 0, 0, id)
           /\ m.type \in {"exit", "ChannelExitStatus"} => Adds(q, r, 0, 0, 1, 0, id)
           /\ m.type \in {"close", "ChannelClosed"} => Adds(q, r, 0, 0, 0, 1, id)
           /\ EndsClosed(q, id) /\ (m.type \in {"exec", "shell", "setup", "confirm"} \/ Count(q, CloseOf(id)) = 0)
                => EndsClosed(r, id)
<1> DEFINE r == Append(q, m)
<1>1. /\ m \in Opening(id) <=> m.type \in {"exec", "shell", "setup", "confirm"}
      /\ m \in DataOf(id) <=> m.type \in {"data", "ChannelData"}
      /\ m \in ExitOf(id) <=> m.type \in {"exit", "ChannelExitStatus"}
      /\ m \in CloseOf(id) <=> m.type \in {"close", "ChannelClosed"}
  BY Kinds
<1>2. /\ Count(r, Opening(id)) = Count(q, Opening(id)) + (IF m \in Opening(id) THEN 1 ELSE 0)
      /\ Count(r, DataOf(id)) = Count(q, DataOf(id)) + (IF m \in DataOf(id) THEN 1 ELSE 0)
      /\ Count(r, ExitOf(id)) = Count(q, ExitOf(id)) + (IF m \in ExitOf(id) THEN 1 ELSE 0)
      /\ Count(r, CloseOf(id)) = Count(q, CloseOf(id)) + (IF m \in CloseOf(id) THEN 1 ELSE 0)
  BY CountAppend
<1>3. EndsClosed(q, id) /\ (m \notin TalkOn(id) \/ Count(q, CloseOf(id)) = 0) => EndsClosed(r, id)
  BY EndsAppend
<1>4. m.type \in {"exec", "shell", "setup", "confirm"} => m \notin TalkOn(id)
  BY <1>1 DEF TalkOn
<1> HIDE DEF r
<1> QED
  BY <1>1, <1>2, <1>3, <1>4 DEF Adds, r

\* or taken from the head.
LEMMA OwnTail ==
    ASSUME NEW A, A \in {Incoming, Outgoing, EventRecords}, NEW q \in Seq(A), q # <<>>,
           NEW id \in Nat, Head(q).id = id
    PROVE  LET m == Head(q)
               r == Tail(q) IN
           /\ m.type \in {"exec", "shell", "setup", "confirm"} => Adds(r, q, 1, 0, 0, 0, id)
           /\ m.type \in {"data", "ChannelData"} => Adds(r, q, 0, 1, 0, 0, id)
           /\ m.type \in {"exit", "ChannelExitStatus"} => Adds(r, q, 0, 0, 1, 0, id)
           /\ m.type \in {"close", "ChannelClosed"} => Adds(r, q, 0, 0, 0, 1, id)
           /\ EndsClosed(q, id) => EndsClosed(r, id)
           /\ EndsClosed(q, id) /\ m.type \in {"close", "ChannelClosed"} => NoneOf(r, id)
<1> DEFINE m == Head(q)
           r == Tail(q)
<1>0. m \in A
  OBVIOUS
<1>1. /\ m \in Opening(id) <=> m.type \in {"exec", "shell", "setup", "confirm"}
      /\ m \in DataOf(id) <=> m.type \in {"data", "ChannelData"}
      /\ m \in ExitOf(id) <=> m.type \in {"exit", "ChannelExitStatus"}
      /\ m \in CloseOf(id) <=> m.type \in {"close", "ChannelClosed"}
  BY <1>0, Kinds
<1>2. /\ Count(q, Opening(id)) = Count(r, Opening(id)) + (IF m \in Opening(id) THEN 1 ELSE 0)
      /\ Count(q, DataOf(id)) = Count(r, DataOf(id)) + (IF m \in DataOf(id) THEN 1 ELSE 0)
      /\ Count(q, ExitOf(id)) = Count(r, ExitOf(id)) + (IF m \in ExitOf(id) THEN 1 ELSE 0)
      /\ Count(q, CloseOf(id)) = Count(r, CloseOf(id)) + (IF m \in CloseOf(id) THEN 1 ELSE 0)
  BY CountTail
<1>3. EndsClosed(q, id) => EndsClosed(r, id) /\ (m \in CloseOf(id) => NoneOf(r, id))
  BY EndsTail
<1> HIDE DEF r, m
<1> QED
  BY <1>1, <1>2, <1>3 DEF Adds, r, m

-----------------------------------------------------------------------------
\* One channel's life, step by step.

\* What is due becomes an event: data, an exit, the close that is the last.
LEMMA LifeDrives ==
    ASSUME NEW o \in Nat, NEW d \in Nat, NEW x \in Nat, NEW c \in Nat,
           NEW e \in Nat, NEW f \in Nat, NEW g \in Nat, NEW n \in Nat, NEW end, NEW result,
           NEW state, NEW execs, NEW id \in Nat,
           Life(o, d, x, c, e, f, g, n, end, result, state, execs, id)
    PROVE  /\ d > 0 => g = 0 /\ Life(o, d - 1, x, c, e + 1, f, g, n, end, result, state, execs, id)
           /\ x > 0 => g = 0 /\ Life(o, d, x - 1, c, e, f + 1, g, n, end, result, state, execs, id)
           /\ d = 0 /\ x = 0 /\ c = 1 =>
                  g = 0 /\ Life(o, d, x, c - 1, e, f, g + 1, n, end, result, state, execs, id)
<1>1. ASSUME d > 0
      PROVE  g = 0 /\ Life(o, d - 1, x, c, e + 1, f, g, n, end, result, state, execs, id)
  <2>1. Len(result.data) \in Nat /\ Len(end.data) \in Nat
    BY DEF Life
  <2>2. id \in execs => Balanced(Len(result.data), e + 1, d - 1, Len(end.data))
    <3> SUFFICES ASSUME id \in execs
                 PROVE  Balanced(Len(result.data), e + 1, d - 1, Len(end.data))
      OBVIOUS
    <3>1. Balanced(Len(result.data), e, d, Len(end.data))
      BY DEF Life
    <3>2. PICK a \in Nat, w \in Nat : a = Len(result.data) /\ w = Len(end.data)
      BY <2>1
    <3>3. Balanced(a, e + 1, d - 1, w)
      <4>1. Balanced(a, e, d, w)
        BY <3>1, <3>2
      <4> QED
        BY <4>1 DEF Balanced
    <3> QED
      BY <3>2, <3>3
  <2> QED
    BY <1>1, <2>2 DEF Life
<1>2. ASSUME x > 0
      PROVE  g = 0 /\ Life(o, d, x - 1, c, e, f + 1, g, n, end, result, state, execs, id)
  BY <1>2 DEF Life
<1>3. ASSUME d = 0, x = 0, c = 1
      PROVE  g = 0 /\ Life(o, d, x, c - 1, e, f, g + 1, n, end, result, state, execs, id)
  BY <1>3 DEF Life
<1> QED
  BY <1>1, <1>2, <1>3

\* An event is handled: data is collected, an exit noted, and behind the close
\* exec() has everything.
LEMMA LifeHandles ==
    ASSUME NEW o \in Nat, NEW d \in Nat, NEW x \in Nat, NEW c \in Nat,
           NEW e \in Nat, NEW f \in Nat, NEW g \in Nat, NEW n \in Nat, NEW end, NEW result,
           NEW state, NEW execs, NEW id \in Nat, NEW after,
           Life(o, d, x, c, e, f, g, n, end, result, state, execs, id)
    PROVE  /\ /\ e > 0
              /\ after.data = IF id \in execs THEN Append(result.data, id) ELSE result.data
              /\ after.exited = result.exited
              => Life(o, d, x, c, e - 1, f, g, n, end, after, state, execs, id)
           /\ /\ f > 0
              /\ after.data = result.data
              /\ after.exited = IF id \in execs THEN TRUE ELSE result.exited
              => Life(o, d, x, c, e, f - 1, g, n, end, after, state, execs, id)
<1>1. ASSUME e > 0,
             after.data = IF id \in execs THEN Append(result.data, id) ELSE result.data,
             after.exited = result.exited
      PROVE  Life(o, d, x, c, e - 1, f, g, n, end, after, state, execs, id)
  <2>1. /\ result.data \in Seq({id})
        /\ Len(result.data) \in Nat /\ Len(end.data) \in Nat
    BY DEF Life
  <2>2. /\ after.data \in Seq({id})
        /\ Len(after.data) = IF id \in execs THEN Len(result.data) + 1 ELSE Len(result.data)
    BY <1>1, <2>1
  <2>3. id \in execs => Balanced(Len(after.data), e - 1, d, Len(end.data))
    <3> SUFFICES ASSUME id \in execs
                 PROVE  Balanced(Len(after.data), e - 1, d, Len(end.data))
      OBVIOUS
    <3>1. Balanced(Len(result.data), e, d, Len(end.data))
      BY DEF Life
    <3>2. PICK a \in Nat, w \in Nat : a = Len(result.data) /\ w = Len(end.data)
      BY <2>1
    <3>3. Balanced(a, e, d, w)
      BY <3>1, <3>2
    <3>4. PICK b \in Nat : e = b + 1 /\ e - 1 = b
      BY <1>1
    <3>5. Balanced(a + 1, b, d, w)
      BY <3>3, <3>4, Balance
    <3>6. Len(after.data) = a + 1
      BY <2>2, <3>2
    <3> QED
      BY <3>2, <3>4, <3>5, <3>6
  <2>4. ~(id >= n)
    BY <1>1 DEF Life
  <2> QED
    BY <1>1, <2>2, <2>3, <2>4 DEF Life
<1>2. ASSUME f > 0, after.data = result.data,
             after.exited = IF id \in execs THEN TRUE ELSE result.exited
      PROVE  Life(o, d, x, c, e, f - 1, g, n, end, after, state, execs, id)
  <2>1. /\ result.exited \in BOOLEAN /\ end.exited \in BOOLEAN /\ ~(id >= n)
        /\ id \in execs => end.exited
        /\ state = "resolved" => result.exited = end.exited /\ id \notin execs
    BY <1>2 DEF Life
  <2>2. after.exited \in BOOLEAN /\ (id \in execs => after.exited)
    BY <1>2, <2>1
  <2>3. state = "resolved" => after.exited = end.exited
    BY <1>2, <2>1
  <2>4. id \in execs => (end.exited <=> after.exited \/ f - 1 > 0 \/ x > 0)
    BY <2>1, <2>2
  <2> QED
    BY <1>2, <2>1, <2>2, <2>3, <2>4 DEF Life
<1> QED
  BY <1>1, <1>2

\* Behind the close, exec() has everything.
LEMMA LifeEnds ==
    ASSUME NEW o \in Nat, NEW d \in Nat, NEW x \in Nat, NEW c \in Nat,
           NEW e \in Nat, NEW f \in Nat, NEW g \in Nat, NEW n \in Nat, NEW end, NEW result,
           NEW state, NEW execs, NEW id \in Nat,
           Life(o, d, x, c, e, f, g, n, end, result, state, execs, id),
           e = 0, f = 0, g = 1, NEW state1, state1 = IF id \in execs THEN "resolved" ELSE state,
           NEW execs1, id \notin execs1, NEW g1 \in Nat, g1 = 0
    PROVE  Life(o, d, x, c, e, f, g1, n, end, result, state1, execs1, id)
<1>1. ASSUME id \in execs
      PROVE  result.data = end.data /\ result.exited = end.exited
  <2>1. /\ end.data \in Seq({id}) /\ result.data \in Seq({id}) /\ d = 0 /\ x = 0
        /\ Balanced(Len(result.data), 0, 0, Len(end.data))
    BY <1>1 DEF Life
  <2>2. Len(result.data) \in Nat /\ Len(end.data) \in Nat
    BY <2>1
  <2>3. Len(result.data) = Len(end.data)
    BY <2>1, <2>2, Balance
  <2>4. \A i \in 1..Len(result.data) : result.data[i] = id /\ end.data[i] = id
    BY <2>1, <2>3, ElementOfSeq
  <2>5. result.data = end.data
    BY <2>1, <2>3, <2>4, SeqEqual
  <2> QED
    BY <1>1, <2>1, <2>5 DEF Life
<1> QED
  BY <1>1 DEF Life

\* The server's end: it opens,
LEMMA LifeSetUp ==
    ASSUME NEW o \in Nat, NEW d \in Nat, NEW x \in Nat, NEW c \in Nat,
           NEW e \in Nat, NEW f \in Nat, NEW g \in Nat, NEW n \in Nat, NEW end, NEW result,
           NEW state, NEW execs, NEW id \in Nat,
           Life(o, d, x, c, e, f, g, n, end, result, state, execs, id),
           NEW after, after.data \in Seq({id}), after.open \in BOOLEAN, after.exited \in BOOLEAN,
           o > 0, after.data = end.data, after.exited = end.exited
    PROVE  Life(o - 1, d, x, c, e, f, g, n, after, result, state, execs, id)
BY DEF Life

\* writes,
LEMMA LifeWrites ==
    ASSUME NEW o \in Nat, NEW d \in Nat, NEW x \in Nat, NEW c \in Nat,
           NEW e \in Nat, NEW f \in Nat, NEW g \in Nat, NEW n \in Nat, NEW end, NEW result,
           NEW state, NEW execs, NEW id \in Nat,
           Life(o, d, x, c, e, f, g, n, end, result, state, execs, id),
           NEW after, after.data \in Seq({id}), after.open \in BOOLEAN, after.exited \in BOOLEAN,
           end.open, after.data = Append(end.data, id), after.exited = end.exited
    PROVE  Life(o, d + 1, x, c, e, f, g, n, after, result, state, execs, id)
<1>1. c = 0 /\ g = 0 /\ state # "resolved" /\ ~(id >= n) /\ o = 0
  BY DEF Life
<1>2. Len(result.data) \in Nat /\ Len(end.data) \in Nat /\ Len(after.data) = Len(end.data) + 1
  BY DEF Life
<1>3. id \in execs => Balanced(Len(result.data), e, d + 1, Len(after.data))
  <2> SUFFICES ASSUME id \in execs
               PROVE  Balanced(Len(result.data), e, d + 1, Len(after.data))
    OBVIOUS
  <2>1. Balanced(Len(result.data), e, d, Len(end.data))
    BY DEF Life
  <2>2. PICK a \in Nat, w \in Nat : a = Len(result.data) /\ w = Len(end.data)
    BY <1>2
  <2>3. Balanced(a, e, d + 1, w + 1)
    <3>1. Balanced(a, e, d, w)
      BY <2>1, <2>2
    <3> QED
      BY <3>1 DEF Balanced
  <2>4. Len(after.data) = w + 1
    BY <1>2, <2>2
  <2> QED
    BY <2>2, <2>3, <2>4
<1> QED
  BY <1>1, <1>3 DEF Life

\* exits
LEMMA LifeExits ==
    ASSUME NEW o \in Nat, NEW d \in Nat, NEW x \in Nat, NEW c \in Nat,
           NEW e \in Nat, NEW f \in Nat, NEW g \in Nat, NEW n \in Nat, NEW end, NEW result,
           NEW state, NEW execs, NEW id \in Nat,
           Life(o, d, x, c, e, f, g, n, end, result, state, execs, id),
           NEW after, after.data \in Seq({id}), after.open \in BOOLEAN, after.exited \in BOOLEAN,
           end.open, after.data = end.data, after.exited
    PROVE  Life(o, d, x + 1, c, e, f, g, n, after, result, state, execs, id)
<1>1. c = 0 /\ g = 0 /\ state # "resolved" /\ ~(id >= n) /\ o = 0
  BY DEF Life
<1>2. id \in execs => (after.exited <=> result.exited \/ f > 0 \/ x + 1 > 0)
  OBVIOUS
<1> QED
  BY <1>1, <1>2 DEF Life

\* and closes.
LEMMA LifeCloses ==
    ASSUME NEW o \in Nat, NEW d \in Nat, NEW x \in Nat, NEW c \in Nat,
           NEW e \in Nat, NEW f \in Nat, NEW g \in Nat, NEW n \in Nat, NEW end, NEW result,
           NEW state, NEW execs, NEW id \in Nat,
           Life(o, d, x, c, e, f, g, n, end, result, state, execs, id),
           NEW after, after.data \in Seq({id}), after.open \in BOOLEAN, after.exited \in BOOLEAN,
           end.open, after.data = end.data, after.exited = end.exited, ~after.open
    PROVE  Life(o, d, x, c + 1, e, f, g, n, after, result, state, execs, id)
<1>1. c = 0 /\ g = 0 /\ state # "resolved" /\ ~(id >= n) /\ o = 0
  BY DEF Life
<1> QED
  BY <1>1 DEF Life

\* A channel is opened under the next number.
LEMMA LifeOpens ==
    ASSUME NEW o \in Nat, NEW d \in Nat, NEW x \in Nat, NEW c \in Nat,
           NEW e \in Nat, NEW f \in Nat, NEW g \in Nat, NEW end, NEW result,
           NEW state, NEW execs, NEW id \in Nat,
           Life(o, d, x, c, e, f, g, id, end, result, state, execs, id),
           NEW state1, state1 # "resolved", NEW execs1
    PROVE  Life(o + 1, d, x, c, e, f, g, id + 1, end, result, state1, execs1, id)
<1>1. /\ o = 0 /\ d = 0 /\ x = 0 /\ c = 0 /\ e = 0 /\ f = 0 /\ g = 0
      /\ end.data = <<>> /\ result.data = <<>> /\ ~end.open /\ ~end.exited /\ ~result.exited
  BY DEF Life
<1>2. Balanced(Len(result.data), e, d, Len(end.data))
  <2>1. Len(result.data) = 0 /\ Len(end.data) = 0
    BY <1>1
  <2> QED
    BY <1>1, <2>1, Balance
<1>3. ~(id >= id + 1)
  OBVIOUS
<1>4. /\ end.data \in Seq({id}) /\ result.data \in Seq({id})
      /\ end.open \in BOOLEAN /\ end.exited \in BOOLEAN /\ result.exited \in BOOLEAN
  BY DEF Life
<1> QED
  BY <1>1, <1>2, <1>3, <1>4 DEF Life

\* Two numbers add up to one.
LEMMA Sums == \A a, b \in Nat : a + b \in Nat
OBVIOUS

\* The message at the head of what is due becomes an event; a confirmation is
\* answered with the request that sets the channel up.
LEMMA DriveTraced ==
    ASSUME NEW W \in Seq(Outgoing), NEW R \in Seq(Incoming), NEW E \in Seq(EventRecords),
           NEW n \in Nat, NEW end, NEW result, NEW state, NEW execs, NEW id \in Nat,
           Traced(W, R, E, n, end, result, state, execs, id), R # <<>>,
           NEW m, m = Head(R), NEW ev \in EventRecords, ev = ChannelMsg(EventOf[m.type], m.id),
           NEW W1, W1 = IF m.type = "confirm" THEN Append(W, ChannelMsg("setup", m.id)) ELSE W
    PROVE  Traced(W1, Tail(R), Append(E, ev), n, end, result, state, execs, id)
<1> DEFINE R1 == Tail(R)
           E1 == Append(E, ev)
           req == ChannelMsg("setup", m.id)
<1>0. m \in Incoming /\ R1 \in Seq(Incoming) /\ ev.type = EventOf[m.type] /\ ev.id = m.id
  BY DEF ChannelMsg
<1>1. m.type = "confirm" => req \in Outgoing /\ req.id = m.id /\ req.type = "setup"
  BY <1>0 DEF ChannelMsg, Outgoing, Incoming
<1>2. /\ Count(W, Opening(id)) \in Nat /\ Count(R, Opening(id)) \in Nat
      /\ Count(R1, Opening(id)) \in Nat /\ Count(R1, DataOf(id)) \in Nat
      /\ Count(R1, ExitOf(id)) \in Nat /\ Count(R1, CloseOf(id)) \in Nat
  BY <1>0, OwnMoves
<1>d. PICK d1 \in Nat, x1 \in Nat, c1 \in Nat :
         /\ d1 = Count(R1, DataOf(id)) /\ x1 = Count(R1, ExitOf(id)) /\ c1 = Count(R1, CloseOf(id))
  BY <1>2
<1>a. PICK o \in Nat, d \in Nat, x \in Nat, c \in Nat :
         /\ o = Count(W, Opening(id)) + Count(R, Opening(id))
         /\ d = Count(R, DataOf(id)) /\ x = Count(R, ExitOf(id)) /\ c = Count(R, CloseOf(id))
  BY OwnMoves, Sums
<1>c. PICK e \in Nat, f \in Nat, g \in Nat :
         e = Count(E, DataOf(id)) /\ f = Count(E, ExitOf(id)) /\ g = Count(E, CloseOf(id))
  BY OwnMoves
<1>3. /\ EndsClosed(R, id) /\ EndsClosed(E, id)
      /\ Life(o, d, x, c, e, f, g, n, end, result, state, execs, id)
  BY <1>a, <1>c DEF Traced
<1> HIDE DEF R1, E1, req
<1>b. /\ d > 0 => g = 0 /\ Life(o, d - 1, x, c, e + 1, f, g, n, end, result, state, execs, id)
      /\ x > 0 => g = 0 /\ Life(o, d, x - 1, c, e, f + 1, g, n, end, result, state, execs, id)
      /\ d = 0 /\ x = 0 /\ c = 1 =>
             g = 0 /\ Life(o, d, x, c - 1, e, f, g + 1, n, end, result, state, execs, id)
  BY <1>3, LifeDrives
<1>4. CASE Strange(m, id)
  <2>1. Strange(ev, id)
    BY <1>0, <1>4 DEF Strange, EventOf, Incoming
  <2>2. m.type = "confirm" => Strange(req, id)
    BY <1>1, <1>4 DEF Strange
  <2>3. Foreign(m, id) /\ Foreign(ev, id) /\ (m.type = "confirm" => Foreign(req, id))
    BY <1>0, <1>1, <1>4, <2>1, <2>2, Strangers
  <2>4. Alike(R, R1, id) /\ Alike(E, E1, id) /\ Alike(W, W1, id)
    BY <1>1, <2>3, ForeignMoves DEF R1, E1, req
  <2> QED
    BY <2>4, AlikeTraced DEF R1, E1
<1>5. CASE m.id = id /\ m.type = "confirm"
  <2>1. Adds(R1, R, 1, 0, 0, 0, id) /\ EndsClosed(R1, id)
    BY <1>3, <1>5, OwnTail DEF R1
  <2>2. Adds(W, W1, 1, 0, 0, 0, id)
    BY <1>1, <1>5, OwnAppend DEF req
  <2>3. Alike(E, E1, id)
    <3>1. ev.type = "ChannelOpened"
      BY <1>0, <1>5 DEF EventOf
    <3>2. Foreign(ev, id)
      BY <3>1, Strangers DEF Strange
    <3> QED
      BY <3>2, ForeignMoves DEF E1
  <2>4. Count(W1, Opening(id)) + Count(R1, Opening(id)) = o
    BY <1>2, <1>a, <2>1, <2>2 DEF Adds
  <2>5. Count(R1, DataOf(id)) = d /\ Count(R1, ExitOf(id)) = x /\ Count(R1, CloseOf(id)) = c
    BY <1>2, <1>a, <1>d, <2>1 DEF Adds
  <2>6. /\ Count(E1, DataOf(id)) = e /\ Count(E1, ExitOf(id)) = f /\ Count(E1, CloseOf(id)) = g
        /\ EndsClosed(E1, id)
    BY <1>3, <1>c, <2>3 DEF Alike
  <2> QED
    BY <1>3, <2>1, <2>4, <2>5, <2>6 DEF Traced, R1, E1
<1>6. CASE m.id = id /\ m.type = "data"
  <2>1. Adds(R1, R, 0, 1, 0, 0, id) /\ EndsClosed(R1, id) /\ W1 = W
    BY <1>3, <1>6, OwnTail DEF R1
  <2>2. /\ Count(W, Opening(id)) + Count(R1, Opening(id)) = o /\ d > 0
        /\ Count(R1, DataOf(id)) = d - 1 /\ Count(R1, ExitOf(id)) = x /\ Count(R1, CloseOf(id)) = c
    BY <1>2, <1>a, <1>d, <2>1, SMTT(30) DEF Adds
  <2>3. Adds(E, E1, 0, 1, 0, 0, id) /\ EndsClosed(E1, id)
    <3>1. ev.type = "ChannelData" /\ ev.id = id
      BY <1>0, <1>6 DEF EventOf
    <3> QED
      BY <1>3, <1>b, <1>c, <2>2, <3>1, OwnAppend DEF E1
  <2>4. /\ Count(E1, DataOf(id)) = e + 1 /\ Count(E1, ExitOf(id)) = f /\ Count(E1, CloseOf(id)) = g
    BY <1>2, <1>c, <2>3 DEF Adds
  <2> QED
    BY <1>b, <2>1, <2>2, <2>3, <2>4 DEF Traced, R1, E1
<1>7. CASE m.id = id /\ m.type = "exit"
  <2>1. Adds(R1, R, 0, 0, 1, 0, id) /\ EndsClosed(R1, id) /\ W1 = W
    BY <1>3, <1>7, OwnTail DEF R1
  <2>2. /\ Count(W, Opening(id)) + Count(R1, Opening(id)) = o /\ x > 0
        /\ Count(R1, DataOf(id)) = d /\ Count(R1, ExitOf(id)) = x - 1 /\ Count(R1, CloseOf(id)) = c
    BY <1>2, <1>a, <1>d, <2>1, SMTT(30) DEF Adds
  <2>3. Adds(E, E1, 0, 0, 1, 0, id) /\ EndsClosed(E1, id)
    <3>1. ev.type = "ChannelExitStatus" /\ ev.id = id
      BY <1>0, <1>7 DEF EventOf
    <3> QED
      BY <1>3, <1>b, <1>c, <2>2, <3>1, OwnAppend DEF E1
  <2>4. /\ Count(E1, DataOf(id)) = e /\ Count(E1, ExitOf(id)) = f + 1 /\ Count(E1, CloseOf(id)) = g
    BY <1>2, <1>c, <2>3 DEF Adds
  <2> QED
    BY <1>b, <2>1, <2>2, <2>3, <2>4 DEF Traced, R1, E1
<1>8. CASE m.id = id /\ m.type = "close"
  <2>1. Adds(R1, R, 0, 0, 0, 1, id) /\ EndsClosed(R1, id) /\ NoneOf(R1, id) /\ W1 = W
    BY <1>3, <1>8, OwnTail DEF R1
  <2>2. /\ Count(W, Opening(id)) + Count(R1, Opening(id)) = o /\ d = 0 /\ x = 0 /\ c = 1
        /\ Count(R1, DataOf(id)) = d /\ Count(R1, ExitOf(id)) = x /\ Count(R1, CloseOf(id)) = c - 1
    BY <1>2, <1>a, <1>d, <2>1 DEF Adds, NoneOf
  <2>3. Adds(E, E1, 0, 0, 0, 1, id) /\ EndsClosed(E1, id)
    <3>1. ev.type = "ChannelClosed" /\ ev.id = id
      BY <1>0, <1>8 DEF EventOf
    <3> QED
      BY <1>3, <1>b, <1>c, <2>2, <3>1, OwnAppend DEF E1
  <2>4. /\ Count(E1, DataOf(id)) = e /\ Count(E1, ExitOf(id)) = f /\ Count(E1, CloseOf(id)) = g + 1
    BY <1>2, <1>c, <2>3 DEF Adds
  <2> QED
    BY <1>b, <2>1, <2>2, <2>3, <2>4 DEF Traced, R1, E1
<1> QED
  BY <1>0, <1>4, <1>5, <1>6, <1>7, <1>8 DEF Strange, Incoming

-----------------------------------------------------------------------------
\* Steps a channel does not see.

\* Two of them are one.
LEMMA AlikeOn ==
    ASSUME NEW q, NEW r, NEW s, NEW id, Alike(q, r, id), Alike(r, s, id)
    PROVE  Alike(q, s, id)
BY DEF Alike

\* The engine goes from `e` to `n` and a channel does not see a difference.
Unseen(e, n, id) ==
    /\ n.buffered = e.buffered /\ n.next_id = e.next_id
    /\ Alike(e.events, n.events, id)
    /\ \A t \in Seq(Outgoing) : Alike(t \o e.outgoing, t \o n.outgoing, id)

\* Two such calls are one.
LEMMA UnseenOn ==
    ASSUME NEW e, NEW n, NEW o, NEW id, Unseen(e, n, id), Unseen(n, o, id)
    PROVE  Unseen(e, o, id)
<1>1. /\ o.buffered = e.buffered /\ o.next_id = e.next_id
      /\ Alike(e.events, o.events, id)
  BY AlikeOn DEF Unseen
<1>2. ASSUME NEW t \in Seq(Outgoing)
      PROVE  Alike(t \o e.outgoing, t \o o.outgoing, id)
  <2>1. Alike(t \o e.outgoing, t \o n.outgoing, id) /\ Alike(t \o n.outgoing, t \o o.outgoing, id)
    BY DEF Unseen
  <2> QED
    BY <2>1, AlikeOn
<1> QED
  BY <1>1, <1>2 DEF Unseen

\* A call that touches no queue.
LEMMA UnseenSame ==
    ASSUME NEW e, Typed(e), NEW n, NEW id,
           n.buffered = e.buffered, n.next_id = e.next_id,
           n.events = e.events, n.outgoing = e.outgoing
    PROVE  Unseen(e, n, id)
<1>1. e.events \in Seq(EventRecords) /\ e.outgoing \in Seq(Outgoing)
  BY DEF Typed
<1>2. Alike(e.events, n.events, id)
  BY <1>1, ForeignMoves
<1>3. ASSUME NEW t \in Seq(Outgoing)
      PROVE  Alike(t \o e.outgoing, t \o n.outgoing, id)
  BY <1>1, TwoParts, ForeignMoves
<1> QED
  BY <1>2, <1>3 DEF Unseen

\* A message that is no channel's is sent.
LEMMA UnseenSends ==
    ASSUME NEW e, Typed(e), NEW n, NEW m \in Outgoing, NEW id, Foreign(m, id),
           n.buffered = e.buffered, n.next_id = e.next_id,
           n.events = e.events, n.outgoing = Append(e.outgoing, m)
    PROVE  Unseen(e, n, id)
<1>1. e.events \in Seq(EventRecords) /\ e.outgoing \in Seq(Outgoing)
  BY DEF Typed
<1>2. Alike(e.events, n.events, id)
  BY <1>1, ForeignMoves
<1>3. ASSUME NEW t \in Seq(Outgoing)
      PROVE  Alike(t \o e.outgoing, t \o n.outgoing, id)
  <2>1. t \o e.outgoing \in Seq(Outgoing) /\ t \o n.outgoing = Append(t \o e.outgoing, m)
    BY <1>1, TwoParts
  <2> QED
    BY <2>1, ForeignMoves
<1> QED
  BY <1>2, <1>3 DEF Unseen

\* An event that is no channel's is queued, or polled.
LEMMA UnseenEvents ==
    ASSUME NEW e, Typed(e), NEW n, NEW id,
           n.buffered = e.buffered, n.next_id = e.next_id, n.outgoing = e.outgoing,
           \/ \E ev \in EventRecords : Foreign(ev, id) /\ n.events = Append(e.events, ev)
           \/ e.events # <<>> /\ Foreign(Head(e.events), id) /\ n.events = Tail(e.events)
    PROVE  Unseen(e, n, id)
<1>1. e.events \in Seq(EventRecords) /\ e.outgoing \in Seq(Outgoing)
  BY DEF Typed
<1>2. Alike(e.events, n.events, id)
  BY <1>1, ForeignMoves
<1>3. ASSUME NEW t \in Seq(Outgoing)
      PROVE  Alike(t \o e.outgoing, t \o n.outgoing, id)
  BY <1>1, TwoParts, ForeignMoves
<1> QED
  BY <1>2, <1>3 DEF Unseen

\* The calls.
LEMMA CallsUnseen ==
    ASSUME NEW e, Typed(e), NEW id \in Channels
    PROVE  /\ \A accept : Unseen(e, Decided(e, accept), id)
           /\ Unseen(e, Authenticated(e), id)
           /\ Unseen(e, NotifiedClosed(e), id)
           /\ Unseen(e, DataTaken(e), id)
           /\ e.events # <<>> /\ Foreign(Head(e.events), id) => Unseen(e, Polled(e), id)
<1>0. id \in Nat /\ id # 0
  BY ClientAssumption DEF Channels
<1>1. /\ Msg("service") \in Outgoing /\ Foreign(Msg("service"), id)
      /\ Msg("auth") \in Outgoing /\ Foreign(Msg("auth"), id)
      /\ Msg("Unrecoverable") \in EventRecords /\ Foreign(Msg("Unrecoverable"), id)
  <2>1. /\ Msg("service") \in Outgoing /\ Msg("auth") \in Outgoing
        /\ Msg("Unrecoverable") \in EventRecords
    BY DEF Msg, Outgoing, EventRecords
  <2>2. Strange(Msg("service"), id) /\ Strange(Msg("auth"), id) /\ Strange(Msg("Unrecoverable"), id)
    BY DEF Msg, Strange
  <2> QED
    BY <1>0, <2>1, <2>2, Strangers
<1>2. Unseen(e, e, id)
  BY UnseenSame
<1>3. LET n == [e EXCEPT !.phase = "Closed", !.events = Append(@, Msg("Unrecoverable"))]
      IN  Unseen(e, n, id)
  <2> DEFINE n == [e EXCEPT !.phase = "Closed", !.events = Append(@, Msg("Unrecoverable"))]
  <2>1. /\ n.buffered = e.buffered /\ n.next_id = e.next_id /\ n.outgoing = e.outgoing
        /\ n.events = Append(e.events, Msg("Unrecoverable"))
    BY DEF Typed, EngineFields
  <2> HIDE DEF n
  <2>2. Unseen(e, n, id)
    BY <1>1, <2>1, UnseenEvents
  <2> QED
    BY <2>2 DEF n
<1>4. ASSUME NEW accept
      PROVE  Unseen(e, Decided(e, accept), id)
  <2>1. CASE e.phase # "AwaitingHostKeyDecision"
    BY <1>2, <2>1 DEF Decided
  <2>2. CASE e.phase = "AwaitingHostKeyDecision" /\ accept
    <3> DEFINE n == Decided(e, accept)
    <3>1. /\ n.buffered = e.buffered /\ n.next_id = e.next_id /\ n.events = e.events
          /\ n.outgoing = Append(e.outgoing, Msg("service"))
      BY <2>2 DEF Decided, Sends, Typed, EngineFields
    <3> HIDE DEF n
    <3>2. Unseen(e, n, id)
      BY <1>1, <3>1, UnseenSends
    <3> QED
      BY <3>2 DEF n
  <2>3. CASE e.phase = "AwaitingHostKeyDecision" /\ ~accept
    BY <1>3, <2>3 DEF Decided
  <2> QED
    BY <2>1, <2>2, <2>3
<1>5. Unseen(e, Authenticated(e), id)
  <2>1. CASE e.phase # "UserAuth"
    BY <1>2, <2>1 DEF Authenticated
  <2>2. CASE e.phase = "UserAuth"
    <3> DEFINE n == Authenticated(e)
    <3>1. /\ n.buffered = e.buffered /\ n.next_id = e.next_id /\ n.events = e.events
          /\ n.outgoing = Append(e.outgoing, Msg("auth"))
      BY <2>2 DEF Authenticated, Sends, Typed, EngineFields
    <3> HIDE DEF n
    <3>2. Unseen(e, n, id)
      BY <1>1, <3>1, UnseenSends
    <3> QED
      BY <3>2 DEF n
  <2> QED
    BY <2>1, <2>2
<1>6. Unseen(e, NotifiedClosed(e), id)
  BY <1>2, <1>3 DEF NotifiedClosed
<1>7. Unseen(e, DataTaken(e), id)
  <2> DEFINE n == DataTaken(e)
  <2>1. /\ n.buffered = e.buffered /\ n.next_id = e.next_id /\ n.events = e.events
        /\ n.outgoing = e.outgoing
    BY DEF DataTaken, Typed, EngineFields
  <2> HIDE DEF n
  <2>2. Unseen(e, n, id)
    BY <2>1, UnseenSame
  <2> QED
    BY <2>2 DEF n
<1>8. ASSUME e.events # <<>>, Foreign(Head(e.events), id)
      PROVE  Unseen(e, Polled(e), id)
  <2> DEFINE n == Polled(e)
  <2>1. /\ n.buffered = e.buffered /\ n.next_id = e.next_id /\ n.events = Tail(e.events)
        /\ n.outgoing = e.outgoing
    BY DEF Polled, Typed, EngineFields
  <2> HIDE DEF n
  <2>2. Unseen(e, n, id)
    BY <1>8, <2>1, UnseenEvents
  <2> QED
    BY <2>2 DEF n
<1> QED
  BY <1>4, <1>5, <1>6, <1>7, <1>8

\* A step of the client that a channel does not see.
LEMMA UnseenTraced ==
    ASSUME TypeInv, Typed(engine'), NEW id \in Channels, TracedOn(id),
           Unseen(engine, engine', id), UNCHANGED <<to_server, to_client>>,
           chan'[id] = chan[id], output'[id] = output[id],
           promise'[id] = "resolved" <=> promise[id] = "resolved",
           id \in client'.execs => id \in client.execs
    PROVE  TracedOn(id)'
<1>1. /\ id \in Nat /\ engine.next_id \in Nat /\ engine'.next_id = engine.next_id
      /\ engine.next_id <= engine'.next_id
  BY ClientAssumption DEF Channels, TypeInv, Typed, Unseen
<1>2. Alike(Sent, Sent', id) /\ Alike(engine.events, engine'.events, id)
  BY DEF Unseen, Sent, TypeInv
<1>3. Alike(Due, Due', id)
  <2>1. Due' = Due /\ Due \in Seq(Incoming)
    BY TwoParts DEF Due, Unseen, TypeInv, Typed
  <2> QED
    BY <2>1, ForeignMoves
<1>4. Traced(Sent, Due, engine.events, engine.next_id, chan[id], output[id], promise[id],
             client.execs, id)
  BY DEF TracedOn
<1>5. Traced(Sent', Due', engine'.events, engine'.next_id, chan[id], output[id], promise'[id],
             client'.execs, id)
  <2>1. engine'.next_id \in Nat
    BY <1>1
  <2> QED
    BY <1>1, <1>2, <1>3, <1>4, <2>1, AlikeTraced
<1> QED
  BY <1>5 DEF TracedOn

-----------------------------------------------------------------------------
\* Steps on a channel's own messages.

\* Its event is handled.
LEMMA PollTraced ==
    ASSUME NEW W \in Seq(Outgoing), NEW R \in Seq(Incoming), NEW E \in Seq(EventRecords),
           NEW n \in Nat, NEW end, NEW result, NEW state, NEW execs, NEW id \in Nat,
           Traced(W, R, E, n, end, result, state, execs, id), E # <<>>,
           Head(E).id = id, NEW after, NEW state1, NEW execs1
    PROVE  /\ /\ Head(E).type = "ChannelData"
              /\ after.data = IF id \in execs THEN Append(result.data, id) ELSE result.data
              /\ after.exited = result.exited
              => Traced(W, R, Tail(E), n, end, after, state, execs, id)
           /\ /\ Head(E).type = "ChannelExitStatus"
              /\ after.data = result.data
              /\ after.exited = IF id \in execs THEN TRUE ELSE result.exited
              => Traced(W, R, Tail(E), n, end, after, state, execs, id)
           /\ /\ Head(E).type = "ChannelClosed"
              /\ state1 = IF id \in execs THEN "resolved" ELSE state
              /\ id \notin execs1
              => Traced(W, R, Tail(E), n, end, result, state1, execs1, id)
<1> DEFINE E1 == Tail(E)
<1>1. E1 \in Seq(EventRecords)
  OBVIOUS
<1>2. PICK o \in Nat, d \in Nat, x \in Nat, c \in Nat :
         /\ o = Count(W, Opening(id)) + Count(R, Opening(id))
         /\ d = Count(R, DataOf(id)) /\ x = Count(R, ExitOf(id)) /\ c = Count(R, CloseOf(id))
  BY OwnMoves, Sums
<1>3. PICK e \in Nat, f \in Nat, g \in Nat :
         e = Count(E, DataOf(id)) /\ f = Count(E, ExitOf(id)) /\ g = Count(E, CloseOf(id))
  BY OwnMoves
<1>4. PICK e1 \in Nat, f1 \in Nat, g1 \in Nat :
         e1 = Count(E1, DataOf(id)) /\ f1 = Count(E1, ExitOf(id)) /\ g1 = Count(E1, CloseOf(id))
  BY <1>1, OwnMoves
<1>5. /\ EndsClosed(R, id) /\ EndsClosed(E, id) /\ EndsClosed(E1, id)
      /\ Life(o, d, x, c, e, f, g, n, end, result, state, execs, id)
  <2>1. EndsClosed(R, id) /\ EndsClosed(E, id)
    BY DEF Traced
  <2> QED
    BY <1>2, <1>3, <2>1, OwnTail DEF Traced
<1> HIDE DEF E1
<1>6. ASSUME Head(E).type = "ChannelData",
             after.data = IF id \in execs THEN Append(result.data, id) ELSE result.data,
             after.exited = result.exited
      PROVE  Traced(W, R, E1, n, end, after, state, execs, id)
  <2>1. Adds(E1, E, 0, 1, 0, 0, id)
    BY <1>6, OwnTail DEF E1
  <2>2. e > 0 /\ e1 = e - 1 /\ f1 = f /\ g1 = g
    BY <1>3, <1>4, <2>1 DEF Adds
  <2>3. Life(o, d, x, c, e - 1, f, g, n, end, after, state, execs, id)
    BY <1>5, <1>6, <2>2, LifeHandles
  <2> QED
    BY <1>2, <1>4, <1>5, <2>2, <2>3 DEF Traced
<1>7. ASSUME Head(E).type = "ChannelExitStatus", after.data = result.data,
             after.exited = IF id \in execs THEN TRUE ELSE result.exited
      PROVE  Traced(W, R, E1, n, end, after, state, execs, id)
  <2>1. Adds(E1, E, 0, 0, 1, 0, id)
    BY <1>7, OwnTail DEF E1
  <2>2. f > 0 /\ e1 = e /\ f1 = f - 1 /\ g1 = g
    BY <1>3, <1>4, <2>1 DEF Adds
  <2>3. Life(o, d, x, c, e, f - 1, g, n, end, after, state, execs, id)
    BY <1>5, <1>7, <2>2, LifeHandles
  <2> QED
    BY <1>2, <1>4, <1>5, <2>2, <2>3 DEF Traced
<1>8. ASSUME Head(E).type = "ChannelClosed", state1 = IF id \in execs THEN "resolved" ELSE state, id \notin execs1
      PROVE  Traced(W, R, E1, n, end, result, state1, execs1, id)
  <2>1. Adds(E1, E, 0, 0, 0, 1, id) /\ NoneOf(E1, id)
    BY <1>5, <1>8, OwnTail DEF E1
  <2>2. e = 0 /\ f = 0 /\ g = 1 /\ e1 = e /\ f1 = f /\ g1 = 0
    BY <1>3, <1>4, <2>1 DEF Adds, NoneOf
  <2>3. Life(o, d, x, c, e, f, g1, n, end, result, state1, execs1, id)
    BY <1>5, <1>8, <2>2, LifeEnds
  <2> QED
    BY <1>2, <1>4, <1>5, <2>2, <2>3 DEF Traced
<1> QED
  BY <1>6, <1>7, <1>8 DEF E1

\* The server says something on it.
LEMMA SaysTraced ==
    ASSUME NEW W \in Seq(Outgoing), NEW R \in Seq(Incoming), NEW E \in Seq(EventRecords),
           NEW n \in Nat, NEW end, NEW result, NEW state, NEW execs, NEW id \in Nat,
           Traced(W, R, E, n, end, result, state, execs, id), end.open,
           NEW after, after.data \in Seq({id}), after.open \in BOOLEAN, after.exited \in BOOLEAN,
           NEW m \in Incoming, m.id = id,
           \/ m.type = "data" /\ after.data = Append(end.data, id) /\ after.exited = end.exited
           \/ m.type = "exit" /\ after.data = end.data /\ after.exited
           \/ /\ m.type = "close" /\ after.data = end.data /\ after.exited = end.exited
              /\ ~after.open
    PROVE  Traced(W, Append(R, m), E, n, after, result, state, execs, id)
<1> DEFINE R1 == Append(R, m)
<1>1. R1 \in Seq(Incoming)
  OBVIOUS
<1>2. PICK p \in Nat, p1 \in Nat, r \in Nat :
         p = Count(R, Opening(id)) /\ p1 = Count(R1, Opening(id)) /\ r = Count(W, Opening(id))
  BY <1>1, OwnMoves
<1>3. PICK o \in Nat, d \in Nat, x \in Nat, c \in Nat :
         /\ o = r + p
         /\ d = Count(R, DataOf(id)) /\ x = Count(R, ExitOf(id)) /\ c = Count(R, CloseOf(id))
  BY OwnMoves, Sums
<1>4. PICK e \in Nat, f \in Nat, g \in Nat :
         e = Count(E, DataOf(id)) /\ f = Count(E, ExitOf(id)) /\ g = Count(E, CloseOf(id))
  BY OwnMoves
<1>5. PICK d1 \in Nat, x1 \in Nat, c1 \in Nat :
         /\ d1 = Count(R1, DataOf(id)) /\ x1 = Count(R1, ExitOf(id)) /\ c1 = Count(R1, CloseOf(id))
  BY <1>1, OwnMoves
<1>6. /\ EndsClosed(R, id) /\ EndsClosed(E, id)
      /\ Life(o, d, x, c, e, f, g, n, end, result, state, execs, id)
  BY <1>2, <1>3, <1>4 DEF Traced
<1>a. c = 0
  BY <1>6 DEF Life
<1> HIDE DEF R1
<1>7. ASSUME NEW a \in Nat, NEW b \in Nat, NEW z \in Nat, Adds(R, R1, 0, a, b, z, id),
             c = 0, m.type \in {"data", "exit", "close"},
             Life(o, d + a, x + b, c + z, e, f, g, n, after, result, state, execs, id)
      PROVE  Traced(W, R1, E, n, after, result, state, execs, id)
  <2>1. d1 = d + a /\ x1 = x + b /\ c1 = c + z /\ p1 = p
    BY <1>2, <1>3, <1>5, <1>7 DEF Adds
  <2>2. EndsClosed(R1, id)
    BY <1>3, <1>6, <1>7, OwnAppend DEF R1
  <2> QED
    BY <1>2, <1>3, <1>4, <1>5, <1>6, <1>7, <2>1, <2>2 DEF Traced
<1>8. CASE m.type = "data" /\ after.data = Append(end.data, id) /\ after.exited = end.exited
  <2>1. Life(o, d + 1, x, c, e, f, g, n, after, result, state, execs, id)
    BY <1>6, <1>8, LifeWrites
  <2>2. Adds(R, R1, 0, 1, 0, 0, id)
    BY <1>8, OwnAppend DEF R1
  <2>3. x + 0 = x /\ c + 0 = c
    OBVIOUS
  <2>4. Traced(W, R1, E, n, after, result, state, execs, id)
    BY <1>a, <1>7, <1>8, <2>1, <2>2, <2>3
  <2> QED
    BY <2>4 DEF R1
<1>9. CASE m.type = "exit" /\ after.data = end.data /\ after.exited
  <2>1. Life(o, d, x + 1, c, e, f, g, n, after, result, state, execs, id)
    BY <1>6, <1>9, LifeExits
  <2>2. Adds(R, R1, 0, 0, 1, 0, id)
    BY <1>9, OwnAppend DEF R1
  <2>3. d + 0 = d /\ c + 0 = c
    OBVIOUS
  <2>4. Traced(W, R1, E, n, after, result, state, execs, id)
    BY <1>a, <1>7, <1>9, <2>1, <2>2, <2>3
  <2> QED
    BY <2>4 DEF R1
<1>10. CASE /\ m.type = "close" /\ after.data = end.data /\ after.exited = end.exited
            /\ ~after.open
  <2>1. Life(o, d, x, c + 1, e, f, g, n, after, result, state, execs, id)
    BY <1>6, <1>10, LifeCloses
  <2>2. Adds(R, R1, 0, 0, 0, 1, id)
    BY <1>10, OwnAppend DEF R1
  <2>3. d + 0 = d /\ x + 0 = x
    OBVIOUS
  <2>4. Traced(W, R1, E, n, after, result, state, execs, id)
    BY <1>a, <1>7, <1>10, <2>1, <2>2, <2>3
  <2> QED
    BY <2>4 DEF R1
<1> QED
  BY <1>8, <1>9, <1>10

\* The server reads what opens it or sets it up: the channel is open, or it is
\* not; a confirmation opens it as much as the request did.
LEMMA ReadTraced ==
    ASSUME NEW W \in Seq(Outgoing), NEW R \in Seq(Incoming), NEW E \in Seq(EventRecords),
           NEW n \in Nat, NEW end, NEW result, NEW state, NEW execs, NEW id \in Nat,
           Traced(W, R, E, n, end, result, state, execs, id), W # <<>>,
           Head(W).id = id, Head(W).type \in {"exec", "shell", "setup"}
    PROVE  /\ \A after : after.data = end.data /\ after.exited = end.exited /\ after.open \in BOOLEAN
                  => Traced(Tail(W), R, E, n, after, result, state, execs, id)
           /\ \A m \in Incoming : m.id = id /\ m.type = "confirm"
                  => Traced(Tail(W), Append(R, m), E, n, end, result, state, execs, id)
<1> DEFINE W1 == Tail(W)
<1>1. W1 \in Seq(Outgoing)
  OBVIOUS
<1>2. PICK w \in Nat, w1 \in Nat, p \in Nat :
         w = Count(W, Opening(id)) /\ w1 = Count(W1, Opening(id)) /\ p = Count(R, Opening(id))
  BY <1>1, OwnMoves
<1>3. w = w1 + 1
  <2>1. Adds(W1, W, 1, 0, 0, 0, id)
    BY OwnTail DEF W1
  <2> QED
    BY <1>2, <2>1 DEF Adds
<1>4. PICK d \in Nat, x \in Nat, c \in Nat :
         d = Count(R, DataOf(id)) /\ x = Count(R, ExitOf(id)) /\ c = Count(R, CloseOf(id))
  BY OwnMoves
<1>5. PICK e \in Nat, f \in Nat, g \in Nat :
         e = Count(E, DataOf(id)) /\ f = Count(E, ExitOf(id)) /\ g = Count(E, CloseOf(id))
  BY OwnMoves
<1>6. PICK o \in Nat : o = w + p
  BY Sums
<1>7. /\ EndsClosed(R, id) /\ EndsClosed(E, id)
      /\ Life(o, d, x, c, e, f, g, n, end, result, state, execs, id)
  BY <1>2, <1>4, <1>5, <1>6 DEF Traced
<1> HIDE DEF W1
<1>8. ASSUME NEW after, after.data = end.data, after.exited = end.exited, after.open \in BOOLEAN
      PROVE  Traced(W1, R, E, n, after, result, state, execs, id)
  <2>1. o > 0 /\ o - 1 = w1 + p
    BY <1>3, <1>6
  <2>2. after.data \in Seq({id}) /\ after.exited \in BOOLEAN
    BY <1>7, <1>8 DEF Life
  <2>3. Life(o - 1, d, x, c, e, f, g, n, after, result, state, execs, id)
    BY <1>7, <1>8, <2>1, <2>2, LifeSetUp
  <2> QED
    BY <1>2, <1>4, <1>5, <1>7, <2>1, <2>3 DEF Traced
<1>9. ASSUME NEW m \in Incoming, m.id = id, m.type = "confirm"
      PROVE  Traced(W1, Append(R, m), E, n, end, result, state, execs, id)
  <2> DEFINE R1 == Append(R, m)
  <2>1. Adds(R, R1, 1, 0, 0, 0, id) /\ EndsClosed(R1, id)
    BY <1>7, <1>9, OwnAppend
  <2> HIDE DEF R1
  <2>2. /\ Count(R1, Opening(id)) = p + 1
        /\ Count(R1, DataOf(id)) = d /\ Count(R1, ExitOf(id)) = x /\ Count(R1, CloseOf(id)) = c
    BY <1>2, <1>4, <2>1 DEF Adds
  <2>3. w1 + (p + 1) = o
    BY <1>3, <1>6
  <2>4. Count(W1, Opening(id)) + Count(R1, Opening(id)) = o
    BY <1>2, <2>2, <2>3
  <2> QED
    BY <1>5, <1>7, <2>1, <2>2, <2>4 DEF Traced, R1
<1> QED
  BY <1>8, <1>9 DEF W1

\* It is opened, under the next number.
LEMMA OpenTraced ==
    ASSUME NEW W \in Seq(Outgoing), NEW R \in Seq(Incoming), NEW E \in Seq(EventRecords),
           NEW end, NEW result, NEW state, NEW execs, NEW id \in Nat,
           Traced(W, R, E, id, end, result, state, execs, id),
           NEW m \in Outgoing, m.id = id, m.type \in {"exec", "shell"},
           NEW n1, n1 = id + 1, NEW state1, state1 # "resolved", NEW execs1
    PROVE  Traced(Append(W, m), R, E, n1, end, result, state1, execs1, id)
<1> DEFINE W1 == Append(W, m)
<1>1. W1 \in Seq(Outgoing)
  OBVIOUS
<1>2. PICK w \in Nat, w1 \in Nat, p \in Nat :
         w = Count(W, Opening(id)) /\ w1 = Count(W1, Opening(id)) /\ p = Count(R, Opening(id))
  BY <1>1, OwnMoves
<1>3. w1 = w + 1
  <2>1. Adds(W, W1, 1, 0, 0, 0, id)
    BY OwnAppend DEF W1
  <2> QED
    BY <1>2, <2>1 DEF Adds
<1>4. PICK d \in Nat, x \in Nat, c \in Nat :
         d = Count(R, DataOf(id)) /\ x = Count(R, ExitOf(id)) /\ c = Count(R, CloseOf(id))
  BY OwnMoves
<1>5. PICK e \in Nat, f \in Nat, g \in Nat :
         e = Count(E, DataOf(id)) /\ f = Count(E, ExitOf(id)) /\ g = Count(E, CloseOf(id))
  BY OwnMoves
<1>6. PICK o \in Nat : o = w + p
  BY Sums
<1>7. /\ EndsClosed(R, id) /\ EndsClosed(E, id)
      /\ Life(o, d, x, c, e, f, g, id, end, result, state, execs, id)
  BY <1>2, <1>4, <1>5, <1>6 DEF Traced
<1> HIDE DEF W1
<1>8. Life(o + 1, d, x, c, e, f, g, id + 1, end, result, state1, execs1, id)
  BY <1>7, LifeOpens
<1>9. w1 + p = o + 1
  BY <1>3, <1>6
<1>10. Traced(W1, R, E, n1, end, result, state1, execs1, id)
  BY <1>2, <1>4, <1>5, <1>7, <1>8, <1>9 DEF Traced
<1> QED
  BY <1>10 DEF W1

-----------------------------------------------------------------------------
\* The client's steps.

\* The channels are numbers.
LEMMA ChannelIds == Channels \subseteq Nat \ {0}
BY ClientAssumption DEF Channels

\* The queues are sequences.
LEMMA QueuesTyped ==
    ASSUME TypeInv
    PROVE  /\ Sent \in Seq(Outgoing) /\ Due \in Seq(Incoming)
           /\ engine.events \in Seq(EventRecords) /\ engine.next_id \in Nat
BY TwoParts DEF TypeInv, Typed, Sent, Due

\* No channel sees the step, and no promise or result changes.
LEMMA QuietTraced ==
    ASSUME TypeInv, TraceInv, Typed(engine'),
           \A id \in Channels : Unseen(engine, engine', id),
           UNCHANGED <<to_server, serverVars, promise, output>>,
           client'.execs = client.execs
    PROVE  TraceInv'
<1>1. ASSUME NEW id \in Channels
      PROVE  TracedOn(id)'
  BY UnseenTraced DEF TraceInv, serverVars
<1> QED
  BY <1>1 DEF TraceInv, Shaped, serverVars

\* Nothing happens to the engine.
LEMMA IdleTraced ==
    ASSUME TypeInv, TraceInv, UNCHANGED <<engine, to_server, serverVars, promise, output>>,
           client'.execs = client.execs
    PROVE  TraceInv'
<1>1. \A id \in Channels : Unseen(engine, engine', id)
  BY UnseenSame DEF TypeInv
<1> QED
  BY <1>1, QuietTraced DEF TypeInv

\* The event at the head, and who does not see it.
LEMMA HeadEvent ==
    ASSUME TypeInv, NEW type, Handles(type)
    PROVE  /\ engine.events # <<>> /\ Event \in EventRecords /\ Event.type = type
           /\ Event = Head(engine.events)
           /\ \A id \in Channels :
                 \/ Event.id # id
                 \/ type \notin {"ChannelData", "ChannelExitStatus", "ChannelClosed"}
                 => Foreign(Event, id)
           /\ Typed(Polled(engine)) /\ Typed(DataTaken(Polled(engine)))
<1>1. /\ engine.events # <<>> /\ Event \in EventRecords /\ Event.type = type
      /\ Event = Head(engine.events)
  BY DEF Handles, Event, TypeInv, Typed
<1>2. ASSUME NEW id \in Channels,
             Event.id # id \/ type \notin {"ChannelData", "ChannelExitStatus", "ChannelClosed"}
      PROVE  Foreign(Event, id)
  <2>1. type \notin {"exec", "shell", "setup", "confirm", "data", "exit", "close"}
    BY <1>1 DEF EventRecords
  <2>2. Strange(Event, id)
    BY <1>1, <1>2, <2>1 DEF Strange
  <2> QED
    BY <1>1, <2>2, ChannelIds, Strangers
<1>3. Typed(Polled(engine)) /\ Typed(DataTaken(Polled(engine)))
  BY <1>1, PollTyped, TakeTyped DEF TypeInv
<1> QED
  BY <1>1, <1>2, <1>3

\* Another event is polled, and what the engine is asked behind it.
LEMMA PollUnseen ==
    ASSUME TypeInv, NEW type, Handles(type), NEW id \in Channels,
           \/ Event.id # id
           \/ type \notin {"ChannelData", "ChannelExitStatus", "ChannelClosed"}
    PROVE  /\ Unseen(engine, Polled(engine), id)
           /\ Unseen(engine, DataTaken(Polled(engine)), id)
           /\ \A accept : Unseen(engine, Decided(DataTaken(Polled(engine)), accept), id)
           /\ Unseen(engine, Authenticated(Polled(engine)), id)
<1> DEFINE p == Polled(engine)
           t == DataTaken(p)
<1>1. Typed(p) /\ Typed(t) /\ Unseen(engine, p, id)
  BY HeadEvent, CallsUnseen DEF TypeInv
<1>2. Unseen(p, t, id) /\ Unseen(p, Authenticated(p), id)
  BY <1>1, CallsUnseen
<1>3. \A accept : Unseen(t, Decided(t, accept), id)
  BY <1>1, CallsUnseen
<1> HIDE DEF p, t
<1>4. Unseen(engine, t, id) /\ Unseen(engine, Authenticated(p), id)
  BY <1>1, <1>2, UnseenOn
<1>5. \A accept : Unseen(engine, Decided(t, accept), id)
  BY <1>3, <1>4, UnseenOn
<1> QED
  BY <1>1, <1>4, <1>5 DEF p, t

\* One message is driven.
LEMMA DriveStepTraced ==
    ASSUME TypeInv, TraceInv, DriveGoesOn(engine), engine' = DriveOne(engine),
           UNCHANGED <<to_server, serverVars, promise, output>>, client'.execs = client.execs
    PROVE  TraceInv'
<1> DEFINE m == Head(engine.buffered)
           ev == ChannelMsg(EventOf[m.type], m.id)
           req == ChannelMsg("setup", m.id)
<1>1. /\ m \in Incoming /\ engine.buffered \in Seq(Incoming) /\ engine.buffered # <<>>
      /\ engine.outgoing \in Seq(Outgoing) /\ to_server \in Seq(Outgoing)
      /\ to_client \in Seq(Incoming)
  BY DEF DriveGoesOn, TypeInv, Typed
<1>2. /\ engine'.buffered = Tail(engine.buffered) /\ engine'.next_id = engine.next_id
      /\ engine'.events = Append(engine.events, ev)
      /\ engine'.outgoing = IF m.type = "confirm" THEN Append(engine.outgoing, req)
                            ELSE engine.outgoing
  BY DEF DriveOne, TypeInv, Typed, EngineFields
<1>3. ev \in EventRecords
  <2>1. EventOf[m.type] \in
        {"HostKeyVerify", "ReadyForAuth", "AuthFailure", "AuthFailureNoPassword",
         "AuthSuccess", "ChannelOpened", "ChannelOpenFailed", "ChannelData",
         "ChannelExitStatus", "ChannelClosed", "Disconnected", "Unrecoverable"}
    BY <1>1 DEF EventOf, Incoming
  <2>2. EventOf[m.type] = "ChannelOpenFailed" => m.id # 0
    BY <1>1 DEF EventOf, Incoming
  <2>3. m.id \in Nat
    BY <1>1 DEF Incoming
  <2> HIDE DEF m
  <2> QED
    BY <2>1, <2>2, <2>3 DEF EventRecords, ChannelMsg
<1>4. m.type = "confirm" => req \in Outgoing
  BY <1>1 DEF ChannelMsg, Outgoing, Incoming
<1> HIDE DEF ev, req
<1>5. /\ Due # <<>> /\ Head(Due) = m /\ Due' = Tail(Due)
  <2>1. /\ engine.buffered \o to_client # <<>>
        /\ Head(engine.buffered \o to_client) = Head(engine.buffered)
        /\ Tail(engine.buffered \o to_client) = Tail(engine.buffered) \o to_client
    BY <1>1, TwoParts
  <2>2. to_client' = to_client
    BY DEF serverVars
  <2> QED
    BY <1>2, <2>1, <2>2 DEF Due
<1>6. Sent' = IF m.type = "confirm" THEN Append(Sent, req) ELSE Sent
  <2>1. m.type = "confirm" => to_server \o Append(engine.outgoing, req) = Append(Sent, req)
    BY <1>1, <1>4, TwoParts DEF Sent
  <2> QED
    BY <1>2, <2>1 DEF Sent
<1>7. ASSUME NEW id \in Channels
      PROVE  TracedOn(id)'
  <2>1. Traced(Sent, Due, engine.events, engine.next_id, chan[id], output[id], promise[id],
               client.execs, id)
    BY DEF TraceInv, TracedOn
  <2>2. Traced(Sent', Tail(Due), Append(engine.events, ev), engine.next_id, chan[id], output[id],
               promise[id], client.execs, id)
    BY <1>3, <1>5, <1>6, <2>1, QueuesTyped, ChannelIds, DriveTraced DEF ev, req
  <2> QED
    BY <1>2, <1>5, <2>2 DEF TracedOn, serverVars
<1> QED
  BY <1>7 DEF TraceInv, Shaped, serverVars

\* What was to be sent is handed over: a message stays in line.
LEMMA FlushTraced ==
    ASSUME TypeInv, TraceInv, engine' = Taken(engine), to_server' = to_server \o engine.outgoing,
           UNCHANGED <<serverVars, promise, output>>, client'.execs = client.execs
    PROVE  TraceInv'
<1>1. /\ engine'.outgoing = <<>> /\ engine'.buffered = engine.buffered
      /\ engine'.events = engine.events /\ engine'.next_id = engine.next_id
  BY DEF Taken, TypeInv, Typed, EngineFields
<1>2. Sent' = Sent
  <2>1. Sent' = Sent \o <<>>
    BY <1>1 DEF Sent
  <2> QED
    BY <2>1, QueuesTyped
<1>3. Due' = Due
  BY <1>1 DEF Due, serverVars
<1>4. ASSUME NEW id \in Channels
      PROVE  TracedOn(id)'
  BY <1>1, <1>2, <1>3 DEF TraceInv, TracedOn, serverVars
<1> QED
  BY <1>4 DEF TraceInv, Shaped, serverVars

\* A promise that is resolved is no longer waited for, and one of a number still
\* to come is not resolved.
LEMMA Unresolved ==
    ASSUME TraceInv, NEW id \in Channels, id \in client.execs \/ id >= engine.next_id
    PROVE  promise[id] # "resolved"
BY DEF TraceInv, TracedOn, Traced, Life

\* A channel is opened.
LEMMA OpenStepTraced ==
    ASSUME TypeInv, TraceInv, NEW kind \in {"exec", "shell"}, engine' = Opened(engine, kind),
           UNCHANGED <<to_server, serverVars, output>>,
           \A id \in Channels : id # engine.next_id =>
                promise'[id] = promise[id] /\ (id \in client'.execs => id \in client.execs),
           engine.next_id \in Channels => promise'[engine.next_id] # "resolved"
    PROVE  TraceInv'
<1> DEFINE m == ChannelMsg(kind, engine.next_id)
<1>1. /\ engine'.outgoing = Append(engine.outgoing, m) /\ engine'.buffered = engine.buffered
      /\ engine'.events = engine.events /\ engine'.next_id = engine.next_id + 1
  BY DEF Opened, Sends, TypeInv, Typed, EngineFields
<1>2. m \in Outgoing /\ m.id = engine.next_id /\ m.type = kind
  BY DEF ChannelMsg, Outgoing, TypeInv, Typed
<1> HIDE DEF m
<1>3. Sent' = Append(Sent, m)
  <2>1. to_server \o Append(engine.outgoing, m) = Append(to_server \o engine.outgoing, m)
    BY <1>2, TwoParts DEF TypeInv, Typed
  <2> QED
    BY <1>1, <2>1 DEF Sent
<1>4. Due' = Due
  BY <1>1 DEF Due, serverVars
<1>5. PICK n \in Nat : n = engine.next_id
  BY QueuesTyped
<1>6. ASSUME NEW id \in Channels
      PROVE  TracedOn(id)'
  <2>1. Traced(Sent, Due, engine.events, n, chan[id], output[id], promise[id],
               client.execs, id)
    BY <1>5 DEF TraceInv, TracedOn
  <2>2. id \in Nat /\ n + 1 \in Nat /\ n <= n + 1
    BY <1>5, ChannelIds
  <2>3. CASE id = n
    <3>1. m.id = id /\ m.type \in {"exec", "shell"} /\ promise'[id] # "resolved"
      BY <1>2, <1>5, <2>3
    <3>2. Traced(Append(Sent, m), Due, engine.events, n + 1, chan[id], output[id], promise'[id],
                 client'.execs, id)
      BY <1>2, <2>1, <2>2, <2>3, <3>1, QueuesTyped, OpenTraced
    <3> QED
      BY <1>1, <1>3, <1>4, <1>5, <3>2 DEF TracedOn, serverVars
  <2>4. CASE id # n
    <3>1. Foreign(m, id)
      BY <1>2, <1>5, <2>2, <2>4, Strangers DEF Strange
    <3>2. /\ Alike(Sent, Append(Sent, m), id) /\ Alike(Due, Due, id)
          /\ Alike(engine.events, engine.events, id)
      BY <1>2, <3>1, QueuesTyped, ForeignMoves
    <3>3. promise'[id] = promise[id] /\ (id \in client'.execs => id \in client.execs)
      BY <1>5, <2>4
    <3>4. Traced(Append(Sent, m), Due, engine.events, n + 1, chan[id], output[id], promise'[id],
                 client'.execs, id)
      BY <2>1, <2>2, <3>2, <3>3, AlikeTraced
    <3> QED
      BY <1>1, <1>3, <1>4, <1>5, <3>4 DEF TracedOn, serverVars
  <2> QED
    BY <2>3, <2>4
<1> QED
  BY <1>6 DEF TraceInv, Shaped, serverVars

\* The end of the session: every command that is waited for is rejected.
LEMMA SettleTraced ==
    ASSUME TypeInv, TraceInv, RejectAll, client'.execs = {},
           UNCHANGED <<engine, to_server, serverVars, output>>
    PROVE  TraceInv'
<1>1. ASSUME NEW id \in Channels
      PROVE  TracedOn(id)'
  <2>1. promise'[id] = IF id \in client.execs THEN "rejected" ELSE promise[id]
    BY DEF RejectAll
  <2>2. promise'[id] = "resolved" <=> promise[id] = "resolved"
    BY <2>1, Unresolved
  <2>3. Unseen(engine, engine', id)
    BY UnseenSame DEF TypeInv
  <2> QED
    BY <2>2, <2>3, UnseenTraced DEF TraceInv, TypeInv, serverVars
<1> QED
  BY <1>1 DEF TraceInv, Shaped, serverVars

\* What an engine keeps when an event is polled.
LEMMA PolledFields ==
    ASSUME TypeInv, NEW e, e = Polled(engine) \/ e = DataTaken(Polled(engine))
    PROVE  /\ e.events = Tail(engine.events) /\ e.next_id = engine.next_id
           /\ e.buffered = engine.buffered /\ e.outgoing = engine.outgoing
<1> DEFINE p == Polled(engine)
<1>1. /\ p.events = Tail(engine.events) /\ p.next_id = engine.next_id
      /\ p.buffered = engine.buffered /\ p.outgoing = engine.outgoing
      /\ DOMAIN p = EngineFields
  BY DEF Polled, TypeInv, Typed, EngineFields
<1> HIDE DEF p
<1>2. LET t == DataTaken(p)
      IN  /\ t.events = p.events /\ t.next_id = p.next_id
          /\ t.buffered = p.buffered /\ t.outgoing = p.outgoing
  BY <1>1 DEF DataTaken, EngineFields
<1> QED
  BY <1>1, <1>2 DEF p

\* The event of a channel is handled, as that channel sees it.
LEMMA OwnEvent ==
    ASSUME TypeInv, NEW type, Handles(type), NEW id \in Channels, Event.id = id, TracedOn(id),
           engine' = Polled(engine) \/ engine' = DataTaken(Polled(engine)),
           UNCHANGED <<to_server, serverVars>>,
           \/ /\ type = "ChannelData"
              /\ output'[id].data = IF id \in client.execs THEN Append(output[id].data, id)
                                    ELSE output[id].data
              /\ output'[id].exited = output[id].exited
              /\ UNCHANGED promise /\ client'.execs = client.execs
           \/ /\ type = "ChannelExitStatus"
              /\ output'[id].data = output[id].data
              /\ output'[id].exited = IF id \in client.execs THEN TRUE ELSE output[id].exited
              /\ UNCHANGED promise /\ client'.execs = client.execs
           \/ /\ type = "ChannelClosed"
              /\ promise'[id] = IF id \in client.execs THEN "resolved" ELSE promise[id]
              /\ id \notin client'.execs
              /\ UNCHANGED output
    PROVE  TracedOn(id)'
<1>1. /\ engine'.events = Tail(engine.events) /\ engine'.next_id = engine.next_id
      /\ Sent' = Sent /\ Due' = Due
  BY PolledFields DEF Sent, Due, serverVars
<1>2. /\ engine.events # <<>> /\ Head(engine.events).id = id /\ Head(engine.events).type = type
  BY HeadEvent
<1>3. Traced(Sent, Due, engine.events, engine.next_id, chan[id], output[id], promise[id],
             client.execs, id)
  BY DEF TracedOn
<1>4. chan' = chan
  BY DEF serverVars
<1>5. CASE /\ type = "ChannelData"
           /\ output'[id].data = IF id \in client.execs THEN Append(output[id].data, id)
                                 ELSE output[id].data
           /\ output'[id].exited = output[id].exited
           /\ UNCHANGED promise /\ client'.execs = client.execs
  <2>1. Traced(Sent, Due, Tail(engine.events), engine.next_id, chan[id], output'[id], promise[id],
               client.execs, id)
    BY <1>2, <1>3, <1>5, QueuesTyped, ChannelIds, PollTraced
  <2> QED
    BY <1>1, <1>4, <1>5, <2>1 DEF TracedOn
<1>6. CASE /\ type = "ChannelExitStatus"
           /\ output'[id].data = output[id].data
           /\ output'[id].exited = IF id \in client.execs THEN TRUE ELSE output[id].exited
           /\ UNCHANGED promise /\ client'.execs = client.execs
  <2>1. Traced(Sent, Due, Tail(engine.events), engine.next_id, chan[id], output'[id], promise[id],
               client.execs, id)
    BY <1>2, <1>3, <1>6, QueuesTyped, ChannelIds, PollTraced
  <2> QED
    BY <1>1, <1>4, <1>6, <2>1 DEF TracedOn
<1>7. CASE /\ type = "ChannelClosed"
           /\ promise'[id] = IF id \in client.execs THEN "resolved" ELSE promise[id]
           /\ id \notin client'.execs
           /\ UNCHANGED output
  <2>1. Traced(Sent, Due, Tail(engine.events), engine.next_id, chan[id], output[id], promise'[id],
               client'.execs, id)
    BY <1>2, <1>3, <1>7, QueuesTyped, ChannelIds, PollTraced
  <2> QED
    BY <1>1, <1>4, <1>7, <2>1 DEF TracedOn
<1> QED
  BY <1>5, <1>6, <1>7

\* Output is collected.
LEMMA DataStepTraced ==
    ASSUME TypeInv, TraceInv, HandleData, UNCHANGED serverVars
    PROVE  TraceInv'
<1>1. /\ Handles("ChannelData") /\ engine' = DataTaken(Polled(engine))
      /\ output' = IF Event.id \in client.execs
                   THEN [output EXCEPT ![Event.id].data = @ \o EventData(Polled(engine))]
                   ELSE output
      /\ UNCHANGED <<client, promise, to_server>>
  BY DEF HandleData
<1>2. EventData(Polled(engine)) = <<Event.id>>
  <2>1. Head(engine.events).type = "ChannelData" /\ Event = Head(engine.events)
    BY <1>1, HeadEvent
  <2> QED
    BY <2>1 DEF EventData, Polled, TypeInv, Typed, EngineFields
<1>3. Typed(engine')
  BY <1>1, HeadEvent
<1>4. ASSUME NEW id \in Channels
      PROVE  TracedOn(id)'
  <2>1. TracedOn(id) /\ DOMAIN output = Channels /\ DOMAIN output[id] = {"data", "exited"}
    BY DEF TraceInv, Shaped
  <2>2. CASE Event.id = id
    <3>1. output[id].data \in Seq({id})
      BY <2>1 DEF TracedOn, Traced, Life
    <3>2. output[id].data \o <<id>> = Append(output[id].data, id)
      BY <3>1, AppendIsConcat
    <3>3. output'[id].data = IF id \in client.execs THEN Append(output[id].data, id)
                             ELSE output[id].data
      BY <1>1, <1>2, <2>1, <2>2, <3>2
    <3>4. output'[id].exited = output[id].exited
      BY <1>1, <2>1, <2>2
    <3>5. UNCHANGED promise /\ client'.execs = client.execs /\ UNCHANGED <<to_server, serverVars>>
      BY <1>1
    <3> QED
      BY <1>1, <2>1, <2>2, <3>3, <3>4, <3>5, OwnEvent
  <2>3. CASE Event.id # id
    <3>1. output'[id] = output[id]
      BY <1>1, <2>1, <2>3
    <3>2. Unseen(engine, engine', id)
      BY <1>1, <2>3, PollUnseen
    <3>3. /\ promise'[id] = promise[id] /\ client'.execs = client.execs /\ chan'[id] = chan[id]
          /\ UNCHANGED <<to_server, to_client>>
      BY <1>1 DEF serverVars
    <3> QED
      BY <1>3, <2>1, <3>1, <3>2, <3>3, UnseenTraced
  <2> QED
    BY <2>2, <2>3
<1>5. Shaped'
  BY <1>1 DEF TraceInv, Shaped, serverVars
<1> QED
  BY <1>4, <1>5 DEF TraceInv

\* An exit status is noted.
LEMMA ExitStepTraced ==
    ASSUME TypeInv, TraceInv, HandleExitStatus, UNCHANGED serverVars
    PROVE  TraceInv'
<1>1. /\ Handles("ChannelExitStatus") /\ engine' = Polled(engine)
      /\ output' = IF Event.id \in client.execs
                   THEN [output EXCEPT ![Event.id].exited = TRUE] ELSE output
      /\ UNCHANGED <<client, promise, to_server>>
  BY DEF HandleExitStatus
<1>2. Typed(engine')
  BY <1>1, HeadEvent
<1>3. ASSUME NEW id \in Channels
      PROVE  TracedOn(id)'
  <2>1. TracedOn(id) /\ DOMAIN output = Channels /\ DOMAIN output[id] = {"data", "exited"}
    BY DEF TraceInv, Shaped
  <2>2. CASE Event.id = id
    <3>1. output'[id].data = output[id].data
      BY <1>1, <2>1, <2>2
    <3>2. output'[id].exited = IF id \in client.execs THEN TRUE ELSE output[id].exited
      BY <1>1, <2>1, <2>2
    <3>3. UNCHANGED promise /\ client'.execs = client.execs /\ UNCHANGED <<to_server, serverVars>>
      BY <1>1
    <3> QED
      BY <1>1, <2>1, <2>2, <3>1, <3>2, <3>3, OwnEvent
  <2>3. CASE Event.id # id
    <3>1. output'[id] = output[id]
      BY <1>1, <2>1, <2>3
    <3>2. Unseen(engine, engine', id)
      BY <1>1, <2>3, PollUnseen
    <3>3. /\ promise'[id] = promise[id] /\ client'.execs = client.execs /\ chan'[id] = chan[id]
          /\ UNCHANGED <<to_server, to_client>>
      BY <1>1 DEF serverVars
    <3> QED
      BY <1>2, <2>1, <3>1, <3>2, <3>3, UnseenTraced
  <2> QED
    BY <2>2, <2>3
<1>4. Shaped'
  BY <1>1 DEF TraceInv, Shaped, serverVars
<1> QED
  BY <1>3, <1>4 DEF TraceInv

\* A channel's promise is settled, and the others are not touched.
LEMMA SettledOne ==
    ASSUME CloseInv, PromiseInv, NEW how, Settled(how)
    PROVE  /\ client'.execs = client.execs \ {Event.id}
           /\ \A id \in Channels :
                 promise'[id] = IF id = Event.id /\ id \in client.execs THEN how ELSE promise[id]
<1>1. client'.execs = client.execs \ {Event.id}
  BY DEF Settled, CloseInv, ClientFields
<1>2. ASSUME NEW id \in Channels
      PROVE  promise'[id] = IF id = Event.id /\ id \in client.execs THEN how ELSE promise[id]
  BY DEF Settled, PromiseInv
<1> QED
  BY <1>1, <1>2

\* exec() is refused.
LEMMA FailStepTraced ==
    ASSUME CloseInv, PromiseInv, TypeInv, TraceInv, HandleOpenFailed, UNCHANGED serverVars
    PROVE  TraceInv'
<1>1. /\ Handles("ChannelOpenFailed") /\ engine' = Polled(engine) /\ Settled("rejected")
      /\ UNCHANGED <<output, to_server>>
  BY DEF HandleOpenFailed
<1>2. Typed(engine')
  BY <1>1, HeadEvent
<1>3. ASSUME NEW id \in Channels
      PROVE  TracedOn(id)'
  <2>1. promise'[id] = IF id = Event.id /\ id \in client.execs THEN "rejected" ELSE promise[id]
    BY <1>1, SettledOne
  <2>2. promise'[id] = "resolved" <=> promise[id] = "resolved"
    BY <2>1, Unresolved
  <2>3. Unseen(engine, engine', id)
    BY <1>1, PollUnseen
  <2>4. id \in client'.execs => id \in client.execs
    BY <1>1, SettledOne
  <2>5. TracedOn(id) /\ chan'[id] = chan[id] /\ UNCHANGED <<to_server, to_client>>
    BY <1>1 DEF TraceInv, serverVars
  <2> QED
    BY <1>1, <1>2, <2>2, <2>3, <2>4, <2>5, UnseenTraced
<1> QED
  BY <1>1, <1>3 DEF TraceInv, Shaped, serverVars

\* exec() is over.
LEMMA ClosedStepTraced ==
    ASSUME CloseInv, PromiseInv, TypeInv, TraceInv, HandleChannelClosed, UNCHANGED serverVars
    PROVE  TraceInv'
<1>1. /\ Handles("ChannelClosed") /\ engine' = Polled(engine) /\ Settled("resolved")
      /\ UNCHANGED <<output, to_server>>
  BY DEF HandleChannelClosed
<1>2. Typed(engine')
  BY <1>1, HeadEvent
<1>3. ASSUME NEW id \in Channels
      PROVE  TracedOn(id)'
  <2>1. promise'[id] = IF id = Event.id /\ id \in client.execs THEN "resolved" ELSE promise[id]
    BY <1>1, SettledOne
  <2>2. client'.execs = client.execs \ {Event.id}
    BY <1>1, SettledOne
  <2>3. TracedOn(id) /\ chan'[id] = chan[id] /\ UNCHANGED <<to_server, to_client>>
    BY <1>1 DEF TraceInv, serverVars
  <2>4. CASE Event.id = id
    BY <1>1, <2>1, <2>2, <2>3, <2>4, OwnEvent
  <2>5. CASE Event.id # id
    <3>1. Unseen(engine, engine', id)
      BY <1>1, <2>5, PollUnseen
    <3> QED
      BY <1>1, <1>2, <2>1, <2>2, <2>3, <2>5, <3>1, UnseenTraced
  <2> QED
    BY <2>4, <2>5
<1> QED
  BY <1>1, <1>3 DEF TraceInv, Shaped, serverVars

\* The frames.
LEMMA RunTraced ==
    ASSUME CloseInv, PromiseInv, TypeInv, TraceInv, Typed(engine'), Run, UNCHANGED serverVars
    PROVE  TraceInv'
<1>0. DOMAIN client = ClientFields /\ Typed(engine)
  BY DEF CloseInv, TypeInv
<1>1. CASE Drive
  <2>1. UNCHANGED <<to_server, serverVars, promise, output>> /\ client'.execs = client.execs
    BY <1>1 DEF Drive, Results
  <2>2. CASE DriveGoesOn(engine) /\ engine' = DriveOne(engine)
    BY <2>1, <2>2, DriveStepTraced
  <2>3. CASE UNCHANGED engine
    BY <2>1, <2>3, IdleTraced
  <2> QED
    BY <1>1, <2>2, <2>3 DEF Drive
<1>2. CASE FlushOutgoing
  BY <1>2, FlushTraced DEF FlushOutgoing, Results
<1>3. CASE PolledAll
  BY <1>3, IdleTraced DEF PolledAll, Results
<1>4. CASE Returns
  BY <1>4, IdleTraced DEF Returns, Results
<1>5. CASE Prompt
  <2>1. client'.execs = client.execs
    BY <1>0, <1>5 DEF Prompt, ClientFields
  <2> QED
    BY <1>5, <2>1, IdleTraced DEF Prompt, Results
<1>6. CASE Submit
  <2>1. /\ engine' = Authenticated(engine) /\ client'.execs = client.execs
        /\ UNCHANGED <<to_server, serverVars, promise, output>>
    BY <1>6 DEF Submit, Results
  <2>2. \A id \in Channels : Unseen(engine, engine', id)
    BY <1>0, <2>1, CallsUnseen
  <2> QED
    BY <2>1, <2>2, QuietTraced
<1>7. CASE OpenShell
  <2>1. UNCHANGED <<to_server, serverVars, promise, output>> /\ client'.execs = client.execs
    BY <1>0, <1>7 DEF OpenShell, Results, ClientFields
  <2>2. CASE options.autoShell
    <3>1. engine' = Opened(engine, "shell")
      BY <1>7, <2>2 DEF OpenShell
    <3>2. engine.next_id \in Channels => promise'[engine.next_id] # "resolved"
      BY <2>1, Unresolved, QueuesTyped
    <3> QED
      BY <2>1, <3>1, <3>2, OpenStepTraced
  <2>3. CASE ~options.autoShell
    BY <1>7, <2>1, <2>3, IdleTraced DEF OpenShell
  <2> QED
    BY <2>2, <2>3
<1>8. CASE Shutdown
  BY <1>8, IdleTraced DEF Shutdown, Results
<1>9. CASE Settle
  <2>1. client'.execs = {}
    BY <1>0, <1>9 DEF Settle, ClientFields
  <2> QED
    BY <1>9, <2>1, SettleTraced DEF Settle
<1>10. CASE HandleHostKeyVerify
  <2>1. /\ Handles("HostKeyVerify") /\ client'.execs = client.execs
        /\ UNCHANGED <<to_server, serverVars, promise, output>>
        /\ \/ engine' = DataTaken(Polled(engine))
           \/ engine' = Decided(DataTaken(Polled(engine)), TRUE)
    BY <1>0, <1>10 DEF HandleHostKeyVerify, Results, ClientFields
  <2>2. ASSUME NEW id \in Channels PROVE Unseen(engine, engine', id)
    <3>1. /\ Unseen(engine, DataTaken(Polled(engine)), id)
          /\ \A accept : Unseen(engine, Decided(DataTaken(Polled(engine)), accept), id)
      BY <2>1, PollUnseen
    <3>2. Unseen(engine, Decided(DataTaken(Polled(engine)), TRUE), id)
      BY <3>1
    <3> QED
      BY <2>1, <3>1, <3>2
  <2> QED
    BY <2>1, <2>2, QuietTraced
<1>11. CASE HandleReadyForAuth
  <2>1. /\ Handles("ReadyForAuth") /\ client'.execs = client.execs
        /\ UNCHANGED <<to_server, serverVars, promise, output>>
        /\ engine' = Polled(engine) \/ engine' = Authenticated(Polled(engine))
    BY <1>11 DEF HandleReadyForAuth, Results
  <2>2. \A id \in Channels : Unseen(engine, engine', id)
    BY <2>1, PollUnseen
  <2> QED
    BY <2>1, <2>2, QuietTraced
<1>a. ASSUME NEW type, Handles(type),
             type \notin {"ChannelData", "ChannelExitStatus", "ChannelClosed"},
             engine' = Polled(engine), UNCHANGED <<client, to_server, serverVars, promise, output>>
      PROVE  TraceInv'
  <2>1. \A id \in Channels : Unseen(engine, engine', id)
    BY <1>a, PollUnseen
  <2> QED
    BY <1>a, <2>1, QuietTraced
<1>12. CASE HandleAuthFailure
  BY <1>12, <1>a DEF HandleAuthFailure, Results
<1>13. CASE HandleAuthSuccess
  BY <1>13, <1>a DEF HandleAuthSuccess, Results
<1>14. CASE HandleOpenFailed
  BY <1>14, FailStepTraced
<1>15. CASE HandleData
  BY <1>15, DataStepTraced
<1>16. CASE HandleExitStatus
  BY <1>16, ExitStepTraced
<1>17. CASE HandleChannelClosed
  BY <1>17, ClosedStepTraced
<1>18. CASE HandleTerminal
  BY <1>18, <1>a DEF HandleTerminal, Results
<1>19. CASE HandleOther
  BY <1>19, <1>a DEF HandleOther, Results
<1> QED
  BY <1>1, <1>2, <1>3, <1>4, <1>5, <1>6, <1>7, <1>8, <1>9, <1>10,
     <1>11, <1>12, <1>13, <1>14, <1>15, <1>16, <1>17, <1>18, <1>19 DEF Run

\* The user's calls.
LEMMA CallsTraced ==
    ASSUME CloseInv, PromiseInv, TypeInv, TraceInv, Typed(engine'), UNCHANGED serverVars,
           \/ Close \/ Exec \/ Enter \/ CtrlC
           \/ \E accept \in BOOLEAN : VerifierAnswers(accept)
    PROVE  TraceInv'
<1>0. DOMAIN client = ClientFields /\ Typed(engine) /\ DOMAIN promise = Channels
  BY DEF CloseInv, TypeInv, PromiseInv
<1>1. CASE Close
  <2>1. /\ engine' = NotifiedClosed(engine) /\ client'.execs = client.execs
        /\ UNCHANGED <<to_server, serverVars, promise, output>>
    BY <1>0, <1>1 DEF Close, Results, ClientFields
  <2>2. \A id \in Channels : Unseen(engine, engine', id)
    BY <1>0, <2>1, CallsUnseen
  <2> QED
    BY <2>1, <2>2, QuietTraced
<1>2. CASE Exec
  <2>1. /\ engine' = Opened(engine, "exec") /\ UNCHANGED <<to_server, serverVars, output>>
        /\ client'.execs = client.execs \cup {engine.next_id}
        /\ promise' = [promise EXCEPT ![engine.next_id] = "pending"]
    BY <1>0, <1>2 DEF Exec, OpenExec, ClientFields
  <2>2. engine.next_id \in Channels => promise'[engine.next_id] # "resolved"
    BY <1>0, <2>1
  <2>3. \A id \in Channels : id # engine.next_id =>
            promise'[id] = promise[id] /\ (id \in client'.execs => id \in client.execs)
    BY <1>0, <2>1
  <2> QED
    BY <2>1, <2>2, <2>3, OpenStepTraced
<1>3. CASE Enter
  <2>1. client'.execs = client.execs
    BY <1>0, <1>3 DEF Enter, ClientFields
  <2> QED
    BY <1>3, <2>1, IdleTraced DEF Enter, Results
<1>4. CASE CtrlC
  <2>1. client'.execs = client.execs
    BY <1>0, <1>4 DEF CtrlC, ClientFields
  <2> QED
    BY <1>4, <2>1, IdleTraced DEF CtrlC, Results
<1>5. ASSUME NEW accept \in BOOLEAN, VerifierAnswers(accept)
      PROVE  TraceInv'
  <2>1. /\ engine' = Decided(engine, accept) /\ client'.execs = client.execs
        /\ UNCHANGED <<to_server, serverVars, promise, output>>
    BY <1>0, <1>5 DEF VerifierAnswers, Results, ClientFields
  <2>2. \A id \in Channels : Unseen(engine, engine', id)
    BY <1>0, <2>1, CallsUnseen
  <2> QED
    BY <2>1, <2>2, QuietTraced
<1> QED
  BY <1>1, <1>2, <1>3, <1>4, <1>5

\* The reader feeds: what has arrived stays in line.
LEMMA FeedsTraced ==
    ASSUME TypeInv, TraceInv, Feeds
    PROVE  TraceInv' /\ to_client' \in Seq(Incoming) /\ \E msgs \in Seq(Incoming) : FeedFromServer(msgs)
<1>1. PICK n \in 1..Len(to_client) :
         /\ FeedFromServer(SubSeq(to_client, 1, n))
         /\ to_client' = SubSeq(to_client, n + 1, Len(to_client))
  BY DEF Feeds
<1> DEFINE a == SubSeq(to_client, 1, n)
           b == SubSeq(to_client, n + 1, Len(to_client))
<1>2. PICK l \in Nat : l = Len(to_client)
  BY DEF TypeInv
<1>3. n \in 1..l /\ to_client \in Seq(Incoming)
  BY <1>2 DEF TypeInv
<1>4. a \in Seq(Incoming) /\ b \in Seq(Incoming)
  <2>1. n \in 0..Len(to_client) /\ n + 1 \in 1..(Len(to_client) + 1)
    BY <1>2, <1>3
  <2> QED
    BY <1>2, <1>3, <2>1, SubSeqProperties
<1>5. a \o b = to_client
  <2>1. SubSeq(to_client, 1, l) = to_client
    BY <1>2, <1>3, SubSeqFull
  <2> QED
    BY <1>2, <1>3, <2>1, ConcatAdjacentSubSeq
<1> HIDE DEF a, b
<1>6. /\ engine' = FeedIncoming(engine, a) /\ to_client' = b
      /\ UNCHANGED <<client, to_server, promise, output, chan>>
  BY <1>1 DEF FeedFromServer, Results, Feeds, a, b
<1>7. /\ engine'.buffered = engine.buffered \o a /\ engine'.outgoing = engine.outgoing
      /\ engine'.events = engine.events /\ engine'.next_id = engine.next_id
  BY <1>6 DEF FeedIncoming, TypeInv, Typed, EngineFields
<1>8. Due' = Due
  <2>1. (engine.buffered \o a) \o b = engine.buffered \o (a \o b)
    <3>1. engine.buffered \in Seq(Incoming)
      BY DEF TypeInv, Typed
    <3>2. \A s, t, u \in Seq(Incoming) : s \o (t \o u) = (s \o t) \o u
      BY ConcatAssociative
    <3> QED
      BY <1>4, <3>1, <3>2
  <2> QED
    BY <1>5, <1>6, <1>7, <2>1 DEF Due
<1>9. Sent' = Sent
  BY <1>6, <1>7 DEF Sent
<1>10. TraceInv'
  <2>1. ASSUME NEW id \in Channels PROVE TracedOn(id)'
    BY <1>6, <1>7, <1>8, <1>9 DEF TraceInv, TracedOn
  <2> QED
    BY <1>6, <2>1 DEF TraceInv, Shaped
<1> QED
  BY <1>1, <1>4, <1>6, <1>10 DEF a

-----------------------------------------------------------------------------
\* The server's steps.

\* What it reads is the head of what was sent.
LEMMA TakesOne ==
    ASSUME TypeInv, NEW type, Reads(type), UNCHANGED engine
    PROVE  /\ Sent # <<>> /\ Head(Sent) = Head(to_server) /\ Sent' = Tail(Sent)
           /\ Head(Sent) \in Outgoing /\ Head(Sent).type = type
<1>1. /\ to_server \in Seq(Outgoing) /\ engine.outgoing \in Seq(Outgoing) /\ to_server # <<>>
      /\ to_server' = Tail(to_server) /\ Head(to_server).type = type
  BY DEF Reads, TypeInv, Typed
<1>2. /\ to_server \o engine.outgoing # <<>>
      /\ Head(to_server \o engine.outgoing) = Head(to_server)
      /\ Tail(to_server \o engine.outgoing) = Tail(to_server) \o engine.outgoing
  BY <1>1, TwoParts
<1>3. Head(to_server) \in Outgoing
  BY <1>1
<1> QED
  BY <1>1, <1>2, <1>3 DEF Sent

\* What it says is put behind what is due.
LEMMA SaysOne ==
    ASSUME TypeInv, clientUnchanged, NEW m \in Incoming, to_client' = to_client \o <<m>>
    PROVE  Due' = Append(Due, m)
<1>1. to_client \in Seq(Incoming) /\ engine.buffered \in Seq(Incoming) /\ engine' = engine
  BY DEF TypeInv, Typed, clientUnchanged
<1>2. to_client' = Append(to_client, m)
  BY <1>1, AppendIsConcat
<1>3. engine.buffered \o Append(to_client, m) = Append(engine.buffered \o to_client, m)
  <2>1. \A b, c \in Seq(Incoming) : \A n \in Incoming : b \o Append(c, n) = Append(b \o c, n)
    BY TwoParts
  <2> QED
    BY <1>1, <2>1
<1> QED
  BY <1>1, <1>2, <1>3 DEF Due

\* A channel that does not see what the server reads and says.
LEMMA FarTraced ==
    ASSUME TypeInv, clientUnchanged, NEW id \in Channels, TracedOn(id),
           Alike(Sent, Sent', id), Alike(Due, Due', id), chan'[id] = chan[id]
    PROVE  TracedOn(id)'
<1>1. /\ engine' = engine /\ client' = client /\ promise' = promise /\ output' = output
  BY DEF clientUnchanged
<1>2. Traced(Sent, Due, engine.events, engine.next_id, chan[id], output[id], promise[id],
             client.execs, id)
  BY DEF TracedOn
<1>3. /\ id \in Nat /\ engine.next_id \in Nat /\ engine.next_id <= engine.next_id
      /\ Alike(engine.events, engine.events, id)
  BY QueuesTyped, ChannelIds, ForeignMoves
<1>4. Traced(Sent', Due', engine.events, engine.next_id, chan[id], output[id], promise[id],
             client.execs, id)
  BY <1>2, <1>3, AlikeTraced
<1> QED
  BY <1>1, <1>4 DEF TracedOn

\* What is not about channels.
LEMMA SessionTraced ==
    ASSUME TypeInv, TraceInv, clientUnchanged, UNCHANGED chan,
           UNCHANGED to_server \/ \E type \in {"ident", "service", "auth"} : Reads(type),
           NEW type \in {"kexReply", "serviceAccept", "failure", "lastFailure", "success",
                         "disconnect", "garbage"},
           Says(<<Msg(type)>>)
    PROVE  TraceInv'
<1>1. Msg(type) \in Incoming /\ Due' = Append(Due, Msg(type)) /\ engine' = engine
  <2>1. Msg(type) \in Incoming
    BY DEF Msg, Incoming
  <2> QED
    BY <2>1, SaysOne DEF Says, clientUnchanged
<1>2. ASSUME NEW id \in Channels
      PROVE  TracedOn(id)'
  <2>1. Foreign(Msg(type), id)
    <3>1. Strange(Msg(type), id)
      BY DEF Strange, Msg
    <3> QED
      BY <1>1, <3>1, ChannelIds, Strangers
  <2>2. Alike(Due, Due', id)
    BY <1>1, <2>1, QueuesTyped, ForeignMoves
  <2>3. Alike(Sent, Sent', id)
    <3>1. CASE UNCHANGED to_server
      <4>1. Sent' = Sent
        BY <1>1, <3>1 DEF Sent
      <4> QED
        BY <4>1, QueuesTyped, ForeignMoves
    <3>2. ASSUME NEW read \in {"ident", "service", "auth"}, Reads(read)
          PROVE  Alike(Sent, Sent', id)
      <4>1. /\ Sent # <<>> /\ Sent' = Tail(Sent) /\ Head(Sent) \in Outgoing
            /\ Head(Sent).type = read
        BY <1>1, <3>2, TakesOne
      <4>2. Strange(Head(Sent), id)
        BY <3>2, <4>1 DEF Strange
      <4>3. Foreign(Head(Sent), id)
        BY <4>1, <4>2, ChannelIds, Strangers
      <4> QED
        BY <4>1, <4>3, QueuesTyped, ForeignMoves
    <3> QED
      BY <3>1, <3>2
  <2> QED
    BY <2>2, <2>3, FarTraced DEF TraceInv
<1> QED
  BY <1>2 DEF TraceInv, Shaped, clientUnchanged

\* A channel is confirmed, refused or set up.
LEMMA OpensTraced ==
    ASSUME TypeInv, TraceInv, OpensChannel
    PROVE  TraceInv'
<1> DEFINE m == Head(to_server)
<1>1. PICK type \in {"exec", "shell", "setup"} : Reads(type)
  BY DEF OpensChannel
<1>2. clientUnchanged
  BY DEF OpensChannel, Says
<1>3. /\ Sent # <<>> /\ Head(Sent) = m /\ Sent' = Tail(Sent) /\ m \in Outgoing /\ m.type = type
      /\ m.id \in Nat \ {0}
  <2>1. /\ Sent # <<>> /\ Head(Sent) = m /\ Sent' = Tail(Sent) /\ m \in Outgoing /\ m.type = type
    BY <1>1, <1>2, TakesOne DEF clientUnchanged
  <2> QED
    BY <2>1 DEF Outgoing
<1>4. \/ chan' = [chan EXCEPT ![m.id].open = TRUE] /\ Says(<<>>)
      \/ chan' = chan /\ Says(<<ChannelMsg("confirm", m.id)>>)
      \/ chan' = chan /\ Says(<<ChannelMsg("refuse", m.id)>>)
  BY DEF OpensChannel
<1>5. ASSUME NEW answer \in {"confirm", "refuse"}
      PROVE  /\ ChannelMsg(answer, m.id) \in Incoming
             /\ ChannelMsg(answer, m.id).id = m.id /\ ChannelMsg(answer, m.id).type = answer
  BY <1>3 DEF ChannelMsg, Incoming
<1> HIDE DEF m
<1>6. Says(<<>>) => Due' = Due
  <2>1. to_client \o <<>> = to_client
    BY DEF TypeInv
  <2> QED
    BY <1>2, <2>1 DEF Says, Due, clientUnchanged
<1>7. ASSUME NEW answer \in {"confirm", "refuse"}, Says(<<ChannelMsg(answer, m.id)>>)
      PROVE  Due' = Append(Due, ChannelMsg(answer, m.id))
  BY <1>2, <1>5, <1>7, SaysOne DEF Says
<1>8. ASSUME NEW id \in Channels
      PROVE  TracedOn(id)'
  <2>1. /\ TracedOn(id) /\ DOMAIN chan = Channels /\ DOMAIN chan[id] = {"open", "data", "exited"}
        /\ id \in Nat
    BY ChannelIds DEF TraceInv, Shaped
  <2>2. Traced(Sent, Due, engine.events, engine.next_id, chan[id], output[id], promise[id],
               client.execs, id)
    BY <2>1 DEF TracedOn
  <2>3. engine' = engine /\ client' = client /\ promise' = promise /\ output' = output
    BY <1>2 DEF clientUnchanged
  <2>4. CASE m.id # id
    <3>1. Foreign(m, id)
      BY <1>3, <2>1, <2>4, Strangers DEF Strange
    <3>2. Alike(Sent, Sent', id)
      BY <1>3, <3>1, QueuesTyped, ForeignMoves
    <3>3. \A answer \in {"confirm", "refuse"} : Foreign(ChannelMsg(answer, m.id), id)
      BY <1>5, <2>1, <2>4, Strangers DEF Strange
    <3>4. Alike(Due, Due', id)
      <4>1. Alike(Due, Due, id) /\
            \A answer \in {"confirm", "refuse"} : Alike(Due, Append(Due, ChannelMsg(answer, m.id)), id)
        BY <1>5, <3>3, QueuesTyped, ForeignMoves
      <4> QED
        BY <1>4, <1>6, <1>7, <4>1
    <3>5. chan'[id] = chan[id]
      BY <1>4, <2>1, <2>4
    <3> QED
      BY <1>2, <2>1, <3>2, <3>4, <3>5, FarTraced
  <2>5. CASE m.id = id
    <3>1. \A after : after.data = chan[id].data /\ after.exited = chan[id].exited
                        /\ after.open \in BOOLEAN
             => Traced(Tail(Sent), Due, engine.events, engine.next_id, after, output[id],
                       promise[id], client.execs, id)
      BY <1>3, <2>1, <2>2, <2>5, QueuesTyped, ReadTraced
    <3>2. CASE chan' = [chan EXCEPT ![m.id].open = TRUE] /\ Says(<<>>)
      <4>1. /\ chan'[id].data = chan[id].data /\ chan'[id].exited = chan[id].exited
            /\ chan'[id].open = TRUE
        BY <2>1, <2>5, <3>2
      <4>2. Traced(Tail(Sent), Due, engine.events, engine.next_id, chan'[id], output[id],
                   promise[id], client.execs, id)
        BY <3>1, <4>1
      <4> QED
        BY <1>3, <1>6, <2>3, <3>2, <4>2 DEF TracedOn
    <3>3. CASE chan' = chan /\ Says(<<ChannelMsg("confirm", m.id)>>)
      <4>1. Traced(Tail(Sent), Append(Due, ChannelMsg("confirm", m.id)), engine.events,
                   engine.next_id, chan[id], output[id], promise[id], client.execs, id)
        BY <1>3, <1>5, <2>1, <2>2, <2>5, QueuesTyped, ReadTraced
      <4> QED
        BY <1>3, <1>7, <2>3, <3>3, <4>1 DEF TracedOn
    <3>4. CASE chan' = chan /\ Says(<<ChannelMsg("refuse", m.id)>>)
      <4> DEFINE refusal == ChannelMsg("refuse", m.id)
      <4>1. chan[id].open \in BOOLEAN
        BY <2>2 DEF Traced, Life
      <4>2. Traced(Tail(Sent), Due, engine.events, engine.next_id, chan[id], output[id],
                   promise[id], client.execs, id)
        BY <3>1, <4>1
      <4>3. Foreign(refusal, id)
        BY <1>5, <2>1, Strangers DEF Strange
      <4>4. refusal \in Incoming /\ Due' = Append(Due, refusal)
        BY <1>5, <1>7, <3>4
      <4> HIDE DEF refusal
      <4>5. Tail(Sent) \in Seq(Outgoing)
        BY <1>3, QueuesTyped
      <4>6. /\ Alike(Due, Append(Due, refusal), id) /\ Alike(Tail(Sent), Tail(Sent), id)
            /\ Alike(engine.events, engine.events, id)
            /\ engine.next_id \in Nat /\ engine.next_id <= engine.next_id
        <5>1. Alike(Due, Append(Due, refusal), id)
          BY <4>3, <4>4, QueuesTyped, ForeignMoves
        <5>2. Alike(Tail(Sent), Tail(Sent), id)
          BY <4>5, ForeignMoves
        <5>3. Alike(engine.events, engine.events, id)
          BY QueuesTyped, ForeignMoves
        <5>4. engine.next_id \in Nat /\ engine.next_id <= engine.next_id
          BY QueuesTyped
        <5> QED
          BY <5>1, <5>2, <5>3, <5>4
      <4>7. Traced(Tail(Sent), Append(Due, refusal), engine.events, engine.next_id, chan[id],
                   output[id], promise[id], client.execs, id)
        BY <2>1, <4>2, <4>6, AlikeTraced
      <4> QED
        BY <1>3, <2>3, <3>4, <4>4, <4>7 DEF TracedOn
    <3> QED
      BY <1>4, <3>2, <3>3, <3>4
  <2> QED
    BY <2>4, <2>5
<1>9. Shaped'
  <2>1. output' = output
    BY <1>2 DEF clientUnchanged
  <2> QED
    BY <1>4, <2>1 DEF TraceInv, Shaped
<1> QED
  BY <1>8, <1>9 DEF TraceInv

\* Its program writes and exits, and the channel is closed.
LEMMA TalkTraced ==
    ASSUME TypeInv, TraceInv, NEW id \in Channels, Writes(id) \/ Exits(id) \/ Closes(id)
    PROVE  TraceInv' /\ to_client' \in Seq(Incoming)
<1>1. PICK type \in {"data", "exit", "close"} : Says(<<ChannelMsg(type, id)>>) /\
         \/ type = "data" /\ chan' = [chan EXCEPT ![id].data = Append(@, id)]
         \/ type = "exit" /\ chan' = [chan EXCEPT ![id].exited = TRUE]
         \/ type = "close" /\ chan' = [chan EXCEPT ![id].open = FALSE]
  BY DEF Writes, Exits, Closes
<1> DEFINE m == ChannelMsg(type, id)
<1>2. m \in Incoming /\ m.id = id /\ m.type = type /\ id \in Nat
  BY ChannelIds DEF ChannelMsg, Incoming
<1>3. clientUnchanged /\ to_client' = to_client \o <<m>>
  BY <1>1 DEF Says
<1> HIDE DEF m
<1>4. Due' = Append(Due, m)
  BY <1>2, <1>3, SaysOne
<1>5. to_server' = to_server /\ chan[id].open
  BY DEF Writes, Exits, Closes
<1>6. engine' = engine /\ client' = client /\ promise' = promise /\ output' = output
  BY <1>3 DEF clientUnchanged
<1>7. Sent' = Sent
  BY <1>5, <1>6 DEF Sent
<1>8. ASSUME NEW i \in Channels
      PROVE  TracedOn(i)'
  <2>1. TracedOn(i) /\ DOMAIN chan = Channels /\ DOMAIN chan[i] = {"open", "data", "exited"}
    BY DEF TraceInv, Shaped
  <2>2. CASE i # id
    <3>1. Foreign(m, i)
      BY <1>2, <2>2, ChannelIds, Strangers DEF Strange
    <3>2. Alike(Due, Due', i) /\ Alike(Sent, Sent', i)
      BY <1>2, <1>4, <1>7, <3>1, QueuesTyped, ForeignMoves
    <3>3. chan'[i] = chan[i]
      BY <1>1, <2>1, <2>2
    <3> QED
      BY <1>3, <2>1, <3>2, <3>3, FarTraced
  <2>3. CASE i = id
    <3>1. Traced(Sent, Due, engine.events, engine.next_id, chan[id], output[id], promise[id],
                 client.execs, id)
      BY <2>1, <2>3 DEF TracedOn
    <3>2. chan[id].data \in Seq({id}) /\ chan[id].open \in BOOLEAN /\ chan[id].exited \in BOOLEAN
      BY <3>1 DEF Traced, Life
    <3>3. \/ /\ type = "data" /\ chan'[id].data = Append(chan[id].data, id)
             /\ chan'[id].exited = chan[id].exited /\ chan'[id].open = chan[id].open
          \/ /\ type = "exit" /\ chan'[id].data = chan[id].data
             /\ chan'[id].exited = TRUE /\ chan'[id].open = chan[id].open
          \/ /\ type = "close" /\ chan'[id].data = chan[id].data
             /\ chan'[id].exited = chan[id].exited /\ chan'[id].open = FALSE
      BY <1>1, <2>1, <2>3
    <3>4. /\ chan'[id].data \in Seq({id}) /\ chan'[id].open \in BOOLEAN
          /\ chan'[id].exited \in BOOLEAN
      <4>1. Append(chan[id].data, id) \in Seq({id})
        BY <3>2
      <4>2. chan'[id].data \in Seq({id})
        BY <3>2, <3>3, <4>1
      <4>3. chan'[id].open \in BOOLEAN
        <5>1. chan'[id].open = chan[id].open \/ chan'[id].open = FALSE
          BY <3>3
        <5> QED
          BY <3>2, <5>1
      <4>4. chan'[id].exited \in BOOLEAN
        <5>1. chan'[id].exited = chan[id].exited \/ chan'[id].exited = TRUE
          BY <3>3
        <5> QED
          BY <3>2, <5>1
      <4> QED
        BY <4>2, <4>3, <4>4
    <3>5. Traced(Sent, Append(Due, m), engine.events, engine.next_id, chan'[id], output[id],
                 promise[id], client.execs, id)
      BY <1>2, <1>5, <3>1, <3>3, <3>4, QueuesTyped, SaysTraced
    <3> QED
      BY <1>4, <1>6, <1>7, <2>3, <3>5 DEF TracedOn
  <2> QED
    BY <2>2, <2>3
<1>9. Shaped'
  BY <1>1, <1>6 DEF TraceInv, Shaped
<1>10. to_client' \in Seq(Incoming)
  BY <1>2, <1>3 DEF TypeInv
<1> QED
  BY <1>8, <1>9, <1>10 DEF TraceInv

-----------------------------------------------------------------------------
\* The specification.

OutputInv == ClientInv /\ TypeInv /\ EndInv /\ TraceInv

\* At first nothing is on its way, and every channel is still to come.
LEMMA OutputInit == Init => OutputInv
<1> SUFFICES ASSUME Init PROVE OutputInv
  OBVIOUS
<1>1. ClientInv
  BY InitHolds
<1>2. /\ engine = NewEngine /\ stack = <<>> /\ to_server = <<Msg("ident")>> /\ to_client = <<>>
      /\ client.closed = FALSE /\ client.intentionalClose = FALSE /\ client.execs = {}
      /\ promise = [id \in Channels |-> "none"]
      /\ output = [id \in Channels |-> [data |-> <<>>, exited |-> FALSE]]
      /\ chan = [id \in Channels |-> [open |-> FALSE, data |-> <<>>, exited |-> FALSE]]
  BY DEF Init, ClientInit
<1>3. /\ engine.buffered = <<>> /\ engine.outgoing = <<>> /\ engine.events = <<>>
      /\ engine.next_id = 1 /\ engine.phase = "KexInProgress" /\ DOMAIN engine = EngineFields
  BY <1>2 DEF NewEngine, EngineFields
<1>4. Msg("ident") \in Outgoing /\ to_server \in Seq(Outgoing)
  <2>1. Msg("ident") \in Outgoing
    BY DEF Msg, Outgoing
  <2> QED
    BY <1>2, <2>1
<1>5. TypeInv
  BY <1>2, <1>3, <1>4 DEF TypeInv, Typed
<1>6. EndInv
  BY <1>2, <1>3 DEF EndInv
<1>7. TraceInv
  <2>1. Sent = <<Msg("ident")>> /\ Due = <<>>
    BY <1>2, <1>3, <1>4 DEF Sent, Due
  <2>2. ASSUME NEW id \in Channels
        PROVE  TracedOn(id)
    <3>1. \A S : Count(<<>>, S) = 0
      <4>1. <<>> \in Seq(Incoming) /\ Len(<<>>) = 0 /\ 1..0 = {}
        OBVIOUS
      <4>2. \A q \in Seq(Incoming) : \A S : (\A i \in 1..Len(q) : q[i] \notin S) => Count(q, S) = 0
        BY CountNat
      <4> QED
        BY <4>1, <4>2
    <3>2. Count(Sent, Opening(id)) = 0
      <4>1. Msg("ident") \notin Opening(id)
        BY DEF Msg, Opening
      <4>2. Sent \in Seq(Outgoing) /\ Len(Sent) = 1 /\ Sent[1] = Msg("ident")
        BY <1>4, <2>1
      <4>3. \A i \in 1..Len(Sent) : Sent[i] \notin Opening(id)
        BY <4>1, <4>2
      <4>4. \A q \in Seq(Outgoing) : \A S : (\A i \in 1..Len(q) : q[i] \notin S) => Count(q, S) = 0
        BY CountNat
      <4> QED
        BY <4>2, <4>3, <4>4
    <3>3. EndsClosed(<<>>, id)
      BY DEF EndsClosed
    <3>4. id \in Nat /\ id >= 1
      BY ChannelIds
    <3>5. /\ chan[id] = [open |-> FALSE, data |-> <<>>, exited |-> FALSE]
          /\ output[id] = [data |-> <<>>, exited |-> FALSE] /\ promise[id] = "none"
      BY <1>2
    <3>6. Life(0, 0, 0, 0, 0, 0, 0, 1, chan[id], output[id], promise[id], {}, id)
      BY <3>4, <3>5 DEF Life
    <3>7. Count(Sent, Opening(id)) + Count(Due, Opening(id)) = 0
      BY <2>1, <3>1, <3>2
    <3> QED
      BY <1>2, <1>3, <2>1, <3>1, <3>3, <3>6, <3>7 DEF TracedOn, Traced
  <2>3. Shaped
    BY <1>2 DEF Shaped
  <2> QED
    BY <2>2, <2>3 DEF TraceInv
<1> QED
  BY <1>1, <1>5, <1>6, <1>7 DEF OutputInv

\* exec() keeps the types and the end.
LEMMA ExecEnd ==
    ASSUME StackInv, CloseInv, TypeInv, EndInv, Exec
    PROVE  ClientTyped /\ EndInv'
<1>1. SameFlags
  BY DEF Exec, OpenExec, CloseInv, ClientFields, SameFlags
<1>2. Kept
  BY FlushFormed, CallKept DEF Exec, OpenExec
<1>3. Typed(engine') /\ Advances(engine, engine')
  BY OpenTyped DEF Exec, OpenExec, TypeInv
<1> QED
  BY <1>1, <1>2, <1>3, EndKeeps DEF ClientTyped, TypeInv, Exec, OpenExec

\* The server's and other steps around the client leave its part alone.
LEMMA EndUnchanged == EndInv /\ clientUnchanged => EndInv'
BY DEF EndInv, clientUnchanged, Terminates, Has

\* Every step keeps it.
LEMMA OutputStep == OutputInv /\ [Next]_vars => OutputInv'
<1> SUFFICES ASSUME OutputInv, [Next]_vars PROVE OutputInv'
  OBVIOUS
<1>0. ClientInv' /\ StackInv /\ CloseInv /\ PromiseInv /\ TypeInv /\ EndInv /\ TraceInv
  BY StepHolds DEF OutputInv, ClientInv
<1>1. CASE Run /\ UNCHANGED serverVars
  <2>1. ClientTyped /\ EndInv'
    BY <1>0, <1>1, RunEnd
  <2>2. TypeInv'
    BY <1>0, <1>1, <2>1 DEF ClientTyped, TypeInv, serverVars
  <2>3. TraceInv'
    BY <1>0, <1>1, <2>1, RunTraced DEF ClientTyped
  <2> QED
    BY <1>0, <2>1, <2>2, <2>3 DEF OutputInv
<1>2. CASE Feeds
  <2>1. /\ TraceInv' /\ to_client' \in Seq(Incoming)
        /\ \E msgs \in Seq(Incoming) : FeedFromServer(msgs)
    BY <1>0, <1>2, FeedsTraced
  <2>2. ClientTyped /\ EndInv'
    BY <1>0, <2>1, CallsEnd
  <2> QED
    BY <1>0, <2>1, <2>2 DEF OutputInv, TypeInv, ClientTyped
<1>3. CASE StreamEnds \/ UserTypes \/ UserExecs \/ UserCloses \/ Answers
  <2>1. /\ UNCHANGED serverVars
        /\ \/ Close \/ Exec \/ Enter \/ CtrlC
           \/ \E accept \in BOOLEAN : VerifierAnswers(accept)
    BY <1>3 DEF StreamEnds, UserTypes, UserExecs, UserCloses, Answers
  <2>2. ClientTyped /\ EndInv'
    BY <1>0, <2>1, CallsEnd, ExecEnd
  <2>3. TypeInv'
    BY <1>0, <2>1, <2>2 DEF ClientTyped, TypeInv, serverVars
  <2>4. TraceInv'
    BY <1>0, <2>1, <2>2, CallsTraced DEF ClientTyped
  <2> QED
    BY <1>0, <2>2, <2>3, <2>4 DEF OutputInv
<1>4. CASE ServerReads \/ Ends
  <2>1. ServerTyped /\ clientUnchanged
    BY <1>0, <1>4, ServerSteps
  <2>2. TypeInv' /\ EndInv'
    BY <1>0, <2>1, EndUnchanged DEF TypeInv, ServerTyped, clientUnchanged
  <2>3. TraceInv'
    <3>1. CASE Greets
      BY <1>0, <2>1, <3>1, SessionTraced DEF Greets
    <3>2. CASE Grants
      BY <1>0, <2>1, <3>2, SessionTraced DEF Grants
    <3>3. CASE Judges
      BY <1>0, <2>1, <3>3, SessionTraced DEF Judges
    <3>4. CASE OpensChannel
      BY <1>0, <3>4, OpensTraced
    <3>5. CASE Ends
      BY <1>0, <2>1, <3>5, SessionTraced DEF Ends
    <3> QED
      BY <1>4, <3>1, <3>2, <3>3, <3>4, <3>5 DEF ServerReads
  <2> QED
    BY <1>0, <2>2, <2>3 DEF OutputInv
<1>5. ASSUME NEW id \in Channels, Writes(id) \/ Exits(id) \/ Closes(id)
      PROVE  OutputInv'
  <2>1. TraceInv' /\ to_client' \in Seq(Incoming)
    BY <1>0, <1>5, TalkTraced
  <2>2. clientUnchanged /\ to_server' = to_server
    BY <1>5 DEF Writes, Exits, Closes, Says
  <2>3. TypeInv' /\ EndInv'
    BY <1>0, <2>1, <2>2, EndUnchanged DEF TypeInv, clientUnchanged
  <2> QED
    BY <1>0, <2>1, <2>3 DEF OutputInv
<1>6. CASE UNCHANGED vars
  <2>1. clientUnchanged /\ UNCHANGED <<to_server, serverVars>>
    BY <1>6 DEF vars, clientUnchanged
  <2>2. TypeInv' /\ EndInv'
    BY <1>0, <2>1, EndUnchanged DEF TypeInv, clientUnchanged, serverVars
  <2>3. TraceInv'
    BY <1>0, <2>1, IdleTraced DEF clientUnchanged
  <2> QED
    BY <1>0, <2>2, <2>3 DEF OutputInv
<1> QED
  BY <1>1, <1>2, <1>3, <1>4, <1>5, <1>6 DEF Next

\* A command that is over has everything its program wrote, nothing of another
\* channel's, and the exit status, however the stream is cut, whatever else runs, and whichever of
\* them came first: the close is the last that is said on a channel, it is
\* handled behind all the rest, and what is handled meanwhile goes to the
\* channel whose number it has (client.ts:301-339, lib.rs:52-64).
THEOREM ResultsAreComplete == Spec => []ResultsComplete
<1>1. OutputInv => ResultsComplete
  BY DEF OutputInv, TraceInv, TracedOn, Traced, Life, ResultsComplete
<1> QED
  BY <1>1, OutputInit, OutputStep, PTL DEF Spec
=============================================================================
