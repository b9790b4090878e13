------------------------------- MODULE Connect -------------------------------
(***************************************************************************)
(* connect() of src/socket-connect.ts: the host that drives an SshClient   *)
(* over a socket.  A loop reads the socket into the client, the client's   *)
(* output goes to the socket's writer, and one promise is settled by       *)
(* whichever comes first of onReady, onClose and a timer.  If it is        *)
(* rejected, reader, writer and socket are closed before the caller hears  *)
(* of it.                                                                  *)
(*                                                                         *)
(* The client and the server are those of ClientHost.  A read that has     *)
(* been answered and the turn of the loop it leads to are one step: a      *)
(* promise's continuation runs before the thread takes up a timer or       *)
(* other input.                                                            *)
(***************************************************************************)
EXTENDS ClientHost

CONSTANT TransportMay   \* what may go wrong: any of {"readError", "writeError"}

ASSUME TransportAssumption == TransportMay \subseteq {"readError", "writeError"}

VARIABLES
    reader,         \* of the loop: "reading", "cancelled" or "stopped"
    written,        \* how many of to_server the socket has accepted
    sink,           \* "ok", or "failed" by a write error
    timer,          \* "set", "fired" or "cleared"
    outcome,        \* of the promise: "pending", "ready", "closed" or "timeout"
    cleanup,        \* what the catch handler awaits
    result          \* of connect(): "pending", "resolved" or "rejected"

connectVars == <<reader, written, sink, timer, outcome, cleanup, result>>

allVars == <<vars, connectVars>>

ConnectInit ==
    /\ Init
    /\ reader = "reading"
    /\ written = 0 /\ sink = "ok"
    /\ timer = "set"
    /\ outcome = "pending"
    /\ cleanup = "none"
    /\ result = "pending"

-----------------------------------------------------------------------------
\* The promise: a settled one stays as it is.

\* Mutant of SettlePromise: a close clears the timer and settles nothing.
SettlePromiseUnlessClosed(how) ==
    IF outcome # "pending" \/ how = "closed" THEN UNCHANGED <<outcome, result>>
    ELSE /\ outcome' = how
         /\ result' = IF how = "ready" THEN "resolved" ELSE result

\* `await` hands a fulfilled promise on at once; a rejection goes to the handler.
SettlePromise(how) ==
    IF outcome # "pending" THEN UNCHANGED <<outcome, result>>
    ELSE /\ outcome' = how
         /\ result' = IF how = "ready" THEN "resolved" ELSE result

\* Mutant of ClearTimeout: it is forgotten.
ClearTimeoutForgotten == UNCHANGED timer

ClearTimeout == timer' = IF timer = "set" THEN "cleared" ELSE timer

Callbacks == [ready |-> "ready", close |-> "closed"]

\* The client runs; the two callbacks connect() has registered are called from
\* inside it.
ClientRuns ==
    /\ Run
    /\ IF Running("callback") /\ stack[1].arg \in DOMAIN Callbacks
       THEN ClearTimeout /\ SettlePromise(Callbacks[stack[1].arg])
       ELSE UNCHANGED <<timer, outcome, result>>
    /\ UNCHANGED <<serverVars, reader, written, sink, cleanup>>

TimerFires ==
    /\ Idle /\ timer = "set"
    /\ timer' = "fired"
    /\ SettlePromise("timeout")
    /\ UNCHANGED <<vars, reader, written, sink, cleanup>>

-----------------------------------------------------------------------------
\* The read loop.  client.close() and feedFromServer do nothing when it is closed.

CloseClient == IF client.closed THEN clientUnchanged /\ UNCHANGED to_server ELSE Close

LoopReads ==
    /\ Idle /\ reader = "reading"
    /\ \E n \in 1..Len(to_client) :
          /\ IF client.closed THEN clientUnchanged /\ UNCHANGED to_server
             ELSE FeedFromServer(SubSeq(to_client, 1, n))
          /\ to_client' = SubSeq(to_client, n + 1, Len(to_client))
    /\ UNCHANGED <<stage, failures, chan, connectVars>>

\* Mutant of LoopEnds: the loop just returns.
LoopEndsQuietly ==
    /\ Idle
    /\ reader = "cancelled"
    /\ reader' = "stopped"
    /\ UNCHANGED <<vars, written, sink, timer, outcome, cleanup, result>>

\* The stream ends, fails, or has been cancelled.
LoopEnds ==
    /\ Idle
    /\ \/ reader = "cancelled"
       \/ reader = "reading" /\ stage = "hungUp" /\ to_client = <<>>
       \/ reader = "reading" /\ "readError" \in TransportMay
    /\ reader' = "stopped"
    /\ CloseClient
    /\ UNCHANGED <<serverVars, written, sink, timer, outcome, cleanup, result>>

-----------------------------------------------------------------------------
\* The writer.  The socket accepts writes in order, if it ever does.

SinkAccepts ==
    /\ sink = "ok" /\ written < Len(to_server)
    /\ written' = written + 1
    /\ UNCHANGED <<vars, reader, sink, timer, outcome, cleanup, result>>

WriteFails ==
    /\ "writeError" \in TransportMay
    /\ Idle /\ sink = "ok" /\ written < Len(to_server)
    /\ sink' = "failed"
    /\ CloseClient
    /\ UNCHANGED <<serverVars, reader, written, timer, outcome, cleanup, result>>

-----------------------------------------------------------------------------
\* The catch handler: three calls, each awaited, its failure ignored.

\* Mutant of CancelReader: the loop is left waiting.
CancelReaderForgotten ==
    /\ Idle /\ outcome \in {"closed", "timeout"} /\ cleanup = "none"
    /\ cleanup' = "reader.cancel"
    /\ UNCHANGED <<vars, reader, written, sink, timer, outcome, result>>

\* The cancelled stream answers the pending read: the loop goes on first.
CancelReader ==
    /\ Idle /\ outcome \in {"closed", "timeout"} /\ cleanup = "none"
    /\ cleanup' = "reader.cancel"
    /\ reader' = IF reader = "reading" THEN "cancelled" ELSE reader
    /\ UNCHANGED <<vars, written, sink, timer, outcome, result>>

CloseWriter ==
    /\ Idle /\ cleanup = "reader.cancel" /\ reader # "cancelled"
    /\ cleanup' = "writer.close"
    /\ UNCHANGED <<vars, reader, written, sink, timer, outcome, result>>

\* A writer is closed once all it was given has been accepted, or it has failed.
CloseSocket ==
    /\ Idle /\ cleanup = "writer.close"
    /\ written = Len(to_server) \/ sink = "failed"
    /\ cleanup' = "socket.close"
    /\ UNCHANGED <<vars, reader, written, sink, timer, outcome, result>>

Rethrow ==
    /\ Idle /\ cleanup = "socket.close"
    /\ cleanup' = "done"
    /\ result' = "rejected"
    /\ UNCHANGED <<vars, reader, written, sink, timer, outcome>>

CleansUp == CancelReader \/ CloseWriter \/ CloseSocket \/ Rethrow

-----------------------------------------------------------------------------
\* The server reads what the socket has accepted; it, the user at the terminal and
\* the verifier are those of ClientHost.  The caller has the client once connect()
\* has resolved.

Others ==
    \/ ServerReads /\ written > 0 /\ written' = written - 1
    \/ (Ends \/ UserTypes \/ Answers) /\ UNCHANGED written
    \/ UserCloses /\ result = "resolved" /\ UNCHANGED written

ConnectNext ==
    \/ ClientRuns \/ TimerFires
    \/ LoopReads \/ LoopEnds
    \/ SinkAccepts \/ WriteFails
    \/ CleansUp
    \/ Others /\ UNCHANGED <<reader, sink, timer, outcome, cleanup, result>>

ConnectSpec == ConnectInit /\ [][ConnectNext]_allVars

\* The thread's own steps, the timer among them.  Neither the server nor the
\* verifier owes connect() anything.
ThreadFairness ==
    /\ WF_allVars(ClientRuns)
    /\ WF_allVars(TimerFires)
    /\ WF_allVars(LoopReads)
    /\ WF_allVars(reader = "cancelled" /\ LoopEnds)
    /\ WF_allVars(CleansUp)

ThreadSpec == ConnectSpec /\ ThreadFairness

\* And a socket that takes what it is given, or fails.
SocketSpec == ThreadSpec /\ WF_allVars(SinkAccepts)

-----------------------------------------------------------------------------
(***************************************************************************)
(* Properties                                                              *)
(***************************************************************************)

\* Whichever of ready, close and timer comes first decides the promise, and the
\* others then change nothing: a timer that has been cleared does not fire later,
\* and authentication that completes behind a timeout is not success
\* (socket-connect.ts:52-61).
FirstDecides ==
    /\ timer = "fired" <=> outcome = "timeout"
    /\ outcome = "ready" => called # <<>> /\ called[1] = "ready"
    /\ outcome = "closed" => \A i \in DOMAIN called : called[i] # "ready"

\* A caller whose connect() is rejected is left with nothing that goes on: the
\* client is closed, though a timeout closes it only by way of the read loop, and
\* the loop has ended (socket-connect.ts:35-49, 62-79).
NothingGoesOn == result = "rejected" => client.closed /\ reader = "stopped"

\* Nothing is handed to the socket behind the rejection, not even when the
\* verifier of a host key answers late (socket-connect.ts:53, client.ts:258-260).
QuietOnceRejected ==
    [][result = "rejected" => Len(to_server') <= Len(to_server)]_allVars

\* connect() comes to an end, whatever server and verifier leave undone, on a
\* socket that takes what is written or fails: SocketSpec assumes so.  On one that
\* does neither the catch handler waits in writer.close() for ever
\* (socket-connect.ts:69), which this property cannot see.
ConnectSettles == <>(result # "pending")
=============================================================================
