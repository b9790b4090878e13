------------------------------- MODULE Client -------------------------------
(***************************************************************************)
(* SshClient (src/client.ts): one thread of JavaScript that runs a call to *)
(* its end, with the user's callbacks called from the middle of it.  A     *)
(* callback may call the client again, so what runs is a stack of frames,  *)
(* the top one first; a frame names the place in the source where it goes  *)
(* on.  With an empty stack the thread is idle, and the next call or the   *)
(* continuation of a promise may start.                                    *)
(***************************************************************************)
EXTENDS Bindings, FiniteSets

CONSTANTS
    Credentials,    \* privateKeyOrPassword: of {"none", "good", "badKey"}
    Verifiers,      \* is there a host-key callback: subset of BOOLEAN
    AutoShells,     \* options.autoShell: subset of BOOLEAN
    MaxExecs        \* bound: calls of exec()

ASSUME ClientAssumption ==
    /\ Credentials \subseteq {"none", "good", "badKey"}
    /\ Verifiers \subseteq BOOLEAN
    /\ AutoShells \subseteq BOOLEAN
    /\ MaxExecs \in Nat

\* The ids that can come up: one for each exec(), one for the shell.
Channels == 1..(MaxExecs + 1)

VARIABLES
    options,        \* what the client was built with
    engine,         \* its WasmSshSession
    stack,
    client,         \* its fields
    promise,        \* id -> the state of exec()'s promise
    output,         \* id -> the ExecResult collected so far
    called,         \* the ready, error and close callbacks called, in order
    to_server       \* handed to the callback of onSendToServer

Frame(at, arg) == [at |-> at, arg |-> arg]

Do(at) == Frame(at, "none")

Callback(name) == Frame("callback", name)

Running(at) == stack # <<>> /\ stack[1].at = at

Idle == stack = <<>>

\* Frames that run before the top frame goes on, and frames in its place.
Call(frames) == stack' = frames \o stack

Then(frames) == stack' = frames \o Tail(stack)

Results == UNCHANGED <<promise, output>>

ClientInit ==
    /\ options \in [credential : Credentials, hostKeyCb : Verifiers, autoShell : AutoShells]
    /\ engine = NewEngine
    /\ stack = <<>>
    /\ client = [closed |-> FALSE, intentionalClose |-> FALSE, awaitingPasswordInput |-> FALSE,
                 shellChannelId |-> 0, execs |-> {}, verifier |-> "none"]
    /\ promise = [id \in Channels |-> "none"]
    /\ output = [id \in Channels |-> [data |-> <<>>, exited |-> FALSE]]
    /\ called = <<>>
    /\ to_server = <<Msg("ident")>>    \* onSendToServer has flushed

-----------------------------------------------------------------------------
\* The user's calls, from outside or from a callback.

Pump == <<Do("flush"), Do("poll")>>

FeedFromServer(msgs) ==
    /\ ~client.closed
    /\ engine' = FeedIncoming(engine, msgs)
    /\ Call(<<Do("drive")>> \o Pump)
    /\ UNCHANGED <<options, client, called, to_server>> /\ Results

Close ==
    /\ ~client.closed
    /\ client' = [client EXCEPT !.intentionalClose = TRUE]
    /\ engine' = NotifiedClosed(engine)
    /\ Call(Pump)
    /\ UNCHANGED <<options, called, to_server>> /\ Results

OpenExec ==
    /\ Cardinality({id \in Channels : promise[id] # "none"}) < MaxExecs
    /\ engine' = Opened(engine, "exec")
    /\ client' = [client EXCEPT !.execs = @ \cup {engine.next_id}]
    /\ promise' = [promise EXCEPT ![engine.next_id] = "pending"]
    /\ Call(<<Do("flush")>>)
    /\ UNCHANGED <<options, output, called, to_server>>

\* Mutant of Exec: a closed client is asked all the same.
ExecUnchecked == OpenExec

\* A closed client rejects at once, and nothing else happens.
Exec == ~client.closed /\ OpenExec

\* Mutant of Enter: the prompt stays.
EnterKeepsPrompt ==
    /\ ~client.closed /\ client.awaitingPasswordInput
    /\ Call(<<Callback("terminal"), Do("submit")>>)
    /\ UNCHANGED <<options, client, engine, called, to_server>> /\ Results

\* sendInput at the password prompt: the keys that end the line.  Input behind
\* an Enter in the same call is dropped.  (At a shell: ChannelFlow.)
Enter ==
    /\ ~client.closed /\ client.awaitingPasswordInput
    /\ client' = [client EXCEPT !.awaitingPasswordInput = FALSE]
    /\ Call(<<Callback("terminal"), Do("submit")>>)
    /\ UNCHANGED <<options, engine, called, to_server>> /\ Results

CtrlC ==
    /\ ~client.closed /\ client.awaitingPasswordInput
    /\ client' = [client EXCEPT !.awaitingPasswordInput = FALSE]
    /\ Call(<<Frame("shutdown", "auth")>>)
    /\ UNCHANGED <<options, engine, called, to_server>> /\ Results

\* Mutant of VerifierAnswers: nothing is flushed behind the decision.
VerifierAnswersUnflushed(accept) ==
    /\ Idle /\ client.verifier = "pending"
    /\ client' = [client EXCEPT !.verifier = "settled"]
    /\ engine' = Decided(engine, accept)
    /\ Call(<<Do("drive")>>)
    /\ UNCHANGED <<options, called, to_server>> /\ Results

\* The verifier's promise is fulfilled: its continuation runs on an idle thread.
\* Only the output is flushed behind the decision, nothing is polled.
VerifierAnswers(accept) ==
    /\ Idle /\ client.verifier = "pending"
    /\ client' = [client EXCEPT !.verifier = "settled"]
    /\ engine' = Decided(engine, accept)
    /\ Call(<<Do("drive"), Do("flush")>> \o
            (IF accept THEN <<>> ELSE <<Frame("shutdown", "hostKey")>>))
    /\ UNCHANGED <<options, called, to_server>> /\ Results

-----------------------------------------------------------------------------
\* The frames.

Drive ==
    /\ Running("drive")
    /\ \/ DriveGoesOn(engine) /\ engine' = DriveOne(engine) /\ UNCHANGED stack
       \/ ~DriveGoesOn(engine) /\ Then(<<>>) /\ UNCHANGED engine
    /\ UNCHANGED <<options, client, called, to_server>> /\ Results

FlushOutgoing ==
    /\ Running("flush")
    /\ to_server' = to_server \o engine.outgoing
    /\ engine' = Taken(engine)
    /\ Then(<<>>)
    /\ UNCHANGED <<options, client, called>> /\ Results

\* pump's loop ends.
PolledAll ==
    /\ Running("poll") /\ engine.events = <<>>
    /\ Then(<<Do("flush")>>)
    /\ UNCHANGED <<options, engine, client, called, to_server>> /\ Results

\* A user's callback returns.
Returns ==
    /\ Running("callback")
    /\ Then(<<>>)
    /\ UNCHANGED <<options, engine, client, called, to_server>> /\ Results

\* promptForPassword.
Prompt ==
    /\ Running("prompt")
    /\ client' = [client EXCEPT !.awaitingPasswordInput = TRUE]
    /\ Then(<<Callback("terminal")>>)
    /\ UNCHANGED <<options, engine, called, to_server>> /\ Results

\* authenticate_password with the line that was typed.
Submit ==
    /\ Running("submit")
    /\ engine' = Authenticated(engine)
    /\ Then(<<Do("flush")>>)
    /\ UNCHANGED <<options, client, called, to_server>> /\ Results

\* AuthSuccess goes on behind readyCb.
OpenShell ==
    /\ Running("openShell")
    /\ IF options.autoShell
       THEN /\ engine' = Opened(engine, "shell")
            /\ client' = [client EXCEPT !.shellChannelId = engine.next_id]
            /\ Then(<<Do("flush")>>)
       ELSE Then(<<>>) /\ UNCHANGED <<engine, client>>
    /\ UNCHANGED <<options, called, to_server>> /\ Results

\* shutdown: the error is reported, then the promises are rejected.
Shutdown ==
    /\ Running("shutdown")
    /\ LET err == stack[1].arg
       IN  IF err = "none"
           THEN Then(<<Frame("settle", err)>>) /\ UNCHANGED called
           ELSE /\ called' = Append(called, "error")
                /\ Then(<<Callback("error"), Frame("settle", err)>>)
    /\ UNCHANGED <<options, engine, client, to_server>> /\ Results

RejectAll == promise' = [id \in Channels |-> IF id \in client.execs THEN "rejected" ELSE promise[id]]

\* Mutant of Settle: the close callback is called before `closed` is set.
SettleClosedLate ==
    /\ Running("settle")
    /\ RejectAll
    /\ IF client.closed \/ stack[1].arg = "again"
       THEN Then(<<>>) /\ client' = [client EXCEPT !.execs = {}, !.closed = TRUE]
                       /\ UNCHANGED called
       ELSE /\ client' = [client EXCEPT !.execs = {}]
            /\ called' = Append(called, "close")
            /\ Then(<<Callback("close"), Frame("settle", "again")>>)
    /\ UNCHANGED <<options, engine, output, to_server>>

Settle ==
    /\ Running("settle")
    /\ RejectAll
    /\ client' = [client EXCEPT !.execs = {}, !.closed = TRUE]
    /\ IF client.closed
       THEN Then(<<>>) /\ UNCHANGED called
       ELSE called' = Append(called, "close") /\ Then(<<Callback("close")>>)
    /\ UNCHANGED <<options, engine, output, to_server>>

-----------------------------------------------------------------------------
\* handleEvent, on the event just polled.

Event == Head(engine.events)

Handles(type) ==
    /\ Running("poll") /\ engine.events # <<>>
    /\ Event.type = type

HandleHostKeyVerify ==
    /\ Handles("HostKeyVerify")
    /\ IF options.hostKeyCb
       THEN /\ client' = [client EXCEPT !.verifier = "pending"]
            /\ engine' = DataTaken(Polled(engine))
            /\ Call(<<Callback("hostKey")>>)
       ELSE /\ engine' = Decided(DataTaken(Polled(engine)), TRUE)
            /\ Call(<<Do("drive"), Do("flush")>>)
            /\ UNCHANGED client
    /\ UNCHANGED <<options, called, to_server>> /\ Results

\* attemptInitialAuth.
HandleReadyForAuth ==
    /\ Handles("ReadyForAuth")
    /\ \/ /\ options.credential = "none"
          /\ engine' = Polled(engine) /\ Call(<<Do("prompt")>>)
       \/ /\ options.credential = "good"
          /\ engine' = Authenticated(Polled(engine)) /\ Call(<<Do("flush")>>)
       \/ /\ options.credential = "badKey"
          /\ engine' = Polled(engine) /\ Call(<<Frame("shutdown", "auth")>>)
    /\ UNCHANGED <<options, client, called, to_server>> /\ Results

\* The server still takes a password, or it does not.
HandleAuthFailure ==
    /\ \/ Handles("AuthFailure") /\ Call(<<Callback("terminal"), Do("prompt")>>)
       \/ Handles("AuthFailureNoPassword") /\ Call(<<Frame("shutdown", "auth")>>)
    /\ engine' = Polled(engine)
    /\ UNCHANGED <<options, client, called, to_server>> /\ Results

HandleAuthSuccess ==
    /\ Handles("AuthSuccess")
    /\ engine' = Polled(engine)
    /\ called' = Append(called, "ready")
    /\ Call(<<Callback("ready"), Do("openShell")>>)
    /\ UNCHANGED <<options, client, to_server>> /\ Results

Settled(how) ==
    /\ promise' = IF Event.id \in client.execs
                  THEN [promise EXCEPT ![Event.id] = how] ELSE promise
    /\ client' = [client EXCEPT
                    !.execs = @ \ {Event.id},
                    !.shellChannelId = IF @ = Event.id THEN 0 ELSE @]

HandleOpenFailed ==
    /\ Handles("ChannelOpenFailed")
    /\ engine' = Polled(engine)
    /\ Settled("rejected")
    /\ IF Event.id = client.shellChannelId
       THEN called' = Append(called, "error") /\ Call(<<Callback("error")>>)
       ELSE UNCHANGED <<called, stack>>
    /\ UNCHANGED <<options, output, to_server>>

\* The bytes are those that poll_event stashed.
HandleData ==
    /\ Handles("ChannelData")
    /\ engine' = DataTaken(Polled(engine))
    /\ output' = IF Event.id \in client.execs
                 THEN [output EXCEPT ![Event.id].data = @ \o EventData(Polled(engine))]
                 ELSE output
    /\ IF Event.id \notin client.execs /\ Event.id = client.shellChannelId
       THEN Call(<<Callback("terminal")>>) ELSE UNCHANGED stack
    /\ UNCHANGED <<options, client, promise, called, to_server>>

\* Mutant of HandleExitStatus: the command is taken to be over.
HandleExitStatusResolves ==
    /\ Handles("ChannelExitStatus")
    /\ engine' = Polled(engine)
    /\ Settled("resolved")
    /\ output' = [output EXCEPT ![Event.id].exited = TRUE]
    /\ UNCHANGED <<options, stack, called, to_server>>

HandleExitStatus ==
    /\ Handles("ChannelExitStatus")
    /\ engine' = Polled(engine)
    /\ output' = IF Event.id \in client.execs
                 THEN [output EXCEPT ![Event.id].exited = TRUE] ELSE output
    /\ UNCHANGED <<options, stack, client, promise, called, to_server>>

\* Mutant of HandleChannelClosed: a command that left no exit status is not over.
HandleChannelClosedIfExited ==
    /\ Handles("ChannelClosed")
    /\ engine' = Polled(engine)
    /\ IF output[Event.id].exited THEN Settled("resolved") ELSE UNCHANGED <<promise, client>>
    /\ UNCHANGED <<options, stack, output, called, to_server>>

HandleChannelClosed ==
    /\ Handles("ChannelClosed")
    /\ engine' = Polled(engine)
    /\ Settled("resolved")
    /\ UNCHANGED <<options, stack, output, called, to_server>>

\* Mutant of HandleTerminal: a deliberate close needs no shutdown.
HandleTerminalUnlessIntended ==
    /\ Handles("Disconnected") \/ Handles("Unrecoverable")
    /\ engine' = Polled(engine)
    /\ IF client.intentionalClose THEN UNCHANGED stack ELSE Call(<<Frame("shutdown", Event.type)>>)
    /\ UNCHANGED <<options, client, called, to_server>> /\ Results

HandleTerminal ==
    /\ Handles("Disconnected") \/ Handles("Unrecoverable")
    /\ engine' = Polled(engine)
    /\ Call(<<Frame("shutdown", IF client.intentionalClose THEN "none" ELSE Event.type)>>)
    /\ UNCHANGED <<options, client, called, to_server>> /\ Results

\* The events it does not look at.
HandleOther ==
    /\ Handles("ChannelOpened")
    /\ engine' = Polled(engine)
    /\ UNCHANGED <<options, stack, client, called, to_server>> /\ Results

\* The thread goes on.
Run ==
    \/ Drive \/ FlushOutgoing \/ PolledAll \/ Returns
    \/ Prompt \/ Submit \/ OpenShell \/ Shutdown \/ Settle
    \/ HandleHostKeyVerify \/ HandleReadyForAuth \/ HandleAuthFailure \/ HandleAuthSuccess
    \/ HandleOpenFailed \/ HandleData \/ HandleExitStatus \/ HandleChannelClosed
    \/ HandleTerminal \/ HandleOther
=============================================================================
