# A verification project for wasm-ssh

wasm-ssh is an SSH client that runs without an operating system under it: a
sans-IO session engine in Rust (`ssh-core`), compiled to WebAssembly
(`wasm-ssh-bindgen`) and driven by TypeScript (`src/client.ts`) that moves bytes
between the engine and a socket. The engine never blocks and never reads a
clock. What makes it hard is *order*: packets, host calls and host answers
arrive in every interleaving, and each of them may find the session in a state
that a test never produced.

This directory holds TLA+ models of the engine, the TLC configurations that
check them, and proofs about them that TLAPS checks. Paths below are relative to
the repository.

## The system

| Part | State | Operations | Hard part |
| --- | --- | --- | --- |
| **Session** `ssh-core/src/session.rs` | phase, event queue, `incoming`/`outgoing` buffers, negotiated algorithms, the active key exchange, session id, two ciphers and the two pending ones, `pending_auth` | `feed_incoming` → `drive`, one handler per message; `poll_event`, `provide_host_key_decision`, `authenticate_*`, `open_*`, `channel_send`, `close_channel`, `notify_transport_closed` | cipher activation against buffered packets; the pause for the host key; calls in the wrong phase |
| **Packet layer** `ssh-core/src/transport/packet.rs` | key and counter of each direction | `seal`, `open`, `peek_total_length`, `with_initial_seq` | nonces of two ends that must never drift |
| **Negotiation, key exchange, host keys** `ssh-core/src/transport/*` | none beyond one ephemeral key | `negotiate_all`, `diffie_hellman`, `exchange_hash`, `derive` | cryptography; the preference rule |
| **Identification** `ssh-core/src/ident.rs` | partial line, bytes scanned, result | `feed` | lines split over feeds |
| **ChannelTable, Channel** `ssh-core/src/connection/*` | id → channel: remote id, kind, lifecycle, two windows; `channel_setup`, `pending_exec`, `pending_pty` in the session | `open`, `handle_message`, `build_data_messages`, `on_data_consumed`, `on_window_adjust`, `continue_channel_setup` | window arithmetic; messages that cross a close |
| **User authentication** `ssh-core/src/auth/*` | none | message encoding, signing | the order is the session's |
| **Bindings** `wasm-ssh-bindgen/src/lib.rs` | the stashed bytes of the last event | delegation | the stash and the next poll |
| **SshClient** `src/client.ts` | closed flag, password line, shell channel, pending `exec` promises | `feedFromServer`, `pump`, `handleEvent`, `sendInput`, `exec`, `close`, `shutdown` | re-entrant callbacks, asynchronous host-key answer |
| **connect()** `src/socket-connect.ts` | one promise, one timer, reader and writer | reader loop, ready/close/timeout | three outcomes racing |
| **FakeServer** `ssh-core-testkit/src/lib.rs` | the server's phase and ciphers | one handler per message | it is the only peer of the tests |

The parts interact by calls only. `SshClient.feedFromServer` hands bytes to
`Session::feed_incoming`, which runs `drive` until the input is used up, the
session waits for the host-key answer, or it is closed; then `pump` takes the
outgoing bytes and polls events, and the handlers of events call back into the
session. There is one thread; concurrency is between the two ends of the
connection, the host's calls, and the promises of the host.

What makes each part correct:

* Session: both ends switch ciphers at the same packet and count nonces alike;
  nothing passes the host-key gate unaccepted; the event stream is the one the
  host was promised; no server that keeps to the protocol can make it fail; no
  request is left unanswered; no `expect` fails.
* Channel: the windows of both ends account for every byte; no overrun; no
  window is left at zero for good; all the data arrives.
* ChannelTable: each open ends in exactly one of opened or failed, each opened
  channel in one close; nothing survives its channel; messages that cross a
  close are harmless.
* SshClient and connect(): each `exec` promise settles once; `onClose` fires
  once; no event waits for unrelated input.
* Ident, KEXINIT, padding: the incremental code computes what its one-shot
  definition does.

## Modules

Three systems are modelled, each at the level at which its hazards lie; they meet
in the session's calls and events.

| Module | Models | Uses |
| --- | --- | --- |
| `Wire` | two streams of packets and the packet cipher of one direction | |
| `Session` | the session up to `Connected`: one action per iteration of `drive`, one per host call | `Wire` |
| `Server` | its peer: FakeServer's handlers, and what a real server may do besides | `Wire` |
| `Handshake` | client, server and host together; the properties | `Session`, `Server` |
| `SessionPromise` | the abstract session: what a host that polls events may rely on | |
| `HandshakeTypeProofs`, `HandshakeProofs` | its inductive type invariant; the host-key gate, no panics | `Handshake` |
| `LockstepProofs` | lockstep of the ciphers in both directions, no fatal errors, the refinement of `SessionPromise` | `HandshakeProofs` |
| `Channel` | the window arithmetic of `Channel` as operators on records | |
| `ChannelFlow` | one open channel, its two streams, a server that keeps RFC 4254 5.2 | `Channel` |
| `ChannelFlowProofs` | the accounts of both windows; the messages are those of the code's loop | `ChannelFlow` |
| `ChannelTable` | the connected session: the table of channels, `handle_message`, the setup of exec and shell channels, the host's calls | `Channel` |
| `ConnectionServer` | a server that keeps RFC 4254, in every order it allows | `ChannelTable` |
| `Connection` | session, host and server together; the properties | `ConnectionServer` |
| `ConnectionProofs` | its inductive invariant; types, no panic, no failure, replies, and the refinement | `Connection` |
| `ChannelPromise` | the abstract channel: the events a host may expect of one id | |
| `Bindings` | the session as `WasmSshSession` shows it: feed, drive, events, the stashed bytes | |
| `Client` | `SshClient`: its calls and the arms of `handleEvent`, with callbacks that may call back | `Bindings` |
| `ClientHost` | the client, its user and a server; the properties | `Client` |
| `ClientProofs` | one close, no orphaned promise, nothing unsent, complete results | `ClientHost` |
| `Connect` | `connect()`: read loop, writer, timer and catch handler around it; the properties | `ClientHost` |
| `ConnectProofs` | one attempt at a time, the first ready or close decides, nothing goes on behind a rejection | `Connect`, `ClientProofs` |
| `Framing` | from bytes to payloads: `IdentExchange`, framing, padding, the part of `drive` that feeds them, its pause for the host key | |
| `ByteStream` | a server that writes bytes, a transport that cuts them anywhere, a host that answers; the properties | `Framing` |
| `ByteStreamProofs` | the padding, the bound of the buffer, and that neither the cuts nor the moment of the answer matter | `ByteStream` |
| `MCHandshake`, `MCChannelFlow`, `MCConnection`, `MCClientHost`, `MCConnect`, `MCByteStream` | values for TLC | |

### How state and steps correspond to the code

**Streams.** A stream is the log of everything written to it with the index of
its reader. An entry is one packet, or the identification line. `drive` takes
bytes, but a packet that is not complete has no effect (`drive_packet_phase`
returns `Ok(false)`), so a packet still incomplete is simply not yet read. The
unread part of `incoming` covers the network and the session's buffer at once.

**Packets.** A packet carries the cipher it was sealed with: algorithm, the key
exchange its key was derived in, and the counter that makes the nonce. It opens
exactly under an equal cipher; this is the AEAD's promise and the only thing
taken from cryptography, together with a signature being valid or not.
chacha20-poly1305 counts on from the plaintext packets, AES-GCM from a fresh
invocation counter; `WithInitialSeq` has both.

**Steps.** Each action of `Session` is one whole iteration of `drive` on the
next packet (open, drain, dispatch, handler) or one whole host call. `drive`
iterates without giving the host control, yet host steps may fall between two
iterations in the model: that is the execution in which the second packet
arrived after the host's call, so the model adds no behaviour. The `drive()` at
the end of `provide_host_key_decision` is the iterations that follow it.

**Events.** `events` is the log of all events queued, `polled` how many the host
has seen. An `Unrecoverable` event is written as the error it carries.

**Panics.** `send_ciphered` without a cipher fails an `expect`; the model sets
`panicked`, after which the wasm instance takes no further step.

**Host.** `Handshake`'s host is what `client.ts` makes of the session: it answers
the host-key question once it has polled it (at any later moment, the verifier
being asynchronous), authenticates once for each `ReadyForAuth` or `AuthFailure`
polled, opens channels after `AuthSuccess`, and closes at any time. `HostMay`
names the optional parts: refusing the key, closing, and calling `exec()` before
authentication, which `client.ts:140` does not prevent.

**Server.** It answers as FakeServer does, may in addition send its KEXINIT
first and its NEWKEYS at any time after its reply, and may refuse any
credential. `Quirks` lists what else it may do: `debug`, `earlyDebug` (DEBUG
before NEWKEYS), `disconnect`, `globalRequest`, `banner`, `rekey` (a KEXINIT in
mid-session), `badSignature`. The quirks are external to the code; they are
messages `dispatch` has an arm, or a documented refusal, for.

**Channels.** `ChannelFlow` starts where the open confirmation has been handled.
The two streams are logs again; a message is recorded by the running totals of
its writer, so that what crossed what can be read off the logs.
`build_data_messages`' loop is written in closed form (`Messages`, `SentAfter`)
and `ChunksAreTheLoops` compares it, in every reachable channel state, with the
loop itself written as a recursive function (`ChunkLoop`); `ChunksCorrect` proves
them equal.

**The channel table.** `ChannelTable` begins in `Connected`. The two streams are
queues; what one side has written and the other not read is what crosses. A
handler of the code is one action: `ClientHandles` takes the head of the queue
through `handle_message` and, for a reply, through `continue_channel_setup`, with
the messages both send. `channels`, `channel_setup`, `pending_exec` and
`pending_pty` are the code's maps; the entries that a refused or closed channel
leaves in the last three stay in the model as well. Channels count from 0 in an
id space of `ID_SPACE`, the server's ends from `ID_SPACE`, so an id taken for the
other's shows. Commands, pty options and payloads are left out, `DATA` and
`EXTENDED_DATA` are one message, and so are the two exit requests. Events are
logged per channel, since channels are what the host tells apart.

The host of `Connection` sends, resizes and closes any channel it has opened,
also one that is not confirmed yet, but none it has closed. (It may not call
`close_channel` before the confirmation: that needs an id of the server.)
The server answers opens and requests in any order across channels and in order
within one. With `talkAfterDenial` it keeps sending on a channel whose setup it
has denied until it reads the client's CLOSE; RFC 4254 allows that. `connection`
is without it, `refused_setup` shows what it leads to.

**The client.** JavaScript runs one call to its end, but the user's callbacks are
called from the middle and may call the client again. `Client`'s `stack` is what
is still to be run, the top frame first: a frame names a place in the source
(`"drive"`, `"flush"`, `"poll"`, a callback, the continuation of `shutdown`). A
call puts its frames on top, a step replaces the top frame by what it leads to,
and with an empty stack the thread is idle. While a frame is a callback the user
may call `close()` and `exec()`. The session under it is `Bindings`: input not
used, output not taken, the queue of events, the stash of bytes and the next
channel id (from 1 here, 0 being no shell). It is the session of `Session` and
`ChannelTable` as far as a host can see it.

The steps of the server in `ClientHost` are taken while the thread is idle. This
loses nothing: what a server sends is read no sooner than the next feed, and
what it reads was written before. A read of the socket that has been answered
and the turn of `connect()`'s loop it leads to are one step, as a promise's
continuation precedes timers and input; the awaits of the catch handler are
steps of their own.

**Bytes.** In `Framing` bytes are numbers. `IdentExchange::feed` is one step a
byte; the code takes the bytes of a portion off `incoming` together, behind its
loop, and nothing looks at `incoming` in between. Its check for UTF-8 is left
out. A tag is right or wrong, the padding is zeros. `drive` is `Drive` again and
again while `driving`. Of `dispatch` the module keeps what decides how the bytes
that follow are read: KEXINIT and the reply to it, which ends in
`AwaitingHostKeyDecision`, NEWKEYS, which switches the receive cipher, the messages
that are an error now (`Unexpected`), and DISCONNECT, which closes the session with
bytes left behind it. In the pause `feed_incoming` appends and `drive` returns at
once (`Stopped`, `session.rs:159`); `ProvideHostKeyDecision` drives again, as the
last line of the code's does. One key exchange is written in its order, or a part of
it out of order, which must fail; a second exchange is `Handshake`'s. Other messages
are any payload, all of which `dispatch` handles here.

## Runs

| Run | Shows |
| --- | --- |
| `handshake` | Against a server that keeps to the protocol, with a host that may refuse, close, and use either credential: `LockstepIn`, `LockstepOut` (every packet sent opens under the cipher the other end holds when it comes to it), `NeverFatal` (the session does not fail by itself), `NoPanic`, and the two liveness properties `AcceptedSettles` and `RequestSettles`. |
| `quirks` | Against every quirk above, both protocol versions, all algorithm lists: `AcceptGate` (nothing but identification and key exchange leaves before the key is accepted; no credential in plaintext) and `KeepsPromise`, the refinement of `SessionPromise`. |
| `channel_flow` | With a host that keeps what `channel_send` did not take: windows account for every byte, no overrun, no starvation, chunking as the loop has it, everything arrives. |
| `connection` | One channel with three optional calls or messages crossing everything else, and two channels opened, set up and ended in every order. `NeverFails`: no crossing of messages makes the session fail. `NoPanic`: no `expect` on a missing channel or server id, whatever entries are left behind. `RepliesMatch`: a reply names no request, yet always meets the step that waits for it. `NoStrays`: nothing is sent behind a CLOSE. `KeepsPromise`: the refinement of `ChannelPromise`. `OpenSettles`, `CloseSettles`: every open is settled and every channel that ends leaves the table. |
| `client` | A command and a shell, callbacks that call `close()` and `exec()`, a verifier that answers late or never, a server that refuses, delays, and ends the session at any moment. `ClosesOnce`, `NoOrphans`, `NothingUnsent`; `ResultsComplete` (a resolved `exec()` has all its output and nothing else); `ExecsSettle`, `EndIsNoticed`. |
| `connect` | `connect()` with every credential, with and without a verifier and a shell, on a socket that may fail in both directions. `FirstDecides` (the first of ready, close and timer), `NothingGoesOn` and `QuietOnceRejected` (a rejected caller is left with a closed client, a loop that has ended, and no more output), `OneAttempt` (of authentication at a time), `ConnectSettles`. |
| `byte_stream` | Banner lines, identification, the key exchange and other packets, plain and sealed, well-formed and not, cut into portions in every way, with a host that accepts or rejects the key at any moment behind the question. `SplitsDoNotMatter` compares what is dispatched, whether the session waits for the host, and whether it has failed, with what the log of everything written says: nothing is read in the pause, and what came meanwhile is read behind the answer without new input. `PaddingConforms`. `BufferBounded`: less than one packet is left when `drive` has returned, unless the session is closed or waits for the host. |
| `early_debug` | **Violation.** A DEBUG before the server's NEWKEYS is "tolerated" by `dispatch`, but the receive cipher starts from the constant 3: the first chacha20-poly1305 packet then fails. |
| `asymmetric` | **Violation.** `on_kex_result` keys both directions with the client-to-server cipher; a server that prefers another in its own direction gets a client that cannot read it. |
| `dropped_input` | **Violation.** The host as written: `sendInput` ignores what `channel_send` took. |
| `refused_setup` | **Violation.** After a denied setup the channel is forgotten at once: a request the server sent before it read the client's CLOSE has an unknown id, and the whole session fails as at a violation, which it is not. |
| `paused_buffer` | **Violation.** In the host-key pause nothing looks at a length: a session without keys holds more than the packet to which its limits are said to keep it. It is what `BufferBounded` has to leave out. |

Every property of a passing run has a mutant in `PROJECT.json`: a definition
changed the way a slip in the code would change it, under which TLC finds the
property violated.

### What else differs from the docs

Met while modelling, and noted as hazards rather than given runs of their own:

* `open_exec` and `open_shell` look at no phase (`session.rs:540`): a session already
  closed, with the terminal event still unpolled, seals a CHANNEL_OPEN, while
  `event.rs:82` excludes further output.
* A CLOSE from the server is not answered (`connection/mod.rs:163`), and with the
  channel gone from the table no CLOSE can be sent later, while `event.rs:75` calls the
  channel closed in both directions.
* `onError` may come after `onClose` (`client.ts:353`), when a last `AuthFailure` and a
  DISCONNECT arrive in one feed: `closed` guards the second close, not the second
  error. `client.ts:105` puts the close behind a fatal error.
* `ChannelOpenFailed` may follow `ChannelOpened`: a denied setup is reported that
  way (`session.rs:661`). `ChannelPromise` allows it.
* The events that the `drive` behind a host-key decision queues are not polled
  (`client.ts:258`). A failure among them closes the client only when the stream
  ends, and `close()` then makes it look deliberate: its error is never reported.
* The rejection of `connect()` waits for `writer.close()`
  (`socket-connect.ts:69`): a socket that neither takes what is written nor fails
  holds back even the timeout's. `ConnectSettles` assumes such a socket away and
  says nothing about it.

### Bounds

* `MaxLog` (8 or 9 packets in a log) stops what the server may repeat for ever
  and what the host may. A complete handshake with a refused and a granted
  request is 7 client packets and 7 from the server, so each quirk still fits in
  beside it, before or behind every step.
* `Offers` is one list per cipher in `handshake`, and every subset for both
  directions, with or without a common rest, in `quirks`.
* `channel_flow` scales the window from 2 MiB to 4 and the packet from 32 KiB
  to 2, and sets `U32_MAX` to 4 as well, the tightest there is: both windows touch
  the limit that the saturating operations guard. `ServerWindows` and
  `ServerMaxPackets` include 0. Input 3 is more than any window confirmed; Output
  5 more than the initial window, so credit must have come back.
* `MaxGrant` bounds one WINDOW_ADJUST, and the server stops granting when the
  total would do for the input. Empty DATA messages, which change nothing, are
  left out.
* `connection`: windows of 2 and packets of 1 byte, `U32_MAX` 3, one DATA each
  way, since the windows are `channel_flow`'s subject. `MaxOpens` 2: two channels
  are what it takes to mistake one for another; setup has one to three steps, and
  every pair of steps of the two is reached. `MaxExtras` is how many optional
  calls and messages (send, resize, close; data, keepalive, window) there are:
  three with one channel, which covers each of them crossing each other and a
  close, none with two. `ID_SPACE` is one more than `MaxOpens`: `next_id` does not
  wrap here, nor will it before 2^32 opens.
* `client`: one command and the shell; one chunk of output a channel, with
  the exit status before or behind it; one close by the user. `MaxNesting` 6 is
  twice the depth at which the code itself calls a callback, so that a callback can
  call and be called again inside that call.
  Authentication is granted at once here (`MaxFailures` 0): refusals are
  `connect`'s, where two in a row fit before the last.
* `connect`: no commands and no output (`MaxExecs`, `MaxData` 0): the caller has no
  client before `connect()` resolves.
* `byte_stream`: at most one banner, one key exchange, and besides it one more packet
  or one thing that is none (`MaxOthers` 1), before, inside or behind the exchange;
  payloads of one byte (the messages acted on), of 5, whose padding would come out
  below the minimum, and of 20, which make a packet of exactly `MAX_PACKET_LENGTH` 32.
  Portions are of every size. `MAX_SCAN_BYTES` 18 is passed by the longest
  combination of lines and just not by others. The code's limits are 65536 and
  262144 bytes and a tag of 16.
* `paused_buffer`: those of `byte_stream`, without malformed packets.

### Fairness

`drive` runs whenever bytes arrive and `pump` polls after it, so the session's
steps and the polling are weakly fair; the server fulfils its obligations; a
transport whose peer is gone reports its end (`socket-connect.ts` closes on
`done`). The host owes nothing: it need not answer the host-key question or
authenticate, and both liveness properties are conditional on its having done
so. In `ChannelFlow` the host offers its remaining input again and again, which
is what `session.rs:558` asks of it; the server reads, writes and grants.

In `Connection` the session handles what has arrived and the server reads, decides
opens and requests, and closes a channel when its program has exited or the client
has closed it. No program need ever end and no host need ever call.

In `ClientHost` the thread runs what it has begun, the reader reads, the server
answers, and a program ends some time, or `ExecsSettle` could not hold. In
`Connect` only what is `connect()`'s own is fair: its thread, with the timer, and
a socket that accepts writes or fails. `ConnectSettles` therefore holds against a
server that never answers, a user who never types and a verifier that never
decides; that is what the timer is for.

## Proofs

TLAPS checks these for all values of the constants, that is for logs of any
length, all offers and all quirks.

* `HandshakeTypeProofs!TypeCorrect`: `Spec => []TypeOK`. Its inductive form
  `TypeInv` adds that an active key exchange has negotiated algorithms, without
  which the derived cipher would have none, and that a server waiting for
  NEWKEYS has replied to an exchange.
* `HandshakeProofs!GateCorrect`: `Spec => []AcceptGate`. `AcceptGate` speaks of
  the logs and is not inductive: what the client sends depends on what the server
  has answered, and that on what the client has sent. `GateInv` closes the circle
  by describing the whole system for as long as the host has not accepted
  (`BeforeAccept`): no send cipher, no phase past the host-key question at either
  end, only key-exchange messages on the wire, no event that lets the host
  authenticate.
* `HandshakeProofs!NoPanicCorrect`: with no `exec()` before authentication
  (`"earlyExec" \notin HostMay`), `Spec => []NoPanic`: whenever a handler calls
  `send_ciphered` the cipher is there.
* `LockstepProofs`, for streams of any length. The key is that a packet's place in
  its stream decides how it is sealed (`CipherAt`): four plaintext packets, the last
  of them NEWKEYS, and then one cipher counting on. Each end's cipher is the one of
  the place it has come to, so the counters of the two ends are never compared.
  - `LockstepOutCorrect`: `Spec => []LockstepOut`, for all quirks. `OutInv` says what
    the client has written at each place (`ClientWrites`), how far it has come
    (`ClientStage`), what the server has read (`ServerReadsInStep`), and that there is
    one KEXINIT before the client has its keys and one KEX_REPLY ever
    (`ServerExchanges`): a second would replace the key the pending cipher comes from.
  - `SessionPromiseKept`: `Spec => KeepsPromise`, for all quirks. `StepsTold` maps
    every step to one of `SessionPromise`'s or to none. `AuthInv` adds that one
    authentication step is under way at a time (`OneTurn`: a request, an answer, an
    event or a question to the user), that it fits the phase (`TurnFits`), and that
    nothing is answered behind USERAUTH_SUCCESS (`GrantIsLast`): without it a late
    answer could report a refusal behind the grant.
  - `LockstepInCorrect`: `Spec => []LockstepIn` under `KeepsCount`: no DEBUG before
    NEWKEYS, and the same cipher agreed in both directions. `InInv` is the same
    account for the other direction (`ServerWrites`, `ClientReadsInStep`). Both
    hypotheses are needed: `early_debug` and `asymmetric` are what happens without.
  - `NeverFatalCorrect`: `Spec => []NeverFatal` under `KeepsToProtocol`, which adds
    no banner, no bad signature, version 2.0 and offers that share an algorithm. It
    allows DEBUG behind NEWKEYS, global requests, rekeying and DISCONNECT.
* `ChannelFlowProofs`: `AccountsCorrect` (`Spec => []WindowsAccount`),
  `OverrunsNever`, `StarvesNever` and `TypeCorrect`, for every window size, packet
  size, input and output. `FlowInv` adds to the accounts that logs only grow, that
  a message is either DATA or WINDOW_ADJUST, that the server keeps its own two
  limits, and that the client holds back less than the threshold: the last two
  bound what can be in flight, so that no saturating operation saturates.
  `FlowInv` itself was checked with TLC on the constants of `channel_flow` first.
* `ChannelFlowProofs!ChunksCorrect`: `Spec => []ChunksAreTheLoops`, for every length of
  data and every window. The induction principles are out of reach, so the argument is
  by least counterexample: a nonempty set of naturals has a least element (`Least`,
  from the library's well-foundedness of `<`). First, the loop's recursive equation has
  one solution; second, the closed form satisfies it, because one round of the loop
  takes the first piece and leaves the closed form of the rest (the lemmas on
  pieces).
* `ConnectionProofs`, for any number of channels, any messages of the host's and the
  server's own and queues of any length: `TypesKept`, `NeverPanics`,
  `SessionSurvives` (`NeverFails`, against a server that does not talk behind a
  denial), `RepliesAnswerTheirStep`, `NothingBehindClose` and `PromiseKept` (`Spec =>
  KeepsPromise`, the refinement of `ChannelPromise`). None of the properties is
  inductive: whether a message finds its channel in the table depends on everything
  still under way on that channel. `ChannelInv` says, for one channel, which messages
  may be in either queue given the stage of its life, its setup step and the
  server's end (`FitsIn`, `FitsOut`), that a step that waits has something to wait for
  (`SetupProceeds`), and what an event already reported excludes (`EventsMatch`).
  Which message may be behind which is a matter of pairs (`MayFollow`,
  `MayFollowOut`). It speaks of the queues as sets, so that taking a head and
  appending are two lemmas each (`ClientTakes`, `ServerTakes`; `SendsOne`,
  `ServerSays`), and of one channel only, so that every action is proved for its
  own channel and leaves the others' alone (`Untouched`). `ConnectionInv` was checked
  with TLC on the constants of `connection` and of `refused_setup` first.
* `ClientProofs`: `ClosedOnce`, `NoneOrphaned` and `AllSent` (`Spec =>
  []NothingUnsent`), for every number of commands, failures and chunks and every
  depth of calls from callbacks. Nothing in the properties speaks of the stack,
  and only the stack makes the third true: `StackInv` says that every `drive` has
  a `flush` directly below it and that output waits only while some `flush` is on
  the stack. The lemmas about pushing and popping frames (`Pushed`, `Popped`)
  reduce each step to the frames it pushes. `CloseInv` and `PromiseInv` tie `closed`
  to the close callback and every pending promise to `execs`; they hold
  across every nesting, because `shutdown` sets `closed` and rejects in one step.
* `ClientProofs!ResultsAreComplete`: `Spec => []ResultsComplete`, for every number of
  commands and chunks, and however the network and the callbacks interleave. The
  property compares two ends, a program's output and the result of `exec()`, and what
  lies between them is three queues: what the client has sent and the server not read
  (`Sent`), what the server has said and the session not handled, buffered or in the
  network (`Due`), and the events not polled. `Traced` is the account of one channel
  over them: at most one message is still to open it; what is collected, in an event
  and due add up to what was written; and an exit status is in exactly the places its
  program has put it. Nothing on a channel is said behind its close, in either queue
  (`EndsClosed`), so that a close that is polled finds nothing left of the rest. The
  account is in counts, whose lemmas (`CountAppend`, `CountTail`) say what a queue that
  grows, shrinks or hands on does to it. A number not yet given out
  has an empty account, which is what a new channel starts with. The stash of the
  bindings is right because an event is polled and read in one step (`PollTraced`).
  The invariant was checked with TLC on the constants of `client` first.
* `ConnectProofs!NothingLeft`: `ConnectSpec => []NothingGoesOn`, on top of the
  invariant of `ClientProofs`. `connect()` never closes the client; the read loop
  does, by a `close()` that only queues an event. `EndInv` follows that event: the
  end of a closed session is in the queue, or on the stack as a `shutdown`, or the
  client is closed; and a deliberate close with events still queued has a `poll`
  left to run. On an idle thread nothing of this remains but a closed client
  (`IdleClosed`), which is what the catch handler finds when it goes on behind
  `reader.cancel()`.
* `ConnectProofs`, on from there, for every server, user, transport and verifier:
  - `OneAtATime`: `ConnectSpec => []OneAttempt`. Typing and answers alternate, though
    no single check enforces it. `TurnInv` says why: from the version exchange to the
    last answer there is at most one request, response, question, prompt or open
    verifier anywhere between the two programs. Every step passes the turn on, keeps
    it or ends it (`TurnStep`), and a turn that has ended does not come back
    (`TurnKept`).
  - `FirstComes`: `ConnectSpec => []FirstDecides`. `FirstInv` orders the callbacks: a
    client that has begun a shutdown is `Over`, which is that its turn has ended or
    that it has polled a terminal event, behind which the queue is empty for good
    (`LastEvent`). All steps but one are `Calm`, and the one that is not, the handler
    of AuthSuccess, finds a session that is not over. `DecideInv` ties the timer and
    the promise to the order; a first ready that has not yet settled it is on top of
    the stack, which is why no timer can come between.
  - `QuietAfterwards`: `ConnectSpec => QuietOnceRejected`. Behind the rejection there
    is nothing to send (`AtRest`), and a verifier that answers late finds the
    session closed: its question was open, so the turn had not ended, so the shutdown
    came behind a terminal event.

  All parts of these invariants were checked with TLC on the constants of `connect`
  first.
* `ByteStreamProofs`: `Buffered` (`Spec => []BufferBounded`) and `Padded` (`Spec =>
  []PaddingConforms`), for all limits, tags, lines and payloads and both block
  sizes. A `drive` that has not stopped returns only for want of input, with a length
  it has checked (`Plausible`) before waiting for the packet, also when the pause has
  left many packets in the buffer. Of a session that waits for the host the theorem
  says nothing, as nothing could be said (`paused_buffer`). The padding is arithmetic
  modulo the block size (`UpToMultiple`).
* `ByteStreamProofs!SplitsNeverMatter`: `Spec => []SplitsDoNotMatter`, for every set of
  lines and payloads, every kind of malformed input, all limits, every way of
  cutting the stream and every moment of the answer. `ParseInv` has two parts. `Agree`
  ties the log to the bytes: the ends of the entries rise and stay within the stream,
  and up to the first bad entry the bytes between two of them are one line or one frame
  of the entry's payload, sealed from the server's NEWKEYS on. The other says where the
  session is: `Behind` some entry, with exactly the packets before it dispatched, in the
  middle of a line (`Scanning`, which also accounts for what `scan_buf` holds) or in
  front of a packet; or `HaltedAt` an entry that ends it and has reached it. The place
  decides everything else (`Exchanged`): whether an exchange is under way, whether keys
  wait or are in use, and whether the host has been asked and has answered; that is why
  the pause and the answer fit in without counting bytes again (`AnswerParsed`). A drive
  that has returned has nothing complete left to read or is stopped, which is what makes
  the two sides of the property equal and not merely ordered (`OpenSplits`,
  `ClosedSplits`). What is written behind does not disturb what has been read
  (`AgreeGrows`, `GrowKeeps`); a frame read back gives its payload (the lemmas on
  frames). `ParseInv` was checked with TLC on the constants of `byte_stream` first.

Assumptions: those the modules state about their constants
(`ServerAssumption`, `HostAssumption`, `ChannelAssumption`, `FlowAssumption`,
`ClientAssumption`, `TransportAssumption`, `FramingAssumption`, `StreamAssumption`), which TLC evaluates
in the runs. That `None`, the id of a channel not confirmed, is no number is one of them.
`StreamAssumption` says what the entries of the byte stream are: lines come without
their end (no LF, and no CR at the end, which would be taken off with it), an
identification begins with `SSH-` and a banner does not, a message the
receiver acts on (key exchange, DISCONNECT) is its number alone, payloads are not empty and fit a packet, and where malformed packets are written
the limit admits one of four bytes, so that they are wrong in the way their names say.

Only model-checked: the liveness properties, which need fairness and are outside the
prover's reach (`AcceptedSettles`, `RequestSettles`, `AllArrives`, `OpenSettles`,
`CloseSettles`, `ExecsSettle`, `EndIsNoticed`, `ConnectSettles`).

## Not modelled, and why

* Cryptography, key derivation, host-key and private-key parsing, and the encoding
  of messages: pure functions over bytes, with test vectors in the repository. A
  message in `Session` and `ChannelTable` is well formed or undecodable as a whole;
  a handler's error on a truncated payload ends in `Session::fail`, as an
  undecodable packet does.
* The errors of a handler that looks into a well-formed message or at a key: a
  SERVICE_ACCEPT for another service (`session.rs:467`), a PK_OK whose request cannot
  be built (518-523). A private key from which no query can be made (489) leaves the
  session as it was.
* A second KEX_REPLY: the servers of `Handshake` answer a KEXINIT in mid-session with
  nothing but a DISCONNECT. `AcceptGate` is therefore no statement about a gate that
  is opened again.
* Messages for a channel that is not confirmed yet (`connection/mod.rs:225`,
  `channel.rs:139`, both `expect`s): the servers of `Connection` confirm first. The
  CLOSE a server may send behind a refused setup is left out of `ClientHost`, where
  nothing would take notice of it.
* SERVICE_ACCEPT and the USERAUTH messages out of order: `dispatch` does not
  look at the phase for them. No server of these models sends them so.
* `next_id` wrapping: 2^32 opens in one session.
* The characters of the password line, `onTerminalOutput`'s text, the wording of
  errors; the JSON of the bindings.
* Package entry points, the Node and Cloudflare stream adapters, wasm loading,
  examples and tests: they hold no state of the protocol. FakeServer is
  modelled, as the peer.

## Plan

Done: the handshake, the flow of one channel, the connection protocol, the client,
`connect()` and the byte stream, with the runs and proofs above; every safety invariant
and action property the runs check is proved, under the conditions its theorem states.
Left:

1. `Handshake`: the requests of authentication out of order, against a server that does
   not keep to RFC 4252 (`session.rs:255` hands those messages to their handlers in
   every phase).
2. `Connection`: what the setup of a channel and returned windows still send behind the
   host's own CLOSE (`session.rs:693`), which `NoStrays` leaves out.
3. Servers that break the protocol further than `Quirks`: a second KEX_REPLY in
   mid-session, and messages for a channel they have not confirmed.
