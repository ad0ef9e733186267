# TLA+ models of ssh-reverse-socks-proxy

This directory holds TLA+ models of the repository's C++ code and the TLC
configurations that check them. `PROJECT.json` lists the components, the runs,
the mutants, the map from each definition to the source lines it models, the
findings and the hazards.

## The system

`ssh-client` is a reverse SOCKS5 proxy. It keeps one TLS connection to a server.
Over that connection a framing protocol (spec.md §3) multiplexes channels. The
server opens a channel and sends the SOCKS5 bytes of a client. The proxy parses
them and connects to the target. It then relays bytes both ways, with a credit
window per direction.

The parts and how they interact:

| part | source | thread(s) it runs on |
|---|---|---|
| `MuxSession`: dispatcher, channel registry (SRW lock), keepalive timer, `m_running` | `ssh-client/src/mux_session.cpp` | transport's IOCP worker (frames), timer thread, main thread (`Shutdown`) |
| `Channel`: six-state machine, SOCKS5 driving, send/recv windows | `ssh-client/src/channel.cpp` | transport worker (frames), target's IOCP workers (completions) |
| `TcpConnection`: ConnectEx, recv pump, send queue | `ssh-client/src/tcp_connection.cpp` | caller; completions on any IOCP worker |
| `IoEngine`: IOCP worker pool calling `ctx->callback` | `ssh-client/src/async_io.cpp` | workers |
| `SslTransport`: TLS stream, one pending recv, `on_disconnect` | `ssh-client/src/ssl_transport.cpp` | workers; `Close` on the main thread |
| `RunSession`, Ctrl-C handler | `ssh-client/src/main.cpp` | main thread, console handler thread |
| `FrameCodec` | `ssh-client/src/mux_protocol.cpp` | transport worker |
| SOCKS5 parsers | `ssh-proxy-lib/src/socks5_handler.cpp` | transport worker |
| libssh variant (`SshTransport`, `Socks5Session`, `connect`) | `ssh-proxy-lib/src/*.cpp`, `ssh-proxy/` | SSH I/O thread; IOCP workers (connect completion, relay, target callbacks) |

These interactions make the system hard to get right:

- A channel's target completions run on other workers than the frames that close
  the channel.
- `Close()` only cancels overlapped I/O. IOCP still delivers the cancelled
  completions, to whatever object is at that address.
- `RunSession` tears the session down (`Shutdown`, `transport.Close()`, return).
  Meanwhile the transport's last recv is still pending.

## Modules

`MuxSession.tla` models `MuxSession`, `Channel`, the client's `TcpConnection`,
the completion side of `IoEngine`, the read pump of `SslTransport` and
`RunSession`.

- State:
  - `chan[id]`: the channel in `m_channels`. `"Absent"` means there is none.
  - `tcp[id]`: its `m_target`.
    - `alive` records whether `m_target` is set.
    - `gen` is the identity of the object.
    - `connected`, `reading` and `busy` are `m_connected`, `m_reading` and `m_send_in_progress`.
    - `queue` is the length of the send queue.
  - `pend`: a bag of the overlapped operations posted and not completed, as `[id, gen, op]`.
    It is a bag, not a set, so that posting an operation twice is visible.
  - `running`, `timerOn`: the session's `m_running` and its keepalive timer.
  - `trans`: the SSL read pump. `"aborting"` means Close ran and the recv is still pending.
  - `main`: where `RunSession` is.
  - `ctrlC`: `g_shutdown`.
  - `discCount`: calls of the disconnect callback.
  - `shutBy`: who ended the session first, locally or remotely.
  - `toClient`, `toPeer`: the frames in flight. The transport is FIFO and reliable.
  - `freedUse`: a history variable recording any callback that ran on a destroyed object.
  - `peer`: the server's side of each channel.
- Actions:
  - One per handler: `HandleChannelOpen`, `HandleChannelRequest` (with the
    whole of `ProcessSocks5` and the `ConnectAsync` it starts), `HandleData`,
    `HandleChannelClose`, `HandleChannelCloseAck`, `HandleWindowUpdate`.
    PING and PONG are left out: `HandlePing` and the keepalive timer's PING
    touch no channel (`HandlePing` is part of RequestPath's `DispatchFrame`).
  - One per completion: `OnConnectComplete`, `OnRecvComplete`,
    `OnSendComplete`, and `CompletionOnFreedTarget` for a completion whose
    object was destroyed.
  - The session's own steps: `TransportFail`,
    `TransportRecvAborted`, `ConsoleCtrlHandler`, and the three steps of
    `RunSession` (`RunSessionShutdown`, `RunSessionCloseTransport`,
    `RunSessionExit`).

  Each action carries every state change its handler makes. `Channel`
  destruction destroys the target, so the target is reset together with the
  channel. `SendFrame` is gated on `m_running` and on the transport being
  connected.
- Granularity: a handler is one atomic step. The transport delivers frames one
  at a time from its single pending recv. Target completions interleave between
  frames.
- Data abstraction:
  - Byte strings are lengths.
  - The SOCKS5 content of a channel is the server's *script*. `ok` is a
    well-formed no-auth CONNECT. `noauth_missing` is a method request without
    0x00. `bad_connect` is a malformed CONNECT.
  - `MethodLen`, `ConnectHdrLen` and `ConnectLen` are scaled lengths at which
    the parsers decide.
- The server is an environment, not code of this repository. It opens released
  ids and sends SOCKS5 bytes in pieces. It sends DATA only within the credit
  the client gave it, and returns WINDOW_UPDATE for what it consumed. It closes
  channels and acknowledges every CLOSE.

`MCMuxSession.tla` fixes one channel id. Channels share nothing except the
session (`m_running`, the transport, `CloseAllChannels`), and reopening the id
creates a new `Channel` and `TcpConnection`. So one id, opened up to twice,
covers the per-channel interleavings together with session teardown.

`ChannelLifecycle.tla` is the abstract specification of the channel registry,
taken from spec.md §4.4's state table. Each id is `"Absent"` or in a state of
the table, and `owns[id]` says whether the channel owns a TcpConnection. Its
actions are the table's transitions:

- `Open`: from any state, because `HandleChannelOpen` replaces a present id.
- `Negotiate`: from Requesting, to Connecting or Closed.
- `Connected`: from Connecting, to Relaying or Closed.
- `TargetDisconnected`: to Closing.
- `Remove`: the channel is erased.
- `CloseAll`: every channel is erased.

A channel that `OnClose` ends is erased in the same handler, so "Closed then
removed" is one step of the detailed model. `MuxSession.tla` instantiates it
with the mapping `st <- chan[i].state`, `owns <- tcp[i].alive`.

`FrameCodec.tla` models `mux_protocol.cpp`:

- Headers are encoded little-endian: `ToLE`, `FromLE`, `DecodeHeader`, `Encode`.
- `Feed` is a RECURSIVE operator over byte sequences. Its outer loop
  (`FeedLoop`) copies as much input as `m_buffer` holds. Its inner loop
  (`ParseFrames`) emits every complete frame and stops at an oversized header
  after setting `m_used` to 0.
- `FRAME_MAX_PAYLOAD` is scaled to a constant `MaxPayload`.

`Socks5Handler.tla` models `socks5_handler.cpp` as operators:

- the parsers `ParseMethodRequest` and `ParseConnectRequest`, with their
  0 (need more), -1 (malformed) and consumed-length results;
- the reply builders;
- `ErrorCodeToSocks5Reply`.

It also builds the client's byte messages from a script.

`SslTransport.tla` models `ssl_transport.cpp` after the handshake, as
operators over TLS records:

- A record keeps its plaintext. Its ciphertext is only a length:
  `Overhead` more than the plaintext.
- `m_decrypt_buf` always starts at a record boundary. It is described by the
  records not yet decrypted and by `m_decrypt_buf_used`.
- `ProcessDecryptBuffer` is a RECURSIVE operator. It decrypts every complete
  record, stops at an incomplete one, and reports a close_notify or a decrypt
  error.
- `GrowDecryptBuf` is the growth and overflow check of `OnRecvComplete`.
- `SendRecords` is `Send`'s split into records of at most `cbMaximumMessage`
  bytes.

`RequestPath.tla` composes SslTransport, FrameCodec and Socks5Handler with the
CHANNEL_OPEN/CHANNEL_REQUEST path of `MuxSession` and `Channel`:

- The server's bytes are fixed in `Init`: a CHANNEL_OPEN, then a SOCKS5
  script cut into up to `MaxPieces` CHANNEL_REQUEST frames, optionally after
  one oversized frame.
- The server writes them in records of `RecordSizes` bytes
  (`ServerSendRecord`). It may end with a close_notify or an undecryptable
  record (`ServerSendFinal`).
- The transport actions are `StartReading`, `OnRecvComplete` and
  `OnRecvFailed`:
  - `StartReading` processes what the handshake's last read left in the
    buffer.
  - `OnRecvComplete` appends up to `RecvBufSize` bytes.
  - Both run `ProcessDecryptBuffer` and then `PostRecv`. `PostRecv` may fail
    at once.
- Each plaintext goes to `OnDataReceived`, which runs `Feed` and dispatches
  every frame it returns through `DispatchFrame`. The handlers are `OnOpen`,
  `OnRequest` with the whole of `ProcessSocks5`, and `OnClose`.
- A disconnect runs `OnTransportDisconnected`, which clears `m_running` and
  the channels.
- `TargetConnectComplete` is the ConnectEx completion.
- The client's `SendFrame` output is kept as wire bytes and decoded again
  by the properties.

`SendWindowRace.tla` models one Relaying channel's `m_send_window` at
statement granularity:

- `SendToMux` runs on the target's worker and `OnWindowUpdate` on the
  transport's worker. Each has a load step and a store step.
- The server returns a WINDOW_UPDATE for every DATA frame.

`SessionTeardown.tla` models `MuxSession::Start`, from `StartReading` (which
may already disconnect the session) to `StartKeepaliveTimer`. It also models
the two threads that can tear a session down:

- `RunSession` and `Shutdown` on the main thread;
- `OnTransportDisconnected` on a worker, after a failed recv or the recv
  that `transport.Close()` aborts.

Each statement of `StopKeepaliveTimer` is its own step: the test, the
`DeleteTimerQueueTimer` and the reset.

`Socks5Session.tla` models `ssh-proxy-lib`'s `Socks5Session`, which runs on
one forwarded SSH channel:

- The SSH I/O thread runs `ReadFromChannel`. A blocking `Read` returns a
  prefix of what the client has written. The handlers it calls are
  `HandleMethodNegotiation`, `HandleConnectRequest` and `StartTcpConnect`.
- The IOCP workers run `OnTcpConnected`, `StartRelay`'s loop and the
  target's callbacks (`TargetData`, `TargetDisconnected`). The loop's read
  is two steps: `RelayRead` enters `libssh2_channel_read` on the channel,
  and `RelayReadReturns` leaves it with data, EOF or EAGAIN. Between them
  another worker's `TargetDisconnected` can run. `RelayEnd` leaves the loop.
- The client is an environment. It writes its method request and its
  CONNECT, either waiting for the method reply or pipelined. It may send
  EOF at any time.

`SshProxy.tla` composes `Socks5Session` with what starts and stops it:
`Connect` (`connect.cpp`), `SshTransport` and its I/O thread
(`ssh_transport.cpp`), and `ssh-proxy`'s `main` with its console handler
(`ssh-proxy/src/main.cpp`):

- `ConnectFails` fails at any of the nine steps of the constructor and
  `SshTransport::Connect`. Each step releases what the earlier ones
  acquired, and `main` catches the exception. `ConnectSucceeds` ends with
  `StartAccepting`.
- `main` then runs `MainPublish` (`g_connect = &connect`) and
  `MainPollEnds` (`IsConnected` is false, so `g_connect` is cleared and
  `~Connect` runs). `~Connect` runs `SshTransport::Close`, then
  `MainDelete` deletes `m_impl`.
- The console handler runs `CtrlC`, which reads `g_connect`, then
  `HandlerCancel`, then the same `Close` steps.
- `Close` is three steps for either thread:
  - `CloseBegin` stores `m_cancel` and tests `joinable()`;
  - `CloseJoin` waits for the I/O thread to exit;
  - `CloseFree` frees the listener, the libssh2 session and the socket.
- The I/O thread's loop is `IoThreadAccept` and `IoThreadExit`:
  - `IoThreadAccept`: the forwarded channel arrives, and `on_channel` runs
    `Socks5Session::Start` on that thread.
  - `IoThreadExit`: the loop sees `m_cancel` or a session error, and
    `on_disconnect` clears `connected`.
  - While `Start` runs, the thread is inside `on_channel` (`InOnChannel`)
    and takes neither step.
- `ConnectionDrops` is the network. After it, the session's channel reads
  fail (`ReadFromChannelFails`, `RelayReadFails`).
- `PostChannelWrite` has no caller, so `DrainWriteQueues` walks empty
  queues. It is left out.

`TlsHandshake.tla` models `SslTransport::Connect` and `DoHandshake`, with
the TLS server at the other end of the socket:

- The server's bytes are its handshake flights, then application data. Each
  flight is a sequence of record lengths, and the server sends its next
  flight when it has received the client's next token. Bytes are counted,
  not kept.
- `hs_buf` always starts at a record boundary, so it is `nxt` (the first
  unconsumed record) and `hs_used` (`rd` minus that record's offset).
- `ConnectFails` and `TcpConnected` are the steps before the handshake.
  `HandshakeStart` is the first `InitializeSecurityContext` and the
  ClientHello. `QueryStreamSizes` is the end of `Connect`.
- `HandshakeRound` is one turn of the loop: a blocking `RecvRaw` of at most
  the free space, then ISC. ISC may return incomplete (`RoundIncomplete`),
  consume one or more whole records of the current flight (`RoundConsume`,
  with a token at the flight's end and `SEC_E_OK` after the last flight), or
  fail. Then come the `SECBUFFER_EXTRA` move and the doubling of a full
  buffer. Schannel's documentation allows each of these outcomes.
- `ServerCloses` and `HandshakeRecvClosed` are a connection the server
  closes or resets, with `recv` returning 0 or an error.

`MCRequestPath.tla` and `MCSocks5Session.tla` define the scripts that the
runs use; `MCSshProxy.tla` reuses those of `MCSocks5Session`.

## Properties

MuxSession (run reopen):

- `TypeOK`: the type invariant. In particular the send queue never goes
  negative: `OnSendComplete` pops after `Close` may have emptied it.
- `TargetMatchesChannelState`: the channel state against its target.
  - Connecting has a pending ConnectEx.
  - Relaying has a connected target with its recv posted.
  - Closing has a closed target with no recv.
  - Requesting, Closed and removed channels own no target (spec.md §3).
- `OverlappedContextNotReused`: a live connection never has two operations of
  one kind pending, because each kind reuses one `IoContext`.
- `RecvCreditConserved`: while both ends relay, this sum equals the window:
  - the server's credit,
  - plus the DATA in flight,
  - plus `m_recv_consumed`,
  - plus the WINDOW_UPDATE increments in flight.
- `NoOrphanChannel`: once the server has released an id and nothing for it is
  in flight, the client no longer holds a channel for it.
- `ChannelEventuallyReleased` (liveness): a Closing or Closed channel is
  eventually removed.
- `ImplementsChannelLifecycle` (refinement): every step of `MuxSession` is a
  step of `ChannelLifecycle` under the mapping.

RequestPath (run wire):

- `TypeOK`: the type invariant. The codec buffer never exceeds its capacity.
- `FramesDecodedInOrder`: the frames dispatched so far are exactly the
  complete frames at the head of the bytes delivered, in order, however the
  reads cut them.
- `Socks5Incremental`: once the delivered requests hold a complete method
  request and CONNECT, the channel has answered both and left Requesting.
  This is the case even when one frame carries both, or when they are split
  across frames. It connects only for a well-formed conversation, to the
  address asked for. All scripts of the wire run ask for CONNECT; the other
  commands are the question of `CommandIsConnect` (run socks5_command).
- `RepliesFollowRfc`: the CHANNEL_REQUEST_ACK payloads the client sent are a
  prefix of the RFC 1928 replies to the script: the method reply, then the
  CONNECT reply with the mapped code. A failure reply is followed by
  CLOSE(RST).
- `NoRecordStranded`: whenever a recv is pending, the decrypt buffer holds no
  complete record. Every record that arrived has reached `OnDataReceived`,
  including records that came in the handshake's last read or several in one
  recv.

## Runs

| run | cfg | expect | what it shows |
|---|---|---|---|
| reopen | `MCMuxSession_reopen.cfg` | pass | Opens ≤ 2, window 4, method request of 2 bytes (it can arrive split), DATA ≤ 3, reads ≤ 2 (1.33M states, about 2 min). Two incarnations of a channel with every close path and session teardown keep the invariants, the receive window's half-threshold is crossed and not crossed with credit conserved, every closed channel is released, and `MuxSession` implements `ChannelLifecycle`. |
| wire | `MCRequestPath_wire.cfg` | pass | Six scripts in up to 3 frames, written in TLS records of 5 or 12 bytes and read in recvs of 1 to 8 bytes, some in the handshake's last read. Reassembly, incremental SOCKS5 parsing, the reply bytes and the record pump are right (1.15M states, about 1.5 min). |
| freed_object | `MCMuxSession_NoCallbackOnFreedObject.cfg` | violation | A completion runs on a destroyed object (code bugs). TLC's trace (6 states): Ctrl-C, `Shutdown`, `transport.Close()`, `RunSession` returns, and the cancelled SSL recv completes on the destroyed session. With `CONSTRAINT RecvAbortedFirst` added, TLC shows the other bug (10 states): a CONNECT starts ConnectEx, the transport fails, `CloseAllChannels` destroys the TcpConnection, and the connect completion runs on it. |
| shutdown_quiet | `MCMuxSession_ShutdownIsQuiet.cfg` | violation | A local shutdown still calls the disconnect callback, and frames between `Shutdown` and `transport.Close()` create channels (spec.md Scenario F says neither happens). |
| overflow | `MCRequestPath_OverflowIsFatal.cfg` | violation | `OverflowIsFatal`: after an oversized header no further frame is dispatched (spec.md §4.1, §7). Feed only resets its buffer, and the rest of the oversized payload is parsed as frames. |
| socks5_command | `MCRequestPath_CommandIsConnect.cfg` | violation | `CommandIsConnect`: only CONNECT is served; BIND and UDP ASSOCIATE get reply 0x07 (spec.md §4.2, §6). `ParseConnectRequest` returns the same result for every CMD, so `ProcessSocks5` connects to the address of a BIND request. |
| window_race | `SendWindowRace_NoLostWindowUpdate.cfg` | violation | `NoLostWindowUpdate`: the window equals the initial window plus the credits minus the debits. `SendToMux`'s store overwrites `OnWindowUpdate`'s, and the credit is lost (a code bug). |
| keepalive_timer | `SessionTeardown_TimerStoppedOnce.cfg` | violation | `TimerStoppedOnce`: the keepalive timer is deleted exactly once. TLC's trace: the session is disconnected inside `StartReading`, before `Start` arms the timer. The timer is then armed on a stopped session, and `Shutdown` returns early without deleting it (a code bug). With `CONSTRAINT FailsAfterStart` added, TLC instead shows Ctrl-C during a transport failure: both threads pass the `m_keepalive_timer` test and call `DeleteTimerQueueTimer` twice (a second code bug). |
| use_after_free | `MCSshProxy_NoUseAfterFree.cfg` | violation | `NoUseAfterFree`: no object is used after it is freed. TLC's trace: CONNECT succeeds and StartRelay's loop enters `SshChannel::Read`. The target then disconnects, and its callback's `Close` frees the libssh2 channel under the read (a code bug). With `CONSTRAINT AtomicRead` added, TLC shows the connection dropping just as Ctrl-C reads `g_connect`: `main` destroys the Connect, and the handler then calls `Cancel` on it (against `ssh_proxy.h`'s "thread-safe"). With `CONSTRAINT WithoutCtrlC`, TLC shows a third code bug: after a CONNECT has started, `Close` frees the libssh2 session while the Socks5Session still holds its open channel, and the session then writes and relays through the freed session. |
| cancel_hangs | `MCSshProxy_CancelReturns.cfg` | violation | `CancelReturns` (liveness): Cancel returns. `SshChannel::Read` retries EAGAIN forever and never sees `m_cancel`, so a client that stops in mid-handshake keeps the I/O thread inside `on_channel`, and Close's join never returns. `ssh_proxy.h` even says Cancel returns immediately. |
| socks5_pipelined | `MCSocks5Session_NoUnansweredRequest.cfg` | violation | `NoUnansweredRequest`: a client that sends its CONNECT with its method request is never answered, because `HandleMethodNegotiation` reads the channel again instead of parsing `m_inbound_buf` (a code bug). |
| handshake_hangs | `MCTlsHandshake_HandshakeEnds.cfg` | violation | `HandshakeEnds` (liveness): `Connect` returns. TLC's trace: the server's ChangeCipherSpec and Finished arrive in one recv. ISC consumes the ChangeCipherSpec and leaves Finished in `SECBUFFER_EXTRA`. The next turn starts with a blocking `RecvRaw`, and the server is waiting, so the loop never ends (a code bug: the loop must call ISC again before reading). |

Each property of a passing run has a mutant in `PROJECT.json`. The mutant
replaces a mapped definition with a plausible bug, and TLC must then find the
property violated:

- `PopSent` without the `empty()` check;
- `OnTargetConnectFailed` without `m_target.reset()`;
- `TargetSend` ignoring `m_send_in_progress`;
- `RecvConsumedAfter` not zeroing `m_recv_consumed`;
- `RemoveChannel` not erasing the id. This breaks `NoOrphanChannel`,
  `ChannelEventuallyReleased` and the refinement.
- `ParseFrames` dropping the payload length from the offset
  (`ParseFramesRestPayload`), or parsing only one frame per feed
  (`ParseOneFrame`);
- `ProcessSocks5` returning after the method response instead of falling
  through to the CONNECT;
- `OnTargetConnected` without the CLOSE(RST) after a failure reply;
- `ProcessDecryptBuffer` decrypting one record per call instead of looping
  (`ProcessDecryptBufferOnce`).

### Bounds

- MuxSession:
  - Window 4 and payload 2. These make DATA both split by `MaxPayload`
    and clamped by the window, and put the window's half-threshold at 1 or 2.
  - Reads ≤ 2. This is enough to exhaust the send window and read once more.
  - Opens ≤ 2. This gives two incarnations of an id, with different target
    generations.
- RequestPath:
  - `MaxPayload` 10, so the codec holds 18 bytes. The whole stream of a
    script (several frames) does not fit in it, so the outer copy loop of `Feed`
    runs more than once.
  - Records of 5 or 12 plaintext bytes cut frames at many offsets, and a
    12-byte record carries several small frames.
  - Recvs of 1 to 8 ciphertext bytes, with a record overhead of 2, cut
    records and can complete two small records at once.
  - Up to 2 records are in flight.
  - The decrypt buffer is 32 and its maximum 256, with growth slack 4.
    These keep the source's ratio: a full record plus a recv fits the
    initial buffer, so, as in the code, it never grows and never overflows.
  - `cbMaximumMessage` 6 splits the client's frames into several records.
  - `MaxPieces` 3 splits a CONNECT inside its header, its address and its
    port.
  - The id 258 has a non-zero high byte.
  - Six scripts cover each outcome of the parsers:
    - the three address types;
    - no-auth offered first or later;
    - no-auth missing;
    - a bad version;
    - an unknown address type.
- SendWindowRace: window 2, one or two reads of up to 2 bytes. One overlap
  of the two read-modify-writes is enough.
- Socks5Session: `MaxRelay` 2 bytes each way. The scripts are a good
  CONNECT, a method request without no-auth, and an unknown address type.
- SshProxy: one forwarded channel, the same three scripts, `MaxRelay` 1.
  Both hazards need only one session. A second channel would wait behind the
  first in the accept loop.
- TlsHandshake: a TLS 1.2 full handshake. Flight one is ServerHello, a
  Certificate of 3 and ServerHelloDone. Flight two is ChangeCipherSpec and
  Finished. One record of application data follows. `hs_buf` starts at 2,
  so the certificate grows it once, and recvs of any size split and join
  records.

Larger values only repeat these cases with bigger numbers. Every run finishes
in about two minutes or less on two workers.

### Fairness

MuxSession assumes weak fairness on:

- frame dispatch: the transport's read pump keeps reading while the connection is up;
- the connect and send completions: IOCP delivers them, and the kernel completes a connect or a cancelled operation;
- the completions on destroyed objects;
- the aborted transport recv;
- the steps of `RunSession`;
- the server reading what the client sends.

No fairness is assumed on:

- target recv completions, because a target need not send;
- the server's own requests;
- Ctrl-C;
- transport failure.

SshProxy assumes weak fairness on `main`, on the console handler once Ctrl-C
has come, on the I/O thread (its loop's exit and the session's reads), and on
the IOCP workers (the connect completion and the relay loop). No fairness is
assumed on Ctrl-C itself, the client, the network, or the arrival of a
forwarded channel. The threads are scheduled by the OS; the peers are not obliged
to act.

TlsHandshake assumes weak fairness on the client thread, which runs
whenever it is not blocked in `recv`, and on the server sending its next
flight: it is a TLS peer that answers every token. Closing the connection is
the server's choice.

The other modules check only safety properties and assume no fairness.

Deadlock is not checked. A session legitimately stops, after `RunSession`
returns or the bounds are used up. The reconnect loop then starts a fresh
session, which is a fresh instance of this model. RequestPath stops once its
stream is delivered, and Socks5Session once the session is closed.

## Not modelled

- Inside `SslTransport::Connect`, DNS, the socket calls, the credentials and
  Schannel itself. `TlsHandshake` keeps only whether each step fails, and
  what `InitializeSecurityContext` may return. Encryption is abstracted to
  record lengths. `RequestPath` starts after the handshake, with the leftover
  bytes that `TlsHandshake` hands to the decrypt buffer.
- The race between `SslTransport::Close` and a `Send` inside
  `EncryptMessage`. `Close` does not take `m_send_cs`. This is a hazard with
  a note.
- The reconnect loop's backoff, `LoadConfig` and the command-line parsing of
  both executables. These are sequential code with no shared state. The
  backoff's `delay_ms * 2` overflow is a hazard with a note.
- The loggers. ssh-client's logger writes each line inside one critical
  section, so a call is atomic and what is left is I/O. ssh-proxy-lib's
  logger appends to its buffer under `s_mutex` and calls the callback after
  the unlock; the executables set the callback once and never replace it.
- `IoEngine::Init` and `Shutdown`. The models start with the worker pool
  running. A `CreateThread` failure part-way through `Init`, and the
  64-handle and 5-second limits of `Shutdown`'s wait, are hazards with notes.
- Inside `SshTransport`, libssh2 itself: each libssh2 call is one step of
  `SshProxy`. So two threads inside libssh2 on one session at once is a
  hazard with a note.
- `MuxSession::KeepaliveTimerCallback` and the PING/PONG frames. The
  callback sends a PING through `SendFrame` when `m_running` is set. It
  touches no channel, and no property reads the PINGs. Adding the one tick
  to RequestPath quadruples the wire run (4.7M states, past five minutes)
  and checks nothing more. The timer's creation and deletion race is
  `SessionTeardown`. The answer to a server PING is part of RequestPath's
  `DispatchFrame`.
- The unit tests under `tests/`.
- Races inside a `MuxSession` handler other than the two split out in
  `SendWindowRace` and `SessionTeardown`. One example is a target completion
  running while `OnClose` destroys the channel. Splitting every handler into
  statements would put the model out of TLC's reach. These races are listed
  as hazards.
- In `Socks5Session`, the `Close` reached from both the relay loop and
  `on_disconnect`, which is a hazard with a note. So is the IOCP worker held
  by `StartRelay`.
