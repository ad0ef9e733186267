------------------------------- MODULE SshProxy -------------------------------
(***************************************************************************)
(* ssh-proxy-lib's connection handle (connect.cpp) and SshTransport        *)
(* (ssh_transport.cpp), composed with the Socks5Session they start.        *)
(* Connect::Connect runs SshTransport::Connect (TCP connect, libssh2        *)
(* handshake, password auth, tcpip-forward) and StartAccepting, whose I/O  *)
(* thread loops: keepalive, DrainWriteQueues, accept.  An accepted channel *)
(* is handed to on_channel, which runs Socks5Session::Start on the I/O     *)
(* thread itself; Start returns once the CONNECT has started or the        *)
(* session is closed.  Cancel (and ~Connect) call SshTransport::Close,     *)
(* which sets m_cancel, joins the I/O thread and frees the libssh2         *)
(* session.  ssh-proxy's main (main.cpp) polls IsConnected and destroys    *)
(* the Connect when it turns false; its console handler thread calls       *)
(* Cancel on Ctrl-C through g_connect.                                     *)
(*                                                                         *)
(* One forwarded channel is accepted (the Socks5Session variables describe *)
(* it); the accept loop goes on polling after that.  PostChannelWrite has  *)
(* no caller, so the write queues DrainWriteQueues walks are always empty. *)
(***************************************************************************)
EXTENDS Socks5Session

VARIABLES
    mainPc,     \* ssh-proxy's main thread: "init" (constructing the Connect),
                \* "publish", "poll", a Close step in ~Connect, "delete",
                \* "done", or "failed" (the constructor threw)
    handler,    \* the console handler thread: "idle", "cancel", a Close
                \* step, or "done"
    gConnect,   \* g_connect is set
    implAlive,  \* Connect::m_impl is allocated
    sock,       \* m_socket: "none", "open", "closed"
    sess,       \* m_session: "none", "live", "freed"
    listener,   \* m_listener is set
    iot,        \* the I/O thread: "none", "loop", "exited"
    joined,     \* m_io_thread has been joined
    cancel,     \* m_cancel
    dropped,    \* the SSH connection has failed under libssh2
    accepted,   \* the forwarded channel has been accepted
    connected   \* Connect::Impl::connected (Connect::IsConnected)

proxy == <<mainPc, handler, gConnect, implAlive, sock, sess, listener, iot,
           joined, cancel, dropped, accepted, connected>>
allVars == <<vars, proxy>>

\* The steps of SshTransport::Close: store m_cancel and test joinable, join,
\* free the listener, the session and the socket.
CloseSteps == {"close", "join", "free"}

\* The steps of Connect::Connect, in order, each of which can fail: the
\* IoEngine and libssh2 initialisation, then those of SshTransport::Connect.
ConnectSteps == <<"io_engine", "libssh2_init", "dns", "socket", "connect",
                  "session_init", "handshake", "auth", "forward">>

ProxyInit ==
    /\ Init
    /\ mainPc = "init" /\ handler = "idle" /\ gConnect = FALSE
    /\ implAlive = FALSE /\ sock = "none" /\ sess = "none" /\ listener = FALSE
    /\ iot = "none" /\ joined = FALSE /\ cancel = FALSE /\ dropped = FALSE
    /\ accepted = FALSE /\ connected = FALSE

\* The I/O thread is inside on_channel, i.e. in Socks5Session::Start.
InOnChannel == accepted /\ io = "read"

\* Groups of variables for UNCHANGED.
mainVars  == <<mainPc, gConnect, implAlive>>
transport == <<sock, sess, listener, joined, cancel>>
ioThread  == <<iot, dropped, accepted, connected>>

-----------------------------------------------------------------------------
(* main: Connect::Connect, the poll loop and ~Connect.                     *)

\* Step k fails; SshTransport::Connect has released what the earlier steps
\* acquired (the socket is closed once created, the session freed once the
\* handshake was tried), the constructor deletes m_impl and throws, and
\* main prints GetLog and returns 1.
ConnectFails ==
    /\ mainPc = "init"
    /\ \E k \in 1..Len(ConnectSteps) :
         /\ sock' = IF k <= 4 THEN "none" ELSE "closed"
         /\ sess' = IF k <= 6 THEN "none" ELSE "freed"
    /\ mainPc' = "failed"
    /\ UNCHANGED <<gConnect, implAlive, listener, joined, cancel, handler>>
    /\ UNCHANGED <<ioThread, vars>>

\* Every step succeeds: connected is stored and StartAccepting spawns the
\* I/O thread.
ConnectSucceeds ==
    /\ mainPc = "init"
    /\ mainPc' = "publish" /\ implAlive' = TRUE
    /\ sock' = "open" /\ sess' = "live" /\ listener' = TRUE
    /\ connected' = TRUE /\ iot' = "loop"
    /\ UNCHANGED <<gConnect, joined, cancel, dropped, accepted, handler, vars>>

\* g_connect = &connect.
MainPublish ==
    /\ mainPc = "publish"
    /\ mainPc' = "poll" /\ gConnect' = TRUE
    /\ UNCHANGED <<implAlive, transport, ioThread, handler, vars>>

\* IsConnected is false: the loop ends, g_connect is cleared and leaving
\* the try block runs ~Connect, which closes the transport.
MainPollEnds ==
    /\ mainPc = "poll" /\ ~connected
    /\ mainPc' = "close" /\ gConnect' = FALSE
    /\ UNCHANGED <<implAlive, transport, ioThread, handler, vars>>

\* ~Connect deletes m_impl; the Connect goes out of scope and main returns.
MainDelete ==
    /\ mainPc = "delete"
    /\ mainPc' = "done" /\ implAlive' = FALSE
    /\ UNCHANGED <<gConnect, transport, ioThread, handler, vars>>

-----------------------------------------------------------------------------
(* The console handler thread: ConsoleCtrlHandler and Connect::Cancel.     *)

\* Ctrl-C: the handler reads g_connect and calls Cancel if it is set.
CtrlC ==
    /\ handler = "idle"
    /\ handler' = IF gConnect THEN "cancel" ELSE "done"
    /\ UNCHANGED <<mainVars, transport, ioThread, vars>>

\* Cancel closes the transport if m_impl is set.
HandlerCancel ==
    /\ handler = "cancel"
    /\ handler' = IF implAlive THEN "close" ELSE "done"
    /\ UNCHANGED <<mainVars, transport, ioThread, vars>>

-----------------------------------------------------------------------------
(* SshTransport::Close, on main (in ~Connect) or on the handler (Cancel).  *)

Pc(t) == IF t = "main" THEN mainPc ELSE handler

\* Thread t moves to Close step `to`, after which main deletes m_impl and
\* the handler returns.
Goto(t, to) ==
    IF t = "main"
    THEN /\ mainPc' = (IF to = "end" THEN "delete" ELSE to)
         /\ UNCHANGED handler
    ELSE /\ handler' = (IF to = "end" THEN "done" ELSE to)
         /\ UNCHANGED mainPc

\* m_cancel is stored; the thread joins m_io_thread if it is joinable.
CloseBegin(t) ==
    /\ Pc(t) = "close"
    /\ cancel' = TRUE
    /\ Goto(t, IF iot # "none" /\ ~joined THEN "join" ELSE "free")
    /\ UNCHANGED <<gConnect, implAlive, sock, sess, listener, joined, ioThread, vars>>

\* The join returns once the I/O thread has exited.
CloseJoin(t) ==
    /\ Pc(t) = "join" /\ iot = "exited"
    /\ joined' = TRUE
    /\ Goto(t, "free")
    /\ UNCHANGED <<gConnect, implAlive, sock, sess, listener, cancel, ioThread, vars>>

\* The listener is cancelled, the session disconnected and freed and the
\* socket closed, each if still set; m_connected is cleared.
CloseFree(t) ==
    /\ Pc(t) = "free"
    /\ listener' = FALSE
    /\ sess' = IF sess = "live" THEN "freed" ELSE sess
    /\ sock' = IF sock = "open" THEN "closed" ELSE sock
    /\ Goto(t, "end")
    /\ UNCHANGED <<gConnect, implAlive, joined, cancel, ioThread, vars>>

-----------------------------------------------------------------------------
(* The SSH I/O thread: IoThreadProc.                                       *)

\* The loop ends: m_cancel is set, or accept failed with an error other
\* than EAGAIN.  m_connected is cleared and on_disconnect clears connected.
IoThreadExit ==
    /\ iot = "loop" /\ ~InOnChannel
    /\ cancel \/ dropped
    /\ iot' = "exited" /\ connected' = FALSE
    /\ UNCHANGED <<mainVars, transport, dropped, accepted, handler, vars>>

\* One iteration: keepalive, DrainWriteQueues (empty), then accept.  A
\* channel is handed to on_channel, which runs Socks5Session::Start; with
\* no channel (EAGAIN) the thread selects for 100 ms and loops.
IoThreadAccept ==
    /\ iot = "loop" /\ ~InOnChannel /\ ~cancel /\ ~dropped
    /\ ~accepted
    /\ accepted' = TRUE
    /\ UNCHANGED <<mainVars, transport, iot, dropped, connected, handler, vars>>

\* SshChannel::Read fails once the connection has dropped (the channel's
\* EOF reports ChannelClosed the same way): ReadFromChannel closes the
\* session and Start returns.
ReadFromChannelFails ==
    /\ InOnChannel /\ dropped
    /\ io' = "returned"
    /\ Close
    /\ UNCHANGED <<script, sent, wire, eof, buf, relay, replies, relayed>>
    /\ UNCHANGED proxy

\* StartRelay's Read fails the same way: the loop ends and calls Close.
RelayReadFails ==
    /\ relay \in {"loop", "reading"} /\ dropped
    /\ relay' = "done"
    /\ Close
    /\ UNCHANGED <<script, sent, wire, eof, buf, io, replies, relayed>>
    /\ UNCHANGED proxy

\* The server or the network drops the SSH connection.
ConnectionDrops ==
    /\ sess = "live" /\ ~dropped
    /\ dropped' = TRUE
    /\ UNCHANGED <<mainVars, transport, iot, accepted, connected, handler, vars>>

\* The Socks5Session steps happen on the accepted channel.
SessionStep ==
    /\ accepted
    /\ Next
    /\ UNCHANGED proxy

-----------------------------------------------------------------------------

Threads == {"main", "handler"}

ProxyNext ==
    \/ ConnectFails \/ ConnectSucceeds \/ MainPublish \/ MainPollEnds \/ MainDelete
    \/ CtrlC \/ HandlerCancel
    \/ \E t \in Threads : CloseBegin(t) \/ CloseJoin(t) \/ CloseFree(t)
    \/ IoThreadExit \/ IoThreadAccept \/ ConnectionDrops
    \/ ReadFromChannelFails \/ RelayReadFails
    \/ SessionStep

\* The threads are scheduled by the OS: main, the handler once Ctrl-C has
\* come, the I/O thread (its loop's exit and the session's reads) and the
\* IOCP workers (the connect completion and the relay).  The user, the
\* client, the network and the arrival of a forwarded channel are not
\* obliged to act (CtrlC, the client's steps, ConnectionDrops,
\* IoThreadAccept).
Fairness ==
    /\ WF_allVars(ConnectFails \/ ConnectSucceeds)
    /\ WF_allVars(MainPublish) /\ WF_allVars(MainPollEnds) /\ WF_allVars(MainDelete)
    /\ WF_allVars(HandlerCancel)
    /\ \A t \in Threads : WF_allVars(CloseBegin(t) \/ CloseJoin(t) \/ CloseFree(t))
    /\ WF_allVars(IoThreadExit)
    /\ WF_allVars(accepted /\ (ReadFromChannel \/ ReadFromChannelEnd) /\ UNCHANGED proxy)
    /\ WF_allVars(ReadFromChannelFails) /\ WF_allVars(RelayReadFails)
    /\ WF_allVars(accepted /\ (OnTcpConnected \/ RelayRead \/ RelayReadReturns \/ RelayEnd) /\ UNCHANGED proxy)

ProxySpec == ProxyInit /\ [][ProxyNext]_allVars /\ Fairness

-----------------------------------------------------------------------------
(* Properties.                                                             *)

\* No object is used after it is freed.  The libssh2 session outlives the
\* channels opened on it: SshTransport::Close frees m_session only once no
\* Socks5Session holds an open SshChannel, whose Write (OnTcpConnected's
\* reply, the target's data), Read (StartRelay on an IOCP worker) and Close
\* call libssh2 on that session.  The channel outlives a libssh2 call on
\* it: Socks5Session::Close (on the target's disconnect callback) does not
\* free it while StartRelay's Read is inside libssh2_channel_read.  And the
\* Connect outlives the Ctrl-C
\* handler's Cancel, which ssh_proxy.h calls thread-safe: no handler is in
\* Cancel or in SshTransport::Close once ~Connect has deleted m_impl.
NoUseAfterFree ==
    /\ accepted /\ sess = "freed" => ~chanOpen
    /\ relay = "reading" => chanOpen
    /\ handler \in {"cancel"} \cup CloseSteps => implAlive

\* Cancel returns: ssh_proxy.h says Cancel returns immediately and the
\* destructor joins the I/O thread; Cancel too calls SshTransport::Close,
\* whose join ends only once the I/O thread has seen m_cancel.
CancelReturns == handler \in CloseSteps ~> handler = "done"

=============================================================================
