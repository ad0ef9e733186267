------------------------------ MODULE MuxSession ------------------------------
(***************************************************************************)
(* The multiplexing core of ssh-client: the session dispatcher             *)
(* (src/ssh-client/src/mux_session.cpp), the per-channel state machine     *)
(* (channel.cpp), the channel's outbound TcpConnection (tcp_connection.cpp)*)
(* and the RunSession thread of main.cpp that shuts a session down.        *)
(*                                                                         *)
(* Threads.  Inbound frames are dispatched on the IOCP worker that         *)
(* completes the transport's single outstanding recv, so frames are        *)
(* handled one at a time and in order; every Handle* action is one frame.  *)
(* Completions of a target socket (connect, recv, send) run on any IOCP    *)
(* worker and interleave with frame dispatch at handler granularity.  The  *)
(* RunSession thread is a further actor.  PING and PONG (the keepalive     *)
(* timer, HandlePing) touch no channel and are left to RequestPath.        *)
(*                                                                         *)
(* The server is not part of the repository: it is an environment that     *)
(* opens channels, sends SOCKS5 bytes, DATA, WINDOW_UPDATE and CLOSE, and  *)
(* answers the client as spec.md section 4.4 says a peer does.             *)
(*                                                                         *)
(* Data is abstracted to byte counts.  The content of a channel's SOCKS5   *)
(* bytes is the peer's script: the parsers read it to decide "no-auth not  *)
(* offered" or "malformed CONNECT".                                        *)
(***************************************************************************)
EXTENDS Naturals, Sequences, FiniteSets, Bags, SequencesExt

CONSTANTS
    Ids,            \* channel ids the server may use (model values)
    Window,         \* channel_window_size
    MaxPayload,     \* FRAME_MAX_PAYLOAD, scaled
    MaxChunk,       \* largest DATA/REQUEST payload or target read, scaled
    MethodLen,      \* length of a SOCKS5 method request, scaled
    ConnectHdrLen,  \* bytes ParseConnectRequest needs to reject a request
    ConnectLen,     \* length of a SOCKS5 CONNECT request, scaled
    MaxOpens,       \* bound: CHANNEL_OPENs per id
    MaxData,        \* bound: DATA bytes the peer sends per channel
    MaxReads        \* bound: data completions per target connection

ASSUME /\ Window \in Nat \ {0} /\ MaxPayload \in Nat \ {0} /\ MaxChunk \in Nat \ {0}
       /\ MethodLen \in Nat \ {0} /\ ConnectHdrLen \in 1..ConnectLen
       /\ {MaxOpens, MaxData, MaxReads} \subseteq Nat

VARIABLES
    chan,       \* id -> the Channel object in m_channels (state "Absent" if none)
    tcp,        \* id -> the Channel's m_target TcpConnection (alive = FALSE if null)
    pend,       \* bag of overlapped operations posted and not yet completed
    nextGen,    \* identity of the next TcpConnection object
    running,    \* MuxSession::m_running
    timerOn,    \* MuxSession::m_keepalive_timer # nullptr
    trans,      \* SslTransport read pump: "up", "aborting" (closed, recv pending), "down"
    main,       \* RunSession thread: "wait", "shut", "closed", "exited"
    ctrlC,      \* g_shutdown
    discCount,  \* calls of the session's disconnect callback
    shutBy,     \* who ended the session first: "none", "local", "remote"
    toClient,   \* frames in the transport, server -> client
    toPeer,     \* frames in the transport, client -> server
    peer,       \* id -> the server's view of the channel
    freedUse    \* objects a callback ran on after they were destroyed

vars == <<chan, tcp, pend, nextGen, running, timerOn, trans, main, ctrlC,
          discCount, shutBy, toClient, toPeer, peer, freedUse>>

States == {"Absent", "Requesting", "Connecting", "Relaying", "Closing", "Closed"}
Scripts == {"ok", "noauth_missing", "bad_connect"}
FrameTypes == {"OPEN", "OPEN_ACK", "REQUEST", "REQ_ACK", "DATA", "CLOSE",
               "CLOSE_ACK", "WU"}

Frame(t, i, n, a) == [type |-> t, id |-> i, n |-> n, arg |-> a]

NoChannel == [state |-> "Absent", methodDone |-> FALSE, sbuf |-> 0,
              sendWin |-> 0, recvConsumed |-> 0]
NoTarget == [alive |-> FALSE, gen |-> 0, connected |-> FALSE, reading |-> FALSE,
             queue |-> 0, busy |-> FALSE, reads |-> 0]

MinOf(a, b) == IF a < b THEN a ELSE b

-----------------------------------------------------------------------------
(* Helpers translated from the code.                                       *)

\* MuxSession::SendFrame: frames are dropped once m_running is false or the
\* transport's m_connected is false (SslTransport::Send returns early).
SendFrame(fs) ==
    toPeer' = IF running /\ trans = "up" THEN toPeer \o fs ELSE toPeer

\* Channel::SendToMux: the chunk sizes sent for len bytes and the window left.
\* With m_send_window = 0 the chunk is not clamped and the window unchanged.
RECURSIVE SendToMux(_, _)
SendToMux(len, win) ==
    IF len = 0 THEN <<<<>>, win>>
    ELSE LET c0   == MinOf(len, MaxPayload)
             c    == IF win > 0 THEN MinOf(c0, win) ELSE c0
             rest == SendToMux(len - c, IF win > 0 THEN win - c ELSE win)
         IN  <<<<c>> \o rest[1], rest[2]>>

SumSeq(s) == FoldSeq(+, 0, s)

DataFrames(id, sizes) == [k \in 1..Len(sizes) |-> Frame("DATA", id, sizes[k], "none")]

\* TcpConnection::Close: cancel I/O, close the socket, drop the send queue.
\* The cancelled operations stay in pend: IOCP still completes them.
TcpClose(t) == [t EXCEPT !.connected = FALSE, !.reading = FALSE,
                         !.queue = 0, !.busy = FALSE]

\* ForceClose followed by destruction of the Channel (RemoveChannel, the
\* destructor or m_channels.clear()): the TcpConnection is destroyed.
DestroyAll == /\ chan' = [i \in Ids |-> NoChannel]
              /\ tcp' = [i \in Ids |-> NoTarget]

\* Posting an overlapped operation, and its completion being dequeued.
Post(b, r) == b (+) SetToBag({r})
Done(b, r) == b (-) SetToBag({r})

IsLive(p) == tcp[p.id].alive /\ tcp[p.id].gen = p.gen

-----------------------------------------------------------------------------
Init ==
    /\ chan = [i \in Ids |-> NoChannel]
    /\ tcp = [i \in Ids |-> NoTarget]
    /\ pend = EmptyBag
    /\ nextGen = 1
    /\ running = TRUE
    /\ timerOn = TRUE
    /\ trans = "up"
    /\ main = "wait"
    /\ ctrlC = FALSE
    /\ discCount = 0
    /\ shutBy = "none"
    /\ toClient = <<>>
    /\ toPeer = <<>>
    /\ peer = [i \in Ids |-> [st |-> "free", script |-> "ok", reqSent |-> 0,
                              credit |-> 0, owed |-> 0, opens |-> 0, sent |-> 0]]
    /\ freedUse = {}

-----------------------------------------------------------------------------
(* Frame dispatch (MuxSession::OnDataReceived -> DispatchFrame).            *)

Recv(t) == /\ trans = "up"
           /\ toClient # <<>>
           /\ Head(toClient).type = t

InFrame == Head(toClient)

\* TcpConnection::ConnectAsync on a new m_target, when ConnectEx is pending:
\* the object exists and its connect is posted.
ConnectAsyncPending(id) ==
    /\ tcp' = [tcp EXCEPT ![id] = [NoTarget EXCEPT !.alive = TRUE, !.gen = nextGen]]
    /\ pend' = Post(pend, [id |-> id, gen |-> nextGen, op |-> "connect"])
    /\ nextGen' = nextGen + 1

\* ConnectAsync returning an error (name resolution, socket, bind, Associate
\* or ConnectEx): nothing is posted, and OnTargetConnected resets m_target.
ConnectAsyncFailed(id) ==
    /\ tcp' = [tcp EXCEPT ![id] = NoTarget]
    /\ UNCHANGED <<pend, nextGen>>

\* Channel::ProcessSocks5 on the accumulated SOCKS5 buffer buf, with the
\* TcpConnection::ConnectAsync it starts for a parsed CONNECT.
ProcessSocks5(id, buf) ==
    LET c      == chan[id]
        s      == peer[id].script
        ack(a) == Frame("REQ_ACK", id, 0, a)
        rst    == Frame("CLOSE", id, 0, "RST")
        pre    == IF c.methodDone THEN <<>> ELSE <<ack("method_ok")>>
        rest   == IF c.methodDone THEN buf ELSE buf - MethodLen
        done(st, b) == [c EXCEPT !.sbuf = b, !.methodDone = TRUE, !.state = st]
    IN
    \/ /\ ~c.methodDone /\ buf < MethodLen
       /\ chan' = [chan EXCEPT ![id].sbuf = buf]
       /\ UNCHANGED <<tcp, pend, nextGen, toPeer>>
    \/ /\ ~c.methodDone /\ buf >= MethodLen /\ s = "noauth_missing"
       /\ chan' = [chan EXCEPT ![id] = [c EXCEPT !.sbuf = buf, !.state = "Closed"]]
       /\ SendFrame(<<ack("method_reject"), rst>>)
       /\ UNCHANGED <<tcp, pend, nextGen>>
    \/ /\ c.methodDone \/ (buf >= MethodLen /\ s # "noauth_missing")
       /\ \/ /\ rest < ConnectHdrLen \/ (s # "bad_connect" /\ rest < ConnectLen)
             /\ chan' = [chan EXCEPT ![id] = done(c.state, rest)]
             /\ SendFrame(pre)
             /\ UNCHANGED <<tcp, pend, nextGen>>
          \/ /\ rest >= ConnectHdrLen /\ s = "bad_connect"
             /\ chan' = [chan EXCEPT ![id] = done("Closed", rest)]
             /\ SendFrame(pre \o <<ack("connect_fail"), rst>>)
             /\ UNCHANGED <<tcp, pend, nextGen>>
          \/ /\ rest >= ConnectLen /\ s # "bad_connect"
             /\ \/ /\ chan' = [chan EXCEPT ![id] = done("Connecting", rest - ConnectLen)]
                   /\ ConnectAsyncPending(id)
                   /\ SendFrame(pre)
                \/ \* OnTargetConnected(ec) for the error ConnectAsync returned
                   /\ chan' = [chan EXCEPT ![id] = done("Closed", rest - ConnectLen)]
                   /\ ConnectAsyncFailed(id)
                   /\ SendFrame(pre \o <<ack("connect_fail"), rst>>)

Unchanged_Env == UNCHANGED <<running, timerOn, trans, main, ctrlC, discCount, shutBy,
                             peer, freedUse>>

HandleChannelOpen ==
    /\ Recv("OPEN")
    /\ LET id == InFrame.id IN
       /\ chan' = [chan EXCEPT ![id] = [NoChannel EXCEPT !.state = "Requesting",
                                                         !.sendWin = Window]]
       /\ tcp' = [tcp EXCEPT ![id] = NoTarget]
       /\ SendFrame(<<Frame("OPEN_ACK", id, 0, "none")>>)
    /\ toClient' = Tail(toClient)
    /\ UNCHANGED <<pend, nextGen>>
    /\ Unchanged_Env

HandleChannelRequest ==
    /\ Recv("REQUEST")
    /\ LET id == InFrame.id IN
       \/ /\ chan[id].state # "Requesting"
          /\ UNCHANGED <<chan, tcp, pend, nextGen, toPeer>>
       \/ /\ chan[id].state = "Requesting"
          /\ ProcessSocks5(id, chan[id].sbuf + InFrame.n)
    /\ toClient' = Tail(toClient)
    /\ Unchanged_Env

\* TcpConnection::FlushSendQueue for target t of channel id; base is pend
\* without the completion being handled.
FlushSendQueue(id, t, base) ==
    IF t.queue = 0
    THEN /\ tcp' = [tcp EXCEPT ![id] = [t EXCEPT !.busy = FALSE]]
         /\ pend' = base
    ELSE \/ /\ tcp' = [tcp EXCEPT ![id] = [t EXCEPT !.busy = TRUE]]
            /\ pend' = Post(base, [id |-> id, gen |-> t.gen, op |-> "send"])
         \/ /\ tcp' = [tcp EXCEPT ![id] = [t EXCEPT !.busy = FALSE]]
            \* WSASend failed at once; the buffer stays queued
            /\ pend' = base

\* Mutant of TargetSend: a send is started although one is in flight.
TargetSendIgnoreInProgress(id, t) ==
    IF t.alive /\ t.connected
    THEN FlushSendQueue(id, [t EXCEPT !.queue = @ + 1], pend)
    ELSE UNCHANGED <<tcp, pend>>

\* TcpConnection::Send on the channel's target (if m_target): dropped
\* unless m_connected; queued, and FlushSendQueue unless a send is in flight.
TargetSend(id, t) ==
    IF t.alive /\ t.connected
    THEN \/ /\ t.busy
            /\ tcp' = [tcp EXCEPT ![id].queue = @ + 1]
            /\ UNCHANGED pend
         \/ /\ ~t.busy
            /\ FlushSendQueue(id, [t EXCEPT !.queue = @ + 1], pend)
    ELSE UNCHANGED <<tcp, pend>>

\* Mutant of RecvConsumedAfter: m_recv_consumed not zeroed after the update.
RecvConsumedKept(update, consumed) == consumed

\* Channel::OnData: m_recv_consumed after a DATA frame; zeroed once the
\* WINDOW_UPDATE for it is sent.
RecvConsumedAfter(update, consumed) == IF update THEN 0 ELSE consumed

HandleData ==
    /\ Recv("DATA")
    /\ LET id       == InFrame.id
           c        == chan[id]
           t        == tcp[id]
           consumed == c.recvConsumed + InFrame.n
           update   == consumed >= Window \div 2
       IN
       \/ /\ c.state # "Relaying"
          /\ UNCHANGED <<chan, tcp, pend, toPeer>>
       \/ /\ c.state = "Relaying"
          /\ chan' = [chan EXCEPT ![id].recvConsumed = RecvConsumedAfter(update, consumed)]
          /\ SendFrame(IF update THEN <<Frame("WU", id, consumed, "none")>> ELSE <<>>)
          /\ TargetSend(id, t)
    /\ toClient' = Tail(toClient)
    /\ UNCHANGED <<nextGen>>
    /\ Unchanged_Env

\* Mutant of RemoveChannel: the channel is closed but left in m_channels.
RemoveChannelNoErase(id) == /\ chan' = [chan EXCEPT ![id].state = "Closed"]
                            /\ tcp' = [tcp EXCEPT ![id] = NoTarget]

\* Channel teardown and MuxSession::RemoveChannel: the Channel and its
\* TcpConnection are destroyed and the id leaves m_channels.
RemoveChannel(id) == /\ chan' = [chan EXCEPT ![id] = NoChannel]
                     /\ tcp' = [tcp EXCEPT ![id] = NoTarget]

\* A present channel: OnClose sends CLOSE_ACK, closes the target and ends in
\* Closed, so it is removed; an absent one is acknowledged anyway.
HandleChannelClose ==
    /\ Recv("CLOSE")
    /\ LET id == InFrame.id IN
       /\ SendFrame(<<Frame("CLOSE_ACK", id, 0, "none")>>)
       /\ RemoveChannel(id)
    /\ toClient' = Tail(toClient)
    /\ UNCHANGED <<pend, nextGen>>
    /\ Unchanged_Env

\* ForceClose and RemoveChannel if the channel is present.
HandleChannelCloseAck ==
    /\ Recv("CLOSE_ACK")
    /\ RemoveChannel(InFrame.id)
    /\ toClient' = Tail(toClient)
    /\ UNCHANGED <<pend, nextGen, toPeer>>
    /\ Unchanged_Env

HandleWindowUpdate ==
    /\ Recv("WU")
    /\ LET id == InFrame.id IN
       \/ /\ chan[id].state = "Absent"
          /\ UNCHANGED chan
       \/ /\ chan[id].state # "Absent"
          /\ chan' = [chan EXCEPT ![id].sendWin = @ + InFrame.n]
    /\ toClient' = Tail(toClient)
    /\ UNCHANGED <<tcp, pend, nextGen, toPeer>>
    /\ Unchanged_Env

-----------------------------------------------------------------------------
(* Completions of target sockets on IOCP workers.                          *)

\* Channel::OnTargetDisconnected, run inside a recv completion of target t
\* after the frames pre were sent by the same callback.
OnTargetDisconnected(id, c, t, pre) ==
    LET closes == c.state \in {"Relaying", "Connecting"} IN
    /\ chan' = [chan EXCEPT ![id] = IF closes THEN [c EXCEPT !.state = "Closing"] ELSE c]
    /\ tcp' = [tcp EXCEPT ![id] = TcpClose(t)]
    /\ SendFrame(pre \o (IF closes THEN <<Frame("CLOSE", id, 0, "FIN")>> ELSE <<>>))

\* TcpConnection::PostRecv with m_connected and m_reading set: WSARecv is
\* pending, or fails at once and reports the disconnect.
PostRecv(id, c, t, pre, base) ==
    \/ /\ pend' = Post(base, [id |-> id, gen |-> t.gen, op |-> "recv"])
       /\ chan' = [chan EXCEPT ![id] = c]
       /\ tcp' = [tcp EXCEPT ![id] = t]
       /\ SendFrame(pre)
    \/ /\ pend' = base
       /\ OnTargetDisconnected(id, c, [t EXCEPT !.reading = FALSE], pre)

\* Mutant of OnTargetConnectFailed: m_target is closed but not reset.
OnTargetConnectFailedKeepTarget(id) ==
    /\ chan' = [chan EXCEPT ![id].state = "Closed"]
    /\ tcp' = [tcp EXCEPT ![id] = TcpClose(@)]
    /\ SendFrame(<<Frame("REQ_ACK", id, 0, "connect_fail"), Frame("CLOSE", id, 0, "RST")>>)

\* Channel::OnTargetConnected with an error: connect reply, RST, Closed,
\* m_target.reset().
OnTargetConnectFailed(id) ==
    /\ chan' = [chan EXCEPT ![id].state = "Closed"]
    /\ tcp' = [tcp EXCEPT ![id] = NoTarget]
    /\ SendFrame(<<Frame("REQ_ACK", id, 0, "connect_fail"), Frame("CLOSE", id, 0, "RST")>>)

\* ConnectEx completes: the connect_ctx callback, Channel::OnTargetConnected
\* and, on success, TcpConnection::StartReading.
OnConnectComplete ==
    \E p \in BagToSet(pend) : \E ok \in BOOLEAN :
      LET id   == p.id
          c    == chan[id]
          t    == [tcp[id] EXCEPT !.connected = ok]
          base == Done(pend, p)
          ack(a) == Frame("REQ_ACK", id, 0, a)
      IN
      /\ p.op = "connect" /\ IsLive(p)
      /\ IF c.state # "Connecting"
         THEN /\ tcp' = [tcp EXCEPT ![id] = t]
              /\ pend' = base
              /\ UNCHANGED <<chan, toPeer>>
         ELSE \/ /\ ok
                 /\ PostRecv(id, [c EXCEPT !.state = "Relaying"],
                             [t EXCEPT !.reading = TRUE], <<ack("connect_ok")>>, base)
              \/ /\ ~ok
                 /\ OnTargetConnectFailed(id)
                 /\ pend' = base
      /\ UNCHANGED <<toClient, nextGen>>
      /\ Unchanged_Env

\* TcpConnection::OnRecvComplete: data goes through Channel::OnTargetData
\* and SendToMux, then the next recv is posted; 0 bytes or an error (also
\* the cancellation after Close) reports the disconnect.
OnRecvComplete ==
    \E p \in BagToSet(pend) :
      LET id   == p.id
          c    == chan[id]
          t    == tcp[id]
          base == Done(pend, p)
      IN
      /\ p.op = "recv" /\ IsLive(p)
      /\ \/ /\ t.connected /\ t.reads < MaxReads
            /\ \E n \in 1..MaxChunk :
                 LET out == SendToMux(n, c.sendWin)
                     relay == c.state = "Relaying"
                     c1 == IF relay THEN [c EXCEPT !.sendWin = out[2]] ELSE c
                 IN /\ PostRecv(id, c1, [t EXCEPT !.reads = @ + 1],
                                IF relay THEN DataFrames(id, out[1]) ELSE <<>>, base)
         \/ /\ pend' = base
            /\ OnTargetDisconnected(id, c, [t EXCEPT !.reading = FALSE], <<>>)
      /\ UNCHANGED <<toClient, nextGen>>
      /\ Unchanged_Env

\* Mutant of PopSent: the queue is popped without the empty() check.
PopSentUnchecked(q) == q - 1

\* OnSendComplete: if (!m_send_queue.empty()) m_send_queue.pop().
PopSent(q) == IF q > 0 THEN q - 1 ELSE 0

\* TcpConnection::OnSendComplete: pop the sent buffer; on success send the
\* next one, on error (also cancellation) stop.
OnSendComplete ==
    \E p \in BagToSet(pend) : \E ok \in BOOLEAN :
      LET id == p.id
          t  == [tcp[id] EXCEPT !.queue = PopSent(@)]
      IN
      /\ p.op = "send" /\ IsLive(p)
      /\ \/ /\ ok
            /\ FlushSendQueue(id, t, Done(pend, p))
         \/ /\ ~ok
            /\ tcp' = [tcp EXCEPT ![id] = [t EXCEPT !.busy = FALSE]]
            /\ pend' = Done(pend, p)
      /\ UNCHANGED <<chan, toClient, toPeer, nextGen>>
      /\ Unchanged_Env

\* A completion whose TcpConnection (and IoContext) was destroyed: the
\* worker calls through freed memory.  Modelled as the callback doing
\* nothing, and recorded.
CompletionOnFreedTarget ==
    \E p \in BagToSet(pend) :
      /\ ~IsLive(p)
      /\ pend' = Done(pend, p)
      /\ freedUse' = freedUse \cup {"target"}
      /\ UNCHANGED <<chan, tcp, nextGen, running, timerOn, trans, main, ctrlC,
                     discCount, shutBy, toClient, toPeer, peer>>

-----------------------------------------------------------------------------
(* Session lifetime: transport disconnect, RunSession.                      *)

\* MuxSession::OnTransportDisconnected: stop, close every channel, call the
\* disconnect callback (RunSession's lambda sets the event).
DisconnectEffects ==
    /\ running' = FALSE
    /\ timerOn' = FALSE
    /\ DestroyAll
    /\ discCount' = discCount + 1
    /\ shutBy' = IF shutBy = "none" THEN "remote" ELSE shutBy

\* The SSL recv fails (peer closed, TLS shutdown, decrypt error).
TransportFail ==
    /\ trans = "up"
    /\ trans' = "down"
    /\ toClient' = <<>>
    /\ DisconnectEffects
    /\ UNCHANGED <<pend, nextGen, main, ctrlC, toPeer, peer, freedUse>>

\* The recv cancelled by SslTransport::Close completes with an error and
\* calls OnTransportDisconnected, on a session that may already be gone.
TransportRecvAborted ==
    /\ trans = "aborting"
    /\ trans' = "down"
    /\ \/ /\ main # "exited"
          /\ DisconnectEffects
          /\ UNCHANGED freedUse
       \/ /\ main = "exited"
          /\ freedUse' = freedUse \cup {"session"}
          /\ UNCHANGED <<chan, tcp, running, timerOn, discCount, shutBy>>
    /\ UNCHANGED <<pend, nextGen, main, ctrlC, toClient, toPeer, peer>>

ConsoleCtrlHandler ==
    /\ ~ctrlC
    /\ ctrlC' = TRUE
    /\ UNCHANGED <<chan, tcp, pend, nextGen, running, timerOn, trans, main, discCount,
                   shutBy, toClient, toPeer, peer, freedUse>>

\* RunSession leaves its wait loop and calls MuxSession::Shutdown.
RunSessionShutdown ==
    /\ main = "wait"
    /\ ctrlC \/ discCount > 0
    /\ main' = "shut"
    /\ IF running
       THEN /\ running' = FALSE
            /\ timerOn' = FALSE
            /\ DestroyAll
            /\ shutBy' = IF shutBy = "none" THEN "local" ELSE shutBy
       ELSE UNCHANGED <<running, timerOn, chan, tcp, shutBy>>
    /\ UNCHANGED <<pend, nextGen, trans, ctrlC, discCount, toClient, toPeer, peer, freedUse>>

\* RunSession calls SslTransport::Close: the socket is closed under the
\* pending recv, which will complete with an error.
RunSessionCloseTransport ==
    /\ main = "shut"
    /\ main' = "closed"
    /\ trans' = IF trans = "up" THEN "aborting" ELSE trans
    /\ toClient' = <<>>
    /\ UNCHANGED <<chan, tcp, pend, nextGen, running, timerOn, ctrlC, discCount, shutBy,
                   toPeer, peer, freedUse>>

\* RunSession returns: the MuxSession and SslTransport on its stack are destroyed.
RunSessionExit ==
    /\ main = "closed"
    /\ main' = "exited"
    /\ DestroyAll
    /\ UNCHANGED <<pend, nextGen, running, timerOn, trans, ctrlC, discCount,
                   shutBy, toClient, toPeer, peer, freedUse>>

-----------------------------------------------------------------------------
(* The server (environment).                                               *)

PeerUnchanged == UNCHANGED <<chan, tcp, pend, nextGen, running, timerOn, trans, main,
                             ctrlC, discCount, shutBy, freedUse>>

PeerSend(f) == /\ trans = "up"
               /\ toClient' = Append(toClient, f)

PeerOpen ==
    \E id \in Ids, sc \in Scripts :
      /\ peer[id].st = "free" /\ peer[id].opens < MaxOpens
      /\ PeerSend(Frame("OPEN", id, 0, "none"))
      /\ peer' = [peer EXCEPT ![id] = [st |-> "open", script |-> sc, reqSent |-> 0,
                                       credit |-> Window, owed |-> 0,
                                       opens |-> @.opens + 1, sent |-> 0]]
      /\ UNCHANGED toPeer
      /\ PeerUnchanged

PeerRequest ==
    \E id \in Ids, n \in 1..MaxChunk :
      /\ peer[id].st = "open"
      /\ peer[id].reqSent + n <= MethodLen + ConnectLen
      /\ PeerSend(Frame("REQUEST", id, n, "none"))
      /\ peer' = [peer EXCEPT ![id].reqSent = @ + n]
      /\ UNCHANGED toPeer
      /\ PeerUnchanged

\* The server respects the window it was given.
PeerData ==
    \E id \in Ids, n \in 1..MaxChunk :
      /\ peer[id].st = "relay"
      /\ n <= peer[id].credit /\ peer[id].sent + n <= MaxData
      /\ PeerSend(Frame("DATA", id, n, "none"))
      /\ peer' = [peer EXCEPT ![id].credit = @ - n, ![id].sent = @ + n]
      /\ UNCHANGED toPeer
      /\ PeerUnchanged

\* The server returns the credit for the DATA it consumed.
PeerWindowUpdate ==
    \E id \in Ids :
      /\ peer[id].st = "relay" /\ peer[id].owed > 0
      /\ PeerSend(Frame("WU", id, peer[id].owed, "none"))
      /\ peer' = [peer EXCEPT ![id].owed = 0]
      /\ UNCHANGED toPeer
      /\ PeerUnchanged

PeerClose ==
    \E id \in Ids :
      /\ peer[id].st \in {"open", "relay"}
      /\ PeerSend(Frame("CLOSE", id, 0, "FIN"))
      /\ peer' = [peer EXCEPT ![id].st = "closing"]
      /\ UNCHANGED toPeer
      /\ PeerUnchanged

PeerReply(f) == toClient' = IF trans = "up" THEN Append(toClient, f) ELSE toClient

\* The server reads one client frame.  CLOSE is always acknowledged.
PeerRecv ==
    /\ toPeer # <<>>
    /\ toPeer' = Tail(toPeer)
    /\ LET f == Head(toPeer) IN
       CASE f.type = "CLOSE" ->
              /\ PeerReply(Frame("CLOSE_ACK", f.id, 0, "none"))
              /\ peer' = [peer EXCEPT ![f.id].st =
                            IF @ \in {"open", "relay"} THEN "free" ELSE @]
         [] f.type = "CLOSE_ACK" ->
              /\ peer' = [peer EXCEPT ![f.id].st = IF @ = "closing" THEN "free" ELSE @]
              /\ UNCHANGED toClient
         [] f.type = "REQ_ACK" ->
              /\ peer' = [peer EXCEPT ![f.id].st =
                            IF @ = "open" /\ f.arg = "connect_ok" THEN "relay" ELSE @]
              /\ UNCHANGED toClient
         [] f.type = "DATA" ->
              /\ peer' = [peer EXCEPT ![f.id].owed = IF peer[f.id].st = "relay" THEN @ + f.n ELSE @]
              /\ UNCHANGED toClient
         [] f.type = "WU" ->
              /\ peer' = [peer EXCEPT ![f.id].credit = IF peer[f.id].st = "relay" THEN @ + f.n ELSE @]
              /\ UNCHANGED toClient
         [] OTHER -> UNCHANGED <<peer, toClient>>
    /\ PeerUnchanged

-----------------------------------------------------------------------------
Dispatch == \/ HandleChannelOpen \/ HandleChannelRequest \/ HandleData
            \/ HandleChannelClose \/ HandleChannelCloseAck
            \/ HandleWindowUpdate

Completions == OnConnectComplete \/ OnRecvComplete \/ OnSendComplete
               \/ CompletionOnFreedTarget

Session == \/ TransportFail \/ TransportRecvAborted
           \/ ConsoleCtrlHandler \/ RunSessionShutdown \/ RunSessionCloseTransport
           \/ RunSessionExit

Peer == \/ PeerOpen \/ PeerRequest \/ PeerData \/ PeerWindowUpdate \/ PeerClose
        \/ PeerRecv

Next == Dispatch \/ Completions \/ Session \/ Peer

\* The transport's read pump, the IOCP workers, the RunSession thread and the
\* server's reader keep running; a target's recv completes only when the
\* target sends, so it gets no fairness.
Fairness ==
    /\ WF_vars(Dispatch)
    /\ WF_vars(OnConnectComplete) /\ WF_vars(OnSendComplete)
    /\ WF_vars(CompletionOnFreedTarget) /\ WF_vars(TransportRecvAborted)
    /\ WF_vars(RunSessionShutdown) /\ WF_vars(RunSessionCloseTransport)
    /\ WF_vars(RunSessionExit)
    /\ WF_vars(PeerRecv)

Spec == Init /\ [][Next]_vars /\ Fairness

-----------------------------------------------------------------------------
(* Properties.                                                              *)

TypeOK ==
    /\ chan \in [Ids -> [state : States, methodDone : BOOLEAN, sbuf : Nat,
                         sendWin : Nat, recvConsumed : Nat]]
    /\ tcp \in [Ids -> [alive : BOOLEAN, gen : Nat, connected : BOOLEAN,
                        reading : BOOLEAN, queue : Nat, busy : BOOLEAN, reads : Nat]]
    /\ IsABag(pend)
    /\ BagToSet(pend) \subseteq [id : Ids, gen : Nat, op : {"connect", "recv", "send"}]
    /\ running \in BOOLEAN /\ timerOn \in BOOLEAN /\ ctrlC \in BOOLEAN
    /\ trans \in {"up", "aborting", "down"}
    /\ main \in {"wait", "shut", "closed", "exited"}
    /\ shutBy \in {"none", "local", "remote"}
    /\ \A f \in Range(toClient) \cup Range(toPeer) : f.type \in FrameTypes
    /\ freedUse \subseteq {"target", "session"}

-----------------------------------------------------------------------------
(* Safety.                                                                 *)

PendingOf(id, op) == {p \in BagToSet(pend) : p.op = op /\ IsLive(p) /\ p.id = id}

\* spec.md 3: "a channel in state Relaying has a connected TCP; a channel in
\* state Closed owns no TCP".  Checked against every channel state the code
\* reaches: Connecting owns a target whose ConnectEx is pending, Relaying one
\* that is connected with its recv posted (StartReading, PostRecv after each
\* OnRecvComplete), Closing one that OnTargetDisconnected closed and that has
\* no recv left; Requesting, Closed and removed channels own none.
TargetMatchesChannelState ==
    \A id \in Ids :
      LET s == chan[id].state
          t == tcp[id]
      IN /\ s \in {"Absent", "Requesting", "Closed"} => ~t.alive
         /\ s = "Connecting" => t.alive /\ PendingOf(id, "connect") # {}
         /\ s = "Relaying" => t.alive /\ t.connected /\ t.reading
                              /\ PendingOf(id, "recv") # {}
         /\ s = "Closing" => t.alive /\ ~t.connected /\ PendingOf(id, "recv") = {}

\* A TcpConnection has one IoContext per operation (m_connect_ctx, m_recv_ctx,
\* m_send_ctx), reused by each post.  No context of a live connection is
\* posted twice before its completion: PostRecv only from StartReading and
\* from the previous recv's completion, FlushSendQueue only while no send is
\* in flight (m_send_in_progress).
OverlappedContextNotReused ==
    \A id \in Ids, op \in {"connect", "recv", "send"} :
      \A r \in PendingOf(id, op) : CopiesIn(r, pend) = 1

\* Receive-window credit is conserved (spec.md 4.5): while a channel relays
\* on both sides, the credit the server holds, the DATA bytes in flight to
\* the client, the client's m_recv_consumed and the WINDOW_UPDATE increments
\* in flight back add up to the configured window.  Channel::OnData must
\* count every DATA byte and return exactly what it counted.
BytesOf(q, id, t) ==
    SumSeq([k \in 1..Len(q) |-> IF q[k].type = t /\ q[k].id = id THEN q[k].n ELSE 0])

RecvCreditConserved ==
    \A id \in Ids :
      chan[id].state = "Relaying" /\ peer[id].st = "relay" =>
        peer[id].credit + BytesOf(toClient, id, "DATA") + chan[id].recvConsumed
          + BytesOf(toPeer, id, "WU") = Window

\* No orphaned channel: once the server has released an id (it saw CLOSE or
\* CLOSE_ACK) and no frame for it is still in transit either way, the
\* client's registry no longer holds a channel for it.  This needs
\* HandleChannelClose to remove a Closed channel and HandleChannelCloseAck to
\* remove one in any state.
NoOrphanChannel ==
    \A id \in Ids :
      /\ peer[id].st = "free"
      /\ \A k \in 1..Len(toClient) : toClient[k].id # id
      /\ \A k \in 1..Len(toPeer) : toPeer[k].id # id
      => chan[id].state = "Absent"

\* No IOCP completion runs on a destroyed object: neither on a TcpConnection
\* (Channel::OnClose, ForceClose and OnTargetConnected reset m_target while
\* its overlapped operations may still be queued) nor on the MuxSession
\* (RunSession returns after SslTransport::Close while the aborted recv's
\* completion, which calls OnTransportDisconnected, may still be queued).
NoCallbackOnFreedObject == freedUse = {}

\* Scenario F of spec.md: after a local shutdown the disconnect callback is
\* not invoked and inbound frames are ignored, so the registry stays empty.
\* OnTransportDisconnected does not test m_running, and OnDataReceived
\* dispatches whatever the transport delivers until SslTransport::Close.
ShutdownIsQuiet ==
    shutBy = "local" =>
        /\ discCount = 0
        /\ \A id \in Ids : chan[id].state = "Absent"

-----------------------------------------------------------------------------
(* Liveness.                                                               *)

\* A channel that has left the relay (Closing after the target's EOF,
\* Closed after a SOCKS5 or connect failure) is eventually removed from the
\* registry: its CLOSE is answered by the server and HandleChannelCloseAck
\* or HandleChannelClose removes it, or the session is torn down.
ChannelEventuallyReleased ==
    \A id \in Ids : chan[id].state \in {"Closing", "Closed"} ~> chan[id].state = "Absent"

-----------------------------------------------------------------------------
(* Refinement.                                                             *)

\* The registry seen through spec.md 4.4: each id's channel state, and
\* whether its Channel owns a TcpConnection (m_target is not null).
Lifecycle == INSTANCE ChannelLifecycle
                 WITH st   <- [i \in Ids |-> chan[i].state],
                      owns <- [i \in Ids |-> tcp[i].alive]

\* MuxSession implements the channel lifecycle of spec.md 4.4: every step of
\* dispatch, of a target completion, of the
\* transport or of RunSession moves each channel along the table's
\* transitions (or leaves it alone), and a Channel owns its TcpConnection
\* exactly from a parsed CONNECT until it is Closed or removed.
ImplementsChannelLifecycle == Lifecycle!Spec

================================================================================
