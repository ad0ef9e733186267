---------------------------- MODULE Socks5Session ----------------------------
(***************************************************************************)
(* ssh-proxy-lib's Socks5Session (socks5_session.cpp): one forwarded-tcpip *)
(* SSH channel, its SOCKS5 handshake, the outbound TcpConnection and the    *)
(* relay.  Two threads run it: the SSH I/O thread runs Start, which reads   *)
(* the channel (IChannel::Read blocks until data, EOF or an error) and      *)
(* handles each read through recursive calls until the CONNECT has started *)
(* or the session is closed; an IOCP worker runs OnTcpConnected and, on    *)
(* success, StartRelay's blocking read loop.  The target's data and        *)
(* disconnect callbacks run on IOCP workers too.                            *)
(*                                                                         *)
(* The client is an environment: it writes its method request, then its    *)
(* CONNECT, either after the method reply or pipelined before it; the SSH  *)
(* channel delivers what has arrived in reads of any size.  It may send    *)
(* EOF at any time, and relay data once it has its final reply.            *)
(***************************************************************************)
EXTENDS Socks5Handler, Integers, Sequences

CONSTANTS
    Scripts,             \* the clients' SOCKS5 scripts
    ImmediateResults,    \* what TcpConnection::ConnectAsync may return
    CompletionResults,   \* what the ConnectEx completion may report
    MaxRelay             \* bound: relayed reads in each direction

VARIABLES
    script,     \* the client's script
    sent,       \* how much the client has written: 0, 1 (methods), 2 (CONNECT)
    wire,       \* bytes written by the client and not yet read by the session
    eof,        \* the client has sent EOF
    state,      \* Socks5Session::m_state
    buf,        \* m_inbound_buf
    io,         \* SSH I/O thread: "read" (in ReadFromChannel) or "returned"
    tcp,        \* m_tcp: "none", "connecting", "connected", "closed"
    relay,      \* StartRelay's loop on the IOCP worker: "none", "loop", "reading", "done"
    replies,    \* bytes the session wrote to the channel during the handshake
    relayed,    \* [up |-> reads relayed to the target, down |-> target reads]
    chanOpen    \* the SSH channel is open (IChannel::Close not yet called)

vars == <<script, sent, wire, eof, state, buf, io, tcp, relay, replies,
          relayed, chanOpen>>

Init ==
    /\ script \in Scripts
    /\ sent = 0 /\ wire = <<>> /\ eof = FALSE
    /\ state = "ReadingMethods"
    /\ buf = <<>>
    /\ io = "read"
    /\ tcp = "none"
    /\ relay = "none"
    /\ replies = <<>>
    /\ relayed = [up |-> 0, down |-> 0]
    /\ chanOpen = TRUE

\* Socks5Session::Close: the first call closes the target and the channel.
Close == IF state = "Closed"
         THEN UNCHANGED <<state, tcp, chanOpen>>
         ELSE /\ state' = "Closed"
              /\ tcp' = IF tcp = "none" THEN "none" ELSE "closed"
              /\ chanOpen' = FALSE

\* m_channel->Write of a reply during the handshake.
Write(bytes) == replies' = replies \o bytes

-----------------------------------------------------------------------------
(* The client.                                                             *)

ClientSendMethods ==
    /\ sent = 0 /\ ~eof
    /\ sent' = 1 /\ wire' = wire \o MethodRequestBytes(script)
    /\ UNCHANGED <<script, eof, state, buf, io, tcp, relay, replies, relayed, chanOpen>>

\* An RFC 1928 client waits for the method reply; a pipelining one does not.
ClientSendConnect ==
    /\ sent = 1 /\ ~eof
    /\ sent' = 2 /\ wire' = wire \o ConnectRequestBytes(script)
    /\ UNCHANGED <<script, eof, state, buf, io, tcp, relay, replies, relayed, chanOpen>>

\* After a final reply (a rejection, or the CONNECT reply) the client may
\* send relay data.
Answered == Len(replies) > 2 \/ (Len(replies) = 2 /\ replies[2] = AUTH_NO_ACCEPTABLE)

ClientSendData ==
    /\ Answered /\ ~eof /\ relayed.up + Len(wire) < MaxRelay
    /\ wire' = Append(wire, 0)
    /\ UNCHANGED <<script, sent, eof, state, buf, io, tcp, relay, replies, relayed, chanOpen>>

ClientEof ==
    /\ ~eof
    /\ eof' = TRUE
    /\ UNCHANGED <<script, sent, wire, state, buf, io, tcp, relay, replies, relayed, chanOpen>>

-----------------------------------------------------------------------------
(* The SSH I/O thread: ReadFromChannel and the handlers it calls.          *)

\* StartTcpConnect: Connecting, then ConnectAsync; an immediate error is
\* answered and closes the session.  Start returns either way.
StartTcpConnect ==
    \E imm \in ImmediateResults :
        /\ io' = "returned"
        /\ IF imm = "Success"
           THEN /\ state' = "Connecting" /\ tcp' = "connecting"
                /\ UNCHANGED <<replies, chanOpen>>
           ELSE /\ Write(BuildConnectReply(ErrorCodeToSocks5Reply(imm)))
                /\ state' = "Closed" /\ tcp' = "closed" /\ chanOpen' = FALSE

\* HandleMethodNegotiation on the buffer b.
HandleMethodNegotiation(b) ==
    LET pm == ParseMethodRequest(b) IN
    \/ /\ pm.consumed = 0                             \* ReadFromChannel again
       /\ buf' = b
       /\ UNCHANGED <<state, io, tcp, replies, chanOpen>>
    \/ /\ pm.consumed < 0 \/ (pm.consumed > 0 /\ ~pm.supports_no_auth)
       /\ buf' = b
       /\ Write(BuildMethodResponse(AUTH_NO_ACCEPTABLE))
       /\ Close /\ io' = "returned"
    \/ /\ pm.consumed > 0 /\ pm.supports_no_auth       \* then ReadFromChannel
       /\ buf' = SubSeq(b, pm.consumed + 1, Len(b))
       /\ Write(BuildMethodResponse(AUTH_NONE))
       /\ state' = "ReadingRequest"
       /\ UNCHANGED <<io, tcp, chanOpen>>

\* HandleConnectRequest on the buffer b.
HandleConnectRequest(b) ==
    LET cr == ParseConnectRequest(b) IN
    \/ /\ cr.consumed = 0
       /\ buf' = b
       /\ UNCHANGED <<state, io, tcp, replies, chanOpen>>
    \/ /\ cr.consumed < 0
       /\ buf' = b
       /\ Write(BuildConnectReply(REP_GENERAL_FAILURE))
       /\ Close /\ io' = "returned"
    \/ /\ cr.consumed > 0
       /\ buf' = SubSeq(b, cr.consumed + 1, Len(b))
       /\ IF cr.host.atyp \notin {ATYP_IPV4, ATYP_IPV6, ATYP_DOMAIN}
          THEN /\ Write(BuildConnectReply(REP_ADDRESS_TYPE_NOT_SUPPORTED))
               /\ Close /\ io' = "returned"
          ELSE StartTcpConnect

\* ReadFromChannel: Read returns the first k bytes that have arrived, and
\* OnChannelData appends them and calls the handler of the state.
ReadFromChannel ==
    /\ io = "read" /\ wire # <<>>
    /\ \E k \in 1..Len(wire) :
         LET b == buf \o SubSeq(wire, 1, k) IN
         /\ wire' = SubSeq(wire, k + 1, Len(wire))
         /\ IF state = "ReadingMethods" THEN HandleMethodNegotiation(b)
            ELSE HandleConnectRequest(b)
    /\ UNCHANGED <<script, sent, eof, relay, relayed>>

\* Read reports EOF (or an error): Close.
ReadFromChannelEnd ==
    /\ io = "read" /\ wire = <<>> /\ eof
    /\ io' = "returned"
    /\ Close
    /\ UNCHANGED <<script, sent, wire, eof, buf, relay, replies, relayed>>

-----------------------------------------------------------------------------
(* IOCP workers: the connect completion, the relay, the target callbacks.  *)

\* OnTcpConnected: the reply; on success Relaying and StartRelay.
OnTcpConnected ==
    /\ tcp = "connecting"
    /\ \E ec \in CompletionResults :
         IF ec = "Success"
         THEN /\ Write(BuildConnectReply(REP_SUCCESS))
              /\ state' = "Relaying" /\ tcp' = "connected" /\ relay' = "loop"
              /\ UNCHANGED chanOpen
         ELSE /\ Write(BuildConnectReply(ErrorCodeToSocks5Reply(ec)))
              /\ Close
              /\ UNCHANGED relay
    /\ UNCHANGED <<script, sent, wire, eof, buf, io, relayed>>

\* StartRelay's loop: IsEof is false and SshChannel::Read, past its
\* m_channel check, is inside libssh2_channel_read on the channel.
RelayRead ==
    /\ relay = "loop" /\ chanOpen /\ ~(wire = <<>> /\ eof)
    /\ relay' = "reading"
    /\ UNCHANGED <<script, sent, wire, eof, state, buf, io, tcp, replies, relayed, chanOpen>>

\* libssh2_channel_read returns: data, which m_tcp.Send forwards; EOF, so
\* Read reports ChannelClosed and the loop calls Close; or EAGAIN, and Read
\* sleeps and calls it again (a channel closed meanwhile then fails it).
RelayReadReturns ==
    /\ relay = "reading"
    /\ \/ /\ wire # <<>>
          /\ \E k \in 1..Len(wire) :
               /\ wire' = SubSeq(wire, k + 1, Len(wire))
               /\ relayed' = [relayed EXCEPT !.up = @ + k]
          /\ relay' = "loop"
          /\ UNCHANGED <<state, tcp, chanOpen>>
       \/ /\ wire = <<>> /\ eof
          /\ relay' = "done"
          /\ Close
          /\ UNCHANGED <<wire, relayed>>
       \/ /\ wire = <<>> /\ ~eof
          /\ relay' = "loop"
          /\ UNCHANGED <<wire, relayed, state, tcp, chanOpen>>
    /\ UNCHANGED <<script, sent, eof, buf, io, replies>>

\* The loop ends on IsEof, or on a Read of a channel already closed, and
\* calls Close.
RelayEnd ==
    /\ relay = "loop"
    /\ (wire = <<>> /\ eof) \/ ~chanOpen
    /\ relay' = "done"
    /\ Close
    /\ UNCHANGED <<script, sent, wire, eof, buf, io, replies, relayed>>

\* The target's data callback writes to the channel.
TargetData ==
    /\ tcp = "connected" /\ relayed.down < MaxRelay
    /\ relayed' = [relayed EXCEPT !.down = @ + 1]
    /\ UNCHANGED <<script, sent, wire, eof, state, buf, io, tcp, relay, replies, chanOpen>>

\* The target disconnects: SendEof and Close.
TargetDisconnected ==
    /\ tcp = "connected"
    /\ Close
    /\ UNCHANGED <<script, sent, wire, eof, buf, io, relay, replies, relayed>>

Next ==
    \/ ClientSendMethods \/ ClientSendConnect \/ ClientSendData \/ ClientEof
    \/ ReadFromChannel \/ ReadFromChannelEnd
    \/ OnTcpConnected \/ RelayRead \/ RelayReadReturns \/ RelayEnd \/ TargetData \/ TargetDisconnected

Spec == Init /\ [][Next]_vars

(***************************************************************************)
(* A SOCKS5 message that has arrived is answered before the session waits  *)
(* for more: whenever the SSH I/O thread is blocked in ReadFromChannel     *)
(* with nothing left to read, m_inbound_buf holds no complete method       *)
(* request or CONNECT request (the parsers would return a non-zero        *)
(* result).  Otherwise a client waiting for the reply waits forever.       *)
(***************************************************************************)
NoUnansweredRequest ==
    io = "read" /\ wire = <<>> /\ ~eof =>
        /\ state = "ReadingMethods" => ParseMethodRequest(buf).consumed = 0
        /\ state = "ReadingRequest" => ParseConnectRequest(buf).consumed = 0

=============================================================================
