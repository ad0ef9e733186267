----------------------------- MODULE RequestPath -----------------------------
(***************************************************************************)
(* The byte-level path of a channel's SOCKS5 negotiation in ssh-client:    *)
(* MuxSession::OnDataReceived feeds the transport's bytes to the           *)
(* FrameCodec and dispatches the frames it returns; CHANNEL_OPEN and       *)
(* CHANNEL_REQUEST drive Channel::OnOpen, OnRequest and ProcessSocks5 with *)
(* the parsers of Socks5Handler; the target's ConnectAsync result or       *)
(* completion ends the negotiation in OnTargetConnected.                   *)
(*                                                                         *)
(* The server's byte stream is fixed in Init: CHANNEL_OPEN, then a SOCKS5  *)
(* conversation (a script) cut into up to MaxPieces CHANNEL_REQUEST        *)
(* payloads, optionally preceded by one frame whose payload exceeds        *)
(* FRAME_MAX_PAYLOAD.  The server writes the stream in TLS records of     *)
(* RecordSizes bytes, possibly ending with a close_notify or an           *)
(* undecryptable record.  SslTransport (the client's receive side) gets   *)
(* the ciphertext in recvs of up to RecvBufSize bytes, or some of it with  *)
(* the handshake's last read, and hands each record's plaintext to        *)
(* OnDataReceived.  Everything the client sends is kept as wire bytes.    *)
(*                                                                         *)
(* Relay state (windows, the target's queue) is modelled in MuxSession;   *)
(* here DATA and WINDOW_UPDATE frames change nothing this module tracks.  *)
(***************************************************************************)
EXTENDS FrameCodec, Socks5Handler, SslTransport, Integers, FiniteSets, SequencesExt, TLC

CONSTANTS
    Id,                 \* the channel id the server opens
    Scripts,            \* SOCKS5 conversations the server may send
    MaxPieces,          \* most CHANNEL_REQUEST frames a conversation is cut into
    RecordSizes,        \* plaintext sizes of the server's TLS records
    MaxInFlight,        \* bound: records sent and not yet decrypted
    FinalKinds,         \* kinds of record the server may end with
    PostResults,        \* WSARecv: "pending", or "failed" at once
    Oversized,          \* whether an oversized frame precedes the requests
    ImmediateResults,   \* ConnectAsync's return: Success, DnsResolutionFailed, ...
    CompletionResults   \* the ConnectEx completion's ErrorCode

VARIABLES
    frames,       \* the frames the server sends
    stream,       \* their bytes
    script,       \* the conversation they carry
    fed,          \* plaintext bytes delivered to OnDataReceived so far
    plainSent,    \* stream bytes the server has put into records
    ended,        \* the server has written its final record
    recs,         \* records sent and not yet decrypted, in order
    used,         \* SslTransport::m_decrypt_buf_used
    dbSize,       \* m_decrypt_buf.size()
    connected,    \* SslTransport::m_connected
    recv,         \* "start" (before StartReading), "pending", "none"
    running,      \* MuxSession::m_running
    codecBuf,     \* m_codec's m_buffer[0..m_used)
    chans,        \* m_channels: id -> Channel
    toServer,     \* plaintext of the records the client sent (SendFrame)
    dispatched,   \* frames passed to DispatchFrame, in order (history)
    overflowAt    \* <<k>> once Feed hit an oversized header after k frames

vars == <<frames, stream, script, fed, plainSent, ended, recs, used, dbSize,
          connected, recv, running, codecBuf, chans, toServer, dispatched,
          overflowAt>>
session == <<fed, codecBuf, chans, toServer, dispatched, overflowAt>>
transport == <<used, dbSize, connected, recv, running>>

Frame(type, flags, id, payload) ==
    [header  |-> [type |-> type, flags |-> flags, channel_id |-> id,
                  payload_length |-> Len(payload)],
     payload |-> payload]

\* The ways to cut n bytes into 1..MaxPieces pieces of at most MaxPayload
\* bytes each, as the sequence of the pieces' lengths.
Cuts(n) ==
    { lens \in UNION {[1..k -> 1..MaxPayload] : k \in 1..MaxPieces} :
        FoldSeq(+, 0, lens) = n }

Pieces(b, lens) ==
    [i \in DOMAIN lens |->
        LET start == FoldSeq(+, 0, SubSeq(lens, 1, i - 1))
        IN  SubSeq(b, start + 1, start + lens[i])]

\* A frame whose payload_length is one more than FRAME_MAX_PAYLOAD.
OversizedFrame == Frame(FrameType.Data, 0, Id, [i \in 1..(MaxPayload + 1) |-> 0])

\* The frames the server sends for script s cut at c.
ServerFrames(s, c) ==
    <<Frame(FrameType.ChannelOpen, 0, Id, <<>>)>>
        \o (IF Oversized THEN <<OversizedFrame>> ELSE <<>>)
        \o [i \in DOMAIN Pieces(Socks5Bytes(s), c) |->
                Frame(FrameType.ChannelRequest, 0, Id, Pieces(Socks5Bytes(s), c)[i])]

\* m_connect_req before ParseConnectRequest fills it (host is empty).
NoRequest == [host |-> [atyp |-> 0, addr |-> <<>>], port |-> 0]

\* Channel's constructor followed by OnOpen.
NewChannel ==
    [state |-> "Requesting", socks5_buf |-> <<>>, method_done |-> FALSE,
     connect_req |-> NoRequest, target |-> "none"]

ReqAck(id, data) == BuildChannelRequestAck(id, data)

\* Mutant: a failed connect replies but does not send CHANNEL_CLOSE(RST).
OnTargetConnectedNoRst(id, c, ec) ==
    IF c.state # "Connecting" THEN [ch |-> c, sent |-> <<>>]
    ELSE IF ec # "Success"
    THEN [ch   |-> [c EXCEPT !.state = "Closed", !.target = "none"],
          sent |-> ReqAck(id, BuildConnectReply(ErrorCodeToSocks5Reply(ec)))]
    ELSE [ch   |-> [c EXCEPT !.state = "Relaying", !.target = "reading"],
          sent |-> ReqAck(id, BuildConnectReply(REP_SUCCESS))]

\* Channel::OnTargetConnected(ec) on channel c; returns the channel and
\* the bytes sent.
OnTargetConnected(id, c, ec) ==
    IF c.state # "Connecting" THEN [ch |-> c, sent |-> <<>>]
    ELSE IF ec # "Success"
    THEN [ch   |-> [c EXCEPT !.state = "Closed", !.target = "none"],
          sent |-> ReqAck(id, BuildConnectReply(ErrorCodeToSocks5Reply(ec)))
                     \o BuildChannelClose(id, FRAME_FLAG_RST)]
    ELSE [ch   |-> [c EXCEPT !.state = "Relaying", !.target = "reading"],
          sent |-> ReqAck(id, BuildConnectReply(REP_SUCCESS))]

\* Mutant: ProcessSocks5 returns after the method response instead of going
\* on to parse a CONNECT that arrived with it.
ProcessSocks5NoFallThrough(id, c, imm) ==
    LET pm == ParseMethodRequest(c.socks5_buf)
        cr == ParseConnectRequest(c.socks5_buf)
        c2 == [c EXCEPT !.socks5_buf = SubSeq(c.socks5_buf, cr.consumed + 1, Len(c.socks5_buf)),
                        !.connect_req = [host |-> cr.host, port |-> cr.port],
                        !.state = "Connecting", !.target = "connecting"]
        fail == OnTargetConnected(id, c2, imm)
    IN  IF ~c.method_done /\ pm.consumed = 0 THEN [ch |-> c, sent |-> <<>>]
        ELSE IF ~c.method_done /\ (pm.consumed < 0 \/ ~pm.supports_no_auth)
        THEN [ch   |-> [c EXCEPT !.state = "Closed"],
              sent |-> ReqAck(id, BuildMethodResponse(AUTH_NO_ACCEPTABLE))
                         \o BuildChannelClose(id, FRAME_FLAG_RST)]
        ELSE IF ~c.method_done
        THEN [ch   |-> [c EXCEPT !.method_done = TRUE,
                          !.socks5_buf = SubSeq(@, pm.consumed + 1, Len(@))],
              sent |-> ReqAck(id, BuildMethodResponse(AUTH_NONE))]
        ELSE IF c.socks5_buf = <<>> \/ cr.consumed = 0 THEN [ch |-> c, sent |-> <<>>]
        ELSE IF cr.consumed < 0
        THEN [ch   |-> [c EXCEPT !.state = "Closed"],
              sent |-> ReqAck(id, BuildConnectReply(REP_GENERAL_FAILURE))
                         \o BuildChannelClose(id, FRAME_FLAG_RST)]
        ELSE IF imm = "Success" THEN [ch |-> c2, sent |-> <<>>]
        ELSE fail

(***************************************************************************)
(* Channel::ProcessSocks5.  imm is what ConnectAsync returns if the        *)
(* CONNECT completes here: "Success" (ConnectEx pending) or the error of   *)
(* name resolution or socket setup, passed on to OnTargetConnected.       *)
(***************************************************************************)
ProcessSocks5(id, c, imm) ==
    LET pm   == ParseMethodRequest(c.socks5_buf)
        ack  == IF c.method_done THEN <<>>
                ELSE ReqAck(id, BuildMethodResponse(AUTH_NONE))
        buf  == IF c.method_done THEN c.socks5_buf
                ELSE SubSeq(c.socks5_buf, pm.consumed + 1, Len(c.socks5_buf))
        c1   == [c EXCEPT !.socks5_buf = buf, !.method_done = TRUE]
        cr   == ParseConnectRequest(buf)
        c2   == [c1 EXCEPT !.socks5_buf = SubSeq(buf, cr.consumed + 1, Len(buf)),
                           !.connect_req = [host |-> cr.host, port |-> cr.port],
                           !.state = "Connecting", !.target = "connecting"]
        fail == OnTargetConnected(id, c2, imm)
    IN  IF ~c.method_done /\ pm.consumed = 0 THEN [ch |-> c, sent |-> <<>>]
        ELSE IF ~c.method_done /\ (pm.consumed < 0 \/ ~pm.supports_no_auth)
        THEN [ch   |-> [c EXCEPT !.state = "Closed"],
              sent |-> ReqAck(id, BuildMethodResponse(AUTH_NO_ACCEPTABLE))
                         \o BuildChannelClose(id, FRAME_FLAG_RST)]
        ELSE IF buf = <<>> \/ cr.consumed = 0 THEN [ch |-> c1, sent |-> ack]
        ELSE IF cr.consumed < 0
        THEN [ch   |-> [c1 EXCEPT !.state = "Closed"],
              sent |-> ack \o ReqAck(id, BuildConnectReply(REP_GENERAL_FAILURE))
                         \o BuildChannelClose(id, FRAME_FLAG_RST)]
        ELSE IF imm = "Success" THEN [ch |-> c2, sent |-> ack]
        ELSE [ch |-> fail.ch, sent |-> ack \o fail.sent]

\* Channel::OnRequest: only in Requesting; append, then ProcessSocks5.
OnRequest(id, c, data, imm) ==
    IF c.state # "Requesting" THEN [ch |-> c, sent |-> <<>>]
    ELSE ProcessSocks5(id, [c EXCEPT !.socks5_buf = @ \o data], imm)

\* RemoveChannel: erase the id from m_channels.
RemoveChannel(cs, id) == [i \in DOMAIN cs \ {id} |-> cs[i]]

(***************************************************************************)
(* MuxSession::DispatchFrame of frame f on registry cs, with its handler.  *)
(***************************************************************************)
DispatchFrame(cs, f, imm) ==
    LET t  == f.header.type
        id == f.header.channel_id
        r  == OnRequest(id, cs[id], f.payload, imm)
    IN  CASE t = FrameType.ChannelOpen ->          \* HandleChannelOpen + OnOpen
                [chans |-> (id :> NewChannel) @@ cs, sent |-> BuildChannelOpenAck(id)]
          [] t = FrameType.ChannelRequest /\ id \in DOMAIN cs ->
                [chans |-> [cs EXCEPT ![id] = r.ch], sent |-> r.sent]
          [] t = FrameType.ChannelClose ->          \* OnClose, then RemoveChannel
                [chans |-> RemoveChannel(cs, id), sent |-> BuildChannelCloseAck(id)]
          [] t = FrameType.ChannelCloseAck ->       \* ForceClose, RemoveChannel
                [chans |-> RemoveChannel(cs, id), sent |-> <<>>]
          [] t = FrameType.Ping -> [chans |-> cs, sent |-> BuildPong]
          [] OTHER -> [chans |-> cs, sent |-> <<>>]

\* The `for (frame : frames) DispatchFrame(frame)` loop of OnDataReceived.
RECURSIVE DispatchAll(_, _, _, _)
DispatchAll(cs, fs, imm, sent) ==
    IF fs = <<>> THEN [chans |-> cs, sent |-> sent]
    ELSE LET r == DispatchFrame(cs, Head(fs), imm)
         IN  DispatchAll(r.chans, Tail(fs), imm, sent \o r.sent)

Init ==
    /\ script \in Scripts
    /\ \E c \in Cuts(Len(Socks5Bytes(script))) : frames = ServerFrames(script, c)
    /\ stream = FlattenSeq([i \in DOMAIN frames |-> EncodeFrame(frames[i])])
    /\ fed = 0
    /\ plainSent = 0
    /\ ended = FALSE
    /\ recs = <<>>
    /\ used = 0
    /\ dbSize = InitialDecryptBuf
    /\ connected = TRUE          \* SslTransport::Connect succeeded
    /\ recv = "start"
    /\ running = TRUE            \* MuxSession::Start, before StartReading
    /\ codecBuf = <<>>
    /\ chans = <<>>
    /\ toServer = <<>>
    /\ dispatched = <<>>
    /\ overflowAt = <<>>

\* The session's state as OnDataReceived sees it; `sent` collects SendFrame.
Sess == [codecBuf |-> codecBuf, chans |-> chans, sent |-> <<>>,
         dispatched |-> dispatched, overflowAt |-> overflowAt, fed |-> fed]

(***************************************************************************)
(* MuxSession::OnDataReceived(data) on session state ss: Feed, then        *)
(* dispatch every frame it returned.                                       *)
(***************************************************************************)
OnDataReceived(ss, data, imm) ==
    LET r == Feed(ss.codecBuf, data)
        d == DispatchAll(ss.chans, r.frames, imm, <<>>)
    IN  [codecBuf   |-> r.buf,
         chans      |-> d.chans,
         sent       |-> ss.sent \o d.sent,
         dispatched |-> ss.dispatched \o r.frames,
         overflowAt |-> IF r.aborted /\ ss.overflowAt = <<>>
                        THEN <<Len(ss.dispatched) + Len(r.frames)>>
                        ELSE ss.overflowAt,
         fed        |-> ss.fed + Len(data)]

\* m_on_data called for each decrypted plaintext, in order.
RECURSIVE DeliverAll(_, _, _)
DeliverAll(ss, plains, imm) ==
    IF plains = <<>> THEN ss
    ELSE DeliverAll(OnDataReceived(ss, Head(plains), imm), Tail(plains), imm)

\* MuxSession::OnTransportDisconnected: m_running = false, CloseAllChannels.
OnTransportDisconnected(ss) == [ss EXCEPT !.chans = <<>>]

SetSession(ss) ==
    /\ codecBuf' = ss.codecBuf
    /\ chans' = ss.chans
    /\ toServer' = toServer \o Plaintext(SendRecords(ss.sent))
    /\ dispatched' = ss.dispatched
    /\ overflowAt' = ss.overflowAt
    /\ fed' = ss.fed

(***************************************************************************)
(* The common tail of StartReading and OnRecvComplete once u ciphertext    *)
(* bytes are buffered: ProcessDecryptBuffer, with m_on_data; on            *)
(* close_notify or a decrypt error m_connected = false and m_on_disconnect;*)
(* otherwise PostRecv, whose WSARecv may fail at once, which calls        *)
(* m_on_disconnect but leaves m_connected set.                             *)
(***************************************************************************)
DecryptAndPost(u, imm) ==
    LET p  == ProcessDecryptBuffer(recs, u, <<>>)
        ss == DeliverAll(Sess, p.out, imm)
    IN  /\ recs' = p.recs
        /\ used' = p.used
        /\ IF p.ss \in {"expired", "error"}
           THEN /\ connected' = FALSE /\ running' = FALSE /\ recv' = "none"
                /\ SetSession(OnTransportDisconnected(ss))
           ELSE \E post \in PostResults :
                /\ UNCHANGED connected
                /\ IF post = "pending"
                   THEN /\ recv' = "pending" /\ UNCHANGED running
                        /\ SetSession(ss)
                   ELSE /\ recv' = "none" /\ running' = FALSE
                        /\ SetSession(OnTransportDisconnected(ss))

\* Ciphertext the server has sent and the client has not read.
InNetwork == CipherTotal(recs) - used

(***************************************************************************)
(* SslTransport::StartReading, called by MuxSession::Start: the handshake's*)
(* last read left k bytes after the server's Finished in m_decrypt_buf     *)
(* (DoHandshake's SECBUFFER_EXTRA); they are processed before the first    *)
(* recv is posted.                                                         *)
(***************************************************************************)
StartReading ==
    /\ recv = "start"
    /\ \E k \in 0..InNetwork, imm \in ImmediateResults : DecryptAndPost(k, imm)
    /\ UNCHANGED <<frames, stream, script, plainSent, ended, dbSize>>

\* SslTransport::OnRecvComplete with n bytes: append (or fail when the
\* buffer would pass its maximum), then DecryptAndPost.
OnRecvComplete ==
    /\ recv = "pending" /\ InNetwork > 0
    /\ \E n \in 1..RecvBufSize, imm \in ImmediateResults :
         /\ n <= InNetwork
         /\ LET g == GrowDecryptBuf(dbSize, used, n) IN
            IF g.ok
            THEN /\ dbSize' = g.size
                 /\ DecryptAndPost(used + n, imm)
            ELSE /\ connected' = FALSE /\ running' = FALSE /\ recv' = "none"
                 /\ SetSession(OnTransportDisconnected(Sess))
                 /\ UNCHANGED <<recs, used, dbSize>>
    /\ UNCHANGED <<frames, stream, script, plainSent, ended>>

\* The recv completes with an error or 0 bytes (the server closed or reset
\* the connection): m_connected = false, m_on_disconnect.
OnRecvFailed ==
    /\ recv = "pending"
    /\ connected' = FALSE /\ running' = FALSE /\ recv' = "none"
    /\ SetSession(OnTransportDisconnected(Sess))
    /\ UNCHANGED <<frames, stream, script, plainSent, ended, recs, used, dbSize>>

\* The server writes the next record of the stream.
ServerSendRecord ==
    /\ plainSent < Len(stream) /\ Len(recs) < MaxInFlight
    /\ \E n \in RecordSizes :
         LET e == IF plainSent + n < Len(stream) THEN plainSent + n ELSE Len(stream)
         IN  /\ recs' = Append(recs, Record("data", SubSeq(stream, plainSent + 1, e)))
             /\ plainSent' = e
    /\ UNCHANGED <<frames, stream, script, ended, session, transport>>

\* After the stream, the server may end with a close_notify or a record
\* that does not decrypt.
ServerSendFinal ==
    /\ plainSent = Len(stream) /\ ~ended /\ Len(recs) < MaxInFlight
    /\ \E k \in FinalKinds : recs' = Append(recs, Record(k, <<>>))
    /\ ended' = TRUE
    /\ UNCHANGED <<frames, stream, script, plainSent, session, transport>>

\* The ConnectEx completion calls m_on_connected, i.e. OnTargetConnected.
TargetConnectComplete ==
    \E id \in DOMAIN chans, ec \in CompletionResults :
        /\ chans[id].target = "connecting"
        /\ LET r == OnTargetConnected(id, chans[id], ec)
           IN  /\ chans' = [chans EXCEPT ![id] = r.ch]
               /\ toServer' = toServer \o Plaintext(SendRecords(r.sent))
        /\ UNCHANGED <<frames, stream, script, fed, plainSent, ended, recs,
                       codecBuf, dispatched, overflowAt, transport>>

Next ==
    \/ ServerSendRecord \/ ServerSendFinal
    \/ StartReading \/ OnRecvComplete \/ OnRecvFailed
    \/ TargetConnectComplete

\* Only safety is checked here: the negotiation's end once all its bytes
\* have arrived is the invariant Socks5Incremental.
Spec == Init /\ [][Next]_vars

-----------------------------------------------------------------------------
(***************************************************************************)
(* Properties.  The references below are written from RFC 1928 and        *)
(* spec.md, not from the code.                                             *)
(***************************************************************************)
ChannelStates == {"Opening", "Requesting", "Connecting", "Relaying", "Closing", "Closed"}

TypeOK ==
    /\ fed \in 0..Len(stream)
    /\ plainSent \in 0..Len(stream)
    /\ \A i \in DOMAIN recs : recs[i].kind \in RecordKinds
    /\ used \in 0..CipherTotal(recs) /\ used <= dbSize
    /\ recv \in {"start", "pending", "none"}
    /\ Len(codecBuf) < Capacity
    /\ \A id \in DOMAIN chans :
          /\ chans[id].state \in ChannelStates
          /\ chans[id].target \in {"none", "connecting", "reading"}
    /\ overflowAt \in Seq(Nat) /\ Len(overflowAt) <= 1
    /\ \A i \in DOMAIN dispatched :
          Len(dispatched[i].payload) = dispatched[i].header.payload_length

\* Bytes on the wire up to and including the k-th server frame.
FrameEnd(k) ==
    LET e[i \in 0..k] == IF i = 0 THEN 0
                         ELSE e[i - 1] + FRAME_HEADER_SIZE + Len(frames[i].payload)
    IN  e[k]

\* The number of server frames whose last byte has been delivered.
Complete == CHOOSE k \in 0..Len(frames) :
                FrameEnd(k) <= fed /\ (k = Len(frames) \/ FrameEnd(k + 1) > fed)

(***************************************************************************)
(* Frame accumulation (spec.md 8.2): however the transport cuts the        *)
(* stream into reads, Feed has passed to DispatchFrame exactly the server's *)
(* frames that arrived completely, in order, and holds the bytes of the    *)
(* incomplete one in m_buffer -- until a protocol error.                   *)
(***************************************************************************)
FramesDecodedInOrder ==
    overflowAt = <<>> =>
        /\ dispatched = SubSeq(frames, 1, Complete)
        /\ codecBuf = SubSeq(stream, FrameEnd(Complete) + 1, fed)

\* A conversation RFC 1928 and spec.md 6 accept: version 5, NO_AUTH offered,
\* a known address type with its address length.  Whether the command is
\* one the proxy supports is the separate question of CommandIsConnect.
AcceptableMethod(s) == s.ver = 5 /\ \E i \in DOMAIN s.methods : s.methods[i] = 0
AcceptableRequest(s) ==
    \/ s.atyp = 1 /\ Len(s.addr) = 4
    \/ s.atyp = 3 /\ Len(s.addr) \in 1..255
    \/ s.atyp = 4 /\ Len(s.addr) = 16

\* The SOCKS5 bytes CHANNEL_REQUEST frames have delivered to the channel.
RequestBytes ==
    FlattenSeq([i \in DOMAIN dispatched |->
                  IF dispatched[i].header.type = FrameType.ChannelRequest
                  THEN dispatched[i].payload ELSE <<>>])

(***************************************************************************)
(* SOCKS5 parsing is incremental (spec.md 8.4): the channel leaves         *)
(* Requesting exactly when the whole conversation has arrived, whatever    *)
(* the cut into CHANNEL_REQUEST frames and reads; it connects only for a   *)
(* well-formed conversation and to the address and port the client asked  *)
(* for, and it closes without connecting only a malformed one.             *)
(***************************************************************************)
Socks5Incremental ==
    Id \in DOMAIN chans =>
        LET c == chans[Id] IN
        /\ c.state = "Requesting" => RequestBytes # Socks5Bytes(script)
        /\ c.state \in {"Connecting", "Relaying"} =>
              /\ AcceptableMethod(script) /\ AcceptableRequest(script)
              /\ RequestBytes = Socks5Bytes(script)
              /\ c.connect_req = [host |-> [atyp |-> script.atyp, addr |-> script.addr],
                                  port |-> script.port]
        /\ c.state = "Closed" /\ c.connect_req = NoRequest =>
              ~(AcceptableMethod(script) /\ AcceptableRequest(script))

\* A SOCKS5 reply with BND.ADDR 0.0.0.0:0 (spec.md 6).
RfcReply(rep) == <<5, rep, 0, 1, 0, 0, 0, 0, 0, 0>>

\* The complete reply sequences RFC 1928 allows for a conversation.
RfcReplies(s) ==
    IF ~AcceptableMethod(s) THEN {<< <<5, 255>> >>}
    ELSE IF ~AcceptableRequest(s) THEN {<< <<5, 0>>, RfcReply(1) >>}
    ELSE IF s.cmd # CMD_CONNECT THEN {<< <<5, 0>>, RfcReply(7) >>}
    ELSE {<< <<5, 0>>, RfcReply(rep) >> : rep \in {0, 1, 3, 4, 5, 6}}

\* The frames of a byte string made of whole frames, decoded as spec.md 3
\* lays them out.
RECURSIVE WireFrames(_)
WireFrames(w) ==
    IF Len(w) < 8 THEN <<>>
    ELSE LET n == w[5] + 256 * w[6] + 65536 * w[7]
         IN  << [header  |-> [type |-> w[1], flags |-> w[2],
                              channel_id |-> w[3] + 256 * w[4], payload_length |-> n],
                 payload |-> SubSeq(w, 9, 8 + n)] >>
             \o WireFrames(SubSeq(w, 9 + n, Len(w)))

\* What the client sent, as frames.
ClientFrames == WireFrames(toServer)

ReplyPayloads ==
    LET acks == SelectSeq(ClientFrames,
                  LAMBDA f : f.header.type = FrameType.ChannelRequestAck)
    IN  [i \in DOMAIN acks |-> acks[i].payload]

(***************************************************************************)
(* The CHANNEL_REQUEST_ACK payloads form an RFC 1928 reply sequence:       *)
(* always a prefix of one, complete once the channel relays or closes, a  *)
(* success reply exactly when it relays, and a CHANNEL_CLOSE with RST      *)
(* after a failure reply.                                                  *)
(***************************************************************************)
RepliesFollowRfc ==
    Id \in DOMAIN chans =>
        LET c    == chans[Id]
            reps == ReplyPayloads
        IN  /\ \E full \in RfcReplies(script) : IsPrefix(reps, full)
            /\ c.state \in {"Relaying", "Closed"} =>
                  /\ reps \in RfcReplies(script)
                  /\ (c.state = "Relaying") = (Last(reps)[2] = 0)
            /\ c.state = "Closed" =>
                  /\ Last(ClientFrames).header.type = FrameType.ChannelClose
                  /\ Last(ClientFrames).header.flags = FRAME_FLAG_RST

(***************************************************************************)
(* No decrypted record waits for more ciphertext: whenever SslTransport   *)
(* waits on its recv, m_decrypt_buf holds no complete record, so every    *)
(* record that has arrived -- in the handshake's last read or in one recv *)
(* together with others -- has been handed to OnDataReceived.  Otherwise  *)
(* a server waiting for the reply to that record waits forever.           *)
(***************************************************************************)
NoRecordStranded ==
    recv = "pending" => used = 0 \/ CipherLen(Head(recs)) > used

(***************************************************************************)
(* The proxy connects only for CONNECT (spec.md 4.2 and 6, RFC 1928 4):    *)
(* a well-formed request with BIND or UDP ASSOCIATE is answered with reply *)
(* 0x07, command not supported, and its channel never connects.  It is    *)
(* about Channel::ProcessSocks5 acting on ParseConnectRequest's result,    *)
(* which is the same for every CMD.                                        *)
(***************************************************************************)
CommandIsConnect ==
    Id \in DOMAIN chans /\ chans[Id].state \in {"Connecting", "Relaying"} =>
        script.cmd = CMD_CONNECT

(***************************************************************************)
(* Spec.md 4.1 and 7: payload_length above FRAME_MAX_PAYLOAD is a fatal    *)
(* protocol error that terminates the session, so no frame is dispatched   *)
(* after Feed has met one.                                                 *)
(***************************************************************************)
OverflowIsFatal ==
    overflowAt # <<>> => Len(dispatched) = overflowAt[1]

=============================================================================
