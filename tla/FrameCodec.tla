----------------------------- MODULE FrameCodec -----------------------------
(***************************************************************************)
(* The frame codec of ssh-client (mux_protocol.h, mux_protocol.cpp) at     *)
(* byte level.  A byte is a number in 0..255; multi-byte header fields are *)
(* little-endian as the packed FrameHeader is on x86/x64.                  *)
(*                                                                         *)
(* The codec's state is the used part of m_buffer, a byte sequence whose   *)
(* length is m_used.  Feed is a pure operator from that state and the fed  *)
(* bytes to the new state and the frames pushed to out_frames, so a        *)
(* session module can take it as one step of OnDataReceived.               *)
(***************************************************************************)
EXTENDS Naturals, Sequences

CONSTANT MaxPayload     \* FRAME_MAX_PAYLOAD, scaled down from 65536

\* The scaled bound fits the low byte of payload_length, which keeps the
\* header arithmetic within TLC's integers.
ASSUME MaxPayload \in 1..255

\* FRAME_HEADER_SIZE: type(1) flags(1) channel_id(2) payload_length(4).
FRAME_HEADER_SIZE == 8

\* m_buffer.resize(FRAME_HEADER_SIZE + FRAME_MAX_PAYLOAD) in the constructor.
Capacity == FRAME_HEADER_SIZE + MaxPayload

\* The FrameType enumerators.
FrameType == [ChannelOpen |-> 1, ChannelOpenAck |-> 2, ChannelRequest |-> 3,
              ChannelRequestAck |-> 4, Data |-> 5, ChannelClose |-> 6,
              ChannelCloseAck |-> 7, Ping |-> 8, Pong |-> 9, WindowUpdate |-> 10]

\* FRAME_FLAG_FIN and FRAME_FLAG_RST.
FRAME_FLAG_FIN == 1
FRAME_FLAG_RST == 2

\* The w bytes of n, least significant first (a memcpy of a uintN_t).
ToLE(n, w) == [i \in 1..w |-> (n \div (256 ^ (i - 1))) % 256]

\* The number whose little-endian bytes are s.
FromLE(s) ==
    LET v[i \in 0..Len(s)] == IF i = 0 THEN 0 ELSE s[Len(s) - i + 1] + 256 * v[i - 1]
    IN  v[Len(s)]

\* hdr.payload_length > FRAME_MAX_PAYLOAD for the header at the start of b
\* (with MaxPayload < 256: a high byte is set or the low byte exceeds it).
PayloadTooLarge(b) == FromLE(SubSeq(b, 6, 8)) > 0 \/ b[5] > MaxPayload

\* memcpy(&hdr, m_buffer.data(), FRAME_HEADER_SIZE) on a buffer b.
DecodeHeader(b) ==
    [type |-> b[1], flags |-> b[2],
     channel_id |-> FromLE(SubSeq(b, 3, 4)),
     payload_length |-> FromLE(SubSeq(b, 5, 8))]

\* FrameCodec::Encode: the header fields as the packed struct, then the
\* payload.  channel_id is truncated to its C width.
Encode(type, flags, channel_id, payload) ==
    <<type, flags>> \o ToLE(channel_id % 2^16, 2)
        \o ToLE(Len(payload), 4) \o payload

\* The wire bytes of a decoded frame (a Frame record).
EncodeFrame(f) ==
    Encode(f.header.type, f.header.flags, f.header.channel_id, f.payload)

\* The convenience builders used by MuxSession.
BuildChannelOpenAck(id)          == Encode(FrameType.ChannelOpenAck, 0, id, <<>>)
BuildChannelRequestAck(id, data) == Encode(FrameType.ChannelRequestAck, 0, id, data)
BuildChannelClose(id, flags)     == Encode(FrameType.ChannelClose, flags, id, <<>>)
BuildChannelCloseAck(id)         == Encode(FrameType.ChannelCloseAck, 0, id, <<>>)
BuildPong                        == Encode(FrameType.Pong, 0, 0, <<>>)

(***************************************************************************)
(* The inner `while (m_used >= FRAME_HEADER_SIZE)` loop of Feed on buffer  *)
(* b, with out the frames emitted so far.  The result's buf is the new     *)
(* used part of m_buffer; aborted is the `return` after an oversized       *)
(* header, which also sets m_used to 0.                                    *)
(***************************************************************************)
RECURSIVE ParseFrames(_, _)

\* Mutant: the frame's payload is taken up to m_used, not up to total.
ParseFramesRestPayload(b, out) ==
    IF Len(b) < FRAME_HEADER_SIZE
    THEN [buf |-> b, frames |-> out, aborted |-> FALSE]
    ELSE LET total == FRAME_HEADER_SIZE + DecodeHeader(b).payload_length
         IN  IF PayloadTooLarge(b)
             THEN [buf |-> <<>>, frames |-> out, aborted |-> TRUE]
             ELSE IF Len(b) < total
             THEN [buf |-> b, frames |-> out, aborted |-> FALSE]
             ELSE ParseFrames(SubSeq(b, total + 1, Len(b)),
                              Append(out, [header  |-> DecodeHeader(b),
                                           payload |-> SubSeq(b, FRAME_HEADER_SIZE + 1, Len(b))]))

\* Mutant: `if` for the inner `while`, one frame per copy.
ParseOneFrame(b, out) ==
    IF Len(b) < FRAME_HEADER_SIZE
    THEN [buf |-> b, frames |-> out, aborted |-> FALSE]
    ELSE LET total == FRAME_HEADER_SIZE + DecodeHeader(b).payload_length
         IN  IF PayloadTooLarge(b)
             THEN [buf |-> <<>>, frames |-> out, aborted |-> TRUE]
             ELSE IF Len(b) < total
             THEN [buf |-> b, frames |-> out, aborted |-> FALSE]
             ELSE [buf |-> SubSeq(b, total + 1, Len(b)),
                   frames |-> Append(out, [header  |-> DecodeHeader(b),
                                           payload |-> SubSeq(b, FRAME_HEADER_SIZE + 1, total)]),
                   aborted |-> FALSE]

ParseFrames(b, out) ==
    IF Len(b) < FRAME_HEADER_SIZE
    THEN [buf |-> b, frames |-> out, aborted |-> FALSE]
    ELSE LET hdr   == DecodeHeader(b)
             total == FRAME_HEADER_SIZE + hdr.payload_length
         IN  IF PayloadTooLarge(b)
             THEN [buf |-> <<>>, frames |-> out, aborted |-> TRUE]
             ELSE IF Len(b) < total
             THEN [buf |-> b, frames |-> out, aborted |-> FALSE]
             ELSE ParseFrames(SubSeq(b, total + 1, Len(b)),
                              Append(out, [header  |-> hdr,
                                           payload |-> SubSeq(b, FRAME_HEADER_SIZE + 1, total)]))

(***************************************************************************)
(* The outer `while (offset < len)` loop: copy min(avail, space) bytes     *)
(* into the buffer, then parse.  data is the part not yet copied.          *)
(***************************************************************************)
RECURSIVE FeedLoop(_, _, _)

FeedLoop(b, data, out) ==
    IF data = <<>>
    THEN [buf |-> b, frames |-> out, aborted |-> FALSE]
    ELSE LET toCopy == IF Len(data) < Capacity - Len(b)
                       THEN Len(data) ELSE Capacity - Len(b)
             r      == ParseFrames(b \o SubSeq(data, 1, toCopy), out)
         IN  IF r.aborted THEN r
             ELSE FeedLoop(r.buf, SubSeq(data, toCopy + 1, Len(data)), r.frames)

\* FrameCodec::Feed(data, len, out_frames) with out_frames initially empty.
Feed(b, data) == FeedLoop(b, data, <<>>)

=============================================================================
