----------------------------- MODULE SslTransport -----------------------------
(***************************************************************************)
(* ssh-client's SslTransport (ssl_transport.cpp) after the handshake, as   *)
(* operators over TLS records: the receive side and Send's records.  The  *)
(* server's ciphertext is a stream of records; a record's plaintext is    *)
(* kept and its ciphertext is abstracted to its length, Overhead          *)
(* (cbHeader + cbTrailer) more than the plaintext.                        *)
(* m_decrypt_buf always starts at a record boundary, so it is described by *)
(* the records whose ciphertext starts in it or after it (recs) and by     *)
(* m_decrypt_buf_used (used): the first `used` ciphertext bytes of recs.   *)
(* DecryptMessage decrypts the first record when all of it is buffered     *)
(* and reports SEC_E_INCOMPLETE_MESSAGE otherwise.                         *)
(*                                                                         *)
(* RequestPath composes these operators with MuxSession::OnDataReceived,  *)
(* which SslTransport calls as m_on_data.                                  *)
(***************************************************************************)
EXTENDS Naturals, Sequences

CONSTANTS
    Overhead,            \* cbHeader + cbTrailer of a record, scaled
    RecvBufSize,         \* sizeof(IoContext::inline_buf), scaled
    InitialDecryptBuf,   \* INITIAL_DECRYPT_BUF_SIZE, scaled
    MaxDecryptBuf,       \* MAX_DECRYPT_BUF_SIZE, scaled
    GrowSlack,           \* the 4096 bytes added when the buffer grows, scaled
    MaxMessage           \* cbMaximumMessage of the stream sizes, scaled

\* Record kinds: application data, the server's close_notify (DecryptMessage
\* returns SEC_I_CONTEXT_EXPIRED), and a record that fails to decrypt.
RecordKinds == {"data", "close_notify", "corrupt"}

Record(kind, plain) == [kind |-> kind, plain |-> plain]

CipherLen(r) == Overhead + Len(r.plain)

RECURSIVE CipherTotal(_)
CipherTotal(rs) == IF rs = <<>> THEN 0 ELSE CipherLen(Head(rs)) + CipherTotal(Tail(rs))

(***************************************************************************)
(* OnRecvComplete's append of `bytes` ciphertext bytes: grow m_decrypt_buf *)
(* (of size `size`) when they do not fit, or fail with ProtocolError when *)
(* the grown size would pass MAX_DECRYPT_BUF_SIZE.                         *)
(***************************************************************************)
GrowDecryptBuf(size, used, bytes) ==
    IF used + bytes <= size THEN [ok |-> TRUE, size |-> size]
    ELSE IF used + bytes + GrowSlack > MaxDecryptBuf THEN [ok |-> FALSE, size |-> size]
    ELSE [ok |-> TRUE, size |-> used + bytes + GrowSlack]

Stop(recs, used, out, ss) == [recs |-> recs, used |-> used, out |-> out, ss |-> ss]

\* Mutant: one DecryptMessage per call instead of the loop.
ProcessDecryptBufferOnce(recs, used, out) ==
    IF used = 0 THEN Stop(recs, 0, out, "ok")
    ELSE LET r == Head(recs) IN
         IF CipherLen(r) > used THEN Stop(recs, used, out, "incomplete")
         ELSE IF r.kind = "close_notify" THEN Stop(recs, used, out, "expired")
         ELSE IF r.kind = "corrupt" THEN Stop(recs, used, out, "error")
         ELSE Stop(Tail(recs), used - CipherLen(r),
                   IF Len(r.plain) > 0 THEN Append(out, r.plain) ELSE out, "ok")

(***************************************************************************)
(* ProcessDecryptBuffer: while bytes are buffered, decrypt the first       *)
(* record; stop on an incomplete record; on close_notify or a decrypt      *)
(* error stop with the status OnTransportDisconnected is called for;      *)
(* otherwise hand a non-empty plaintext to m_on_data (collected in `out`, *)
(* in order) and move the extra bytes to the front.                        *)
(***************************************************************************)
RECURSIVE ProcessDecryptBuffer(_, _, _)
ProcessDecryptBuffer(recs, used, out) ==
    IF used = 0 THEN Stop(recs, 0, out, "ok")
    ELSE LET r == Head(recs) IN
         IF CipherLen(r) > used THEN Stop(recs, used, out, "incomplete")
         ELSE IF r.kind = "close_notify" THEN Stop(recs, used, out, "expired")
         ELSE IF r.kind = "corrupt" THEN Stop(recs, used, out, "error")
         ELSE ProcessDecryptBuffer(Tail(recs), used - CipherLen(r),
                  IF Len(r.plain) > 0 THEN Append(out, r.plain) ELSE out)

(***************************************************************************)
(* SslTransport::Send under m_send_cs: the records EncryptMessage builds   *)
(* for data, one per chunk of at most cbMaximumMessage bytes, each written *)
(* whole by SendRaw.  (An EncryptMessage or send() failure ends the loop;  *)
(* the socket has then failed and the recv side reports it.)               *)
(***************************************************************************)
RECURSIVE SendRecords(_)
SendRecords(data) ==
    IF data = <<>> THEN <<>>
    ELSE LET chunk == IF Len(data) < MaxMessage THEN Len(data) ELSE MaxMessage
         IN  <<Record("data", SubSeq(data, 1, chunk))>>
                 \o SendRecords(SubSeq(data, chunk + 1, Len(data)))

\* What the server's TLS stack decrypts from a sequence of records.
RECURSIVE Plaintext(_)
Plaintext(rs) == IF rs = <<>> THEN <<>> ELSE Head(rs).plain \o Plaintext(Tail(rs))

=============================================================================
