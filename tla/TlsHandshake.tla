----------------------------- MODULE TlsHandshake -----------------------------
(***************************************************************************)
(* ssh-client's SslTransport::Connect and DoHandshake (ssl_transport.cpp): *)
(* the blocking TCP connect, the Schannel client handshake loop over the   *)
(* socket, and the server at the other end.                               *)
(*                                                                         *)
(* The server's bytes are a stream of records: its handshake flights, one *)
(* per client token it has received, then application data.  Bytes are   *)
(* counted, not kept: hs_buf always starts at a record boundary, so it is *)
(* the records from index nxt on, of which rd - base bytes are buffered    *)
(* (hs_used).  InitializeSecurityContext (ISC) on the buffer is Schannel's *)
(* choice among what its contract allows: SEC_E_INCOMPLETE_MESSAGE when    *)
(* the first record is not all there; otherwise it consumes one or more    *)
(* complete records of the current flight, returning SEC_I_CONTINUE_NEEDED *)
(* (with an output token once the flight is complete) or SEC_E_OK after   *)
(* the last flight, and any unconsumed bytes as SECBUFFER_EXTRA; or it    *)
(* fails.                                                                  *)
(***************************************************************************)
EXTENDS Naturals, Sequences, SequencesExt

CONSTANTS
    Flights,       \* record lengths of each server flight, scaled
    AppRecords,    \* record lengths of the application data that follows
    HsBufSize      \* the initial size of hs_buf (16384), scaled

ASSUME /\ Flights \in Seq(Seq(Nat \ {0})) /\ Len(Flights) > 0
       /\ AppRecords \in Seq(Nat \ {0})
       /\ HsBufSize \in Nat \ {0}

\* The server's stream, record by record; flight 0 is application data.
RecList ==
    FlattenSeq([f \in 1..Len(Flights) |->
                   [i \in 1..Len(Flights[f]) |->
                       [len |-> Flights[f][i], flight |-> f,
                        last |-> i = Len(Flights[f])]]])
    \o [i \in 1..Len(AppRecords) |-> [len |-> AppRecords[i], flight |-> 0, last |-> FALSE]]

\* Stream offset of the end of record j.
RECURSIVE End(_)
End(j) == IF j = 0 THEN 0 ELSE End(j - 1) + RecList[j].len

\* Bytes the server has sent after sending `n` flights (and the app data).
FlightsEnd(n) == End(Len(FlattenSeq(SubSeq(Flights, 1, n))))

VARIABLES
    pc,        \* "tcp", "start", "loop", "query", "connected" or "failed"
    tokens,    \* client tokens the server has received (ClientHello is 1)
    flights,   \* server flights sent
    sent,      \* bytes the server has written to the socket
    closed,    \* the server has closed or reset the connection
    rd,        \* bytes the client has received
    nxt,       \* index of the record at the front of hs_buf
    hsSize,    \* hs_buf.size()
    decUsed,   \* m_decrypt_buf_used after the handshake
    connected  \* m_connected

vars == <<pc, tokens, flights, sent, closed, rd, nxt, hsSize, decUsed, connected>>

hsUsed == rd - End(nxt - 1)

Init ==
    /\ pc = "tcp"
    /\ tokens = 0 /\ flights = 0 /\ sent = 0 /\ closed = FALSE
    /\ rd = 0 /\ nxt = 1 /\ hsSize = HsBufSize
    /\ decUsed = 0 /\ connected = FALSE

Failed == pc' = "failed" /\ connected' = FALSE

(***************************************************************************)
(* Connect up to DoHandshake: DNS, the socket, connect() and               *)
(* AcquireCredentialsHandle.  Any of them can fail; the handshake starts   *)
(* on a connected socket.                                                  *)
(***************************************************************************)
ConnectFails ==
    /\ pc = "tcp"
    /\ Failed
    /\ UNCHANGED <<tokens, flights, sent, closed, rd, nxt, hsSize, decUsed>>

TcpConnected ==
    /\ pc = "tcp"
    /\ pc' = "start"
    /\ UNCHANGED <<tokens, flights, sent, closed, rd, nxt, hsSize, decUsed, connected>>

\* DoHandshake's first ISC call, which fails or yields the ClientHello that
\* SendRaw writes.
HandshakeStart ==
    /\ pc = "start"
    /\ \/ Failed /\ UNCHANGED tokens
       \/ pc' = "loop" /\ tokens' = 1 /\ UNCHANGED connected
    /\ UNCHANGED <<flights, sent, closed, rd, nxt, hsSize, decUsed>>

(***************************************************************************)
(* One turn of the handshake loop.  RecvRaw blocks until bytes arrive and  *)
(* reads at most hs_buf.size() - hs_used of them; ISC then runs on the     *)
(* buffer.  Its output token goes out by SendRaw; SECBUFFER_EXTRA moves to *)
(* the front, and without it hs_used is 0 unless the message was           *)
(* incomplete; a full buffer doubles.  SEC_E_OK copies what is left into   *)
(* m_decrypt_buf.                                                          *)
(***************************************************************************)
Grow(used) == IF used >= hsSize THEN hsSize * 2 ELSE hsSize

RoundIncomplete(r) ==
    /\ End(nxt) > r
    /\ hsSize' = Grow(r - End(nxt - 1))
    /\ UNCHANGED <<pc, tokens, nxt, decUsed, connected>>

\* ISC consumes records nxt..k of one flight.
RoundConsume(r, k) ==
    LET extra == r - End(k)
        done  == RecList[k].last /\ RecList[k].flight = Len(Flights)
    IN  /\ nxt' = k + 1
        /\ hsSize' = Grow(extra)
        /\ \/ done /\ pc' = "query" /\ decUsed' = extra /\ UNCHANGED tokens
           \/ ~done /\ RecList[k].last /\ tokens' = tokens + 1
              /\ UNCHANGED <<pc, decUsed>>
           \/ ~done /\ ~RecList[k].last /\ UNCHANGED <<pc, tokens, decUsed>>
        /\ UNCHANGED connected

HandshakeRound ==
    /\ pc = "loop"
    /\ \E n \in 1..(sent - rd) :
          /\ n <= hsSize - hsUsed
          /\ rd' = rd + n
          /\ \/ RoundIncomplete(rd + n)
             \/ \E k \in nxt..Len(RecList) :
                   /\ End(k) <= rd + n
                   /\ \A j \in nxt..(k - 1) : ~RecList[j].last
                   /\ RoundConsume(rd + n, k)
             \/ Failed /\ UNCHANGED <<tokens, nxt, hsSize, decUsed>>
    /\ UNCHANGED <<flights, sent, closed>>

\* RecvRaw returns 0 (SslDisconnected) or an error once the server has
\* closed the connection and everything it sent has been read.
HandshakeRecvClosed ==
    /\ pc = "loop" /\ closed /\ rd = sent
    /\ Failed
    /\ UNCHANGED <<tokens, flights, sent, closed, rd, nxt, hsSize, decUsed>>

\* Connect after DoHandshake: QueryContextAttributes(STREAM_SIZES), which
\* can fail (Close, SslHandshakeFailed), then m_connected = true.
QueryStreamSizes ==
    /\ pc = "query"
    /\ \/ Failed
       \/ pc' = "connected" /\ connected' = TRUE
    /\ UNCHANGED <<tokens, flights, sent, closed, rd, nxt, hsSize, decUsed>>

ClientStep ==
    \/ ConnectFails \/ TcpConnected \/ HandshakeStart
    \/ HandshakeRound \/ HandshakeRecvClosed \/ QueryStreamSizes

(***************************************************************************)
(* The server answers each client token with its next flight and, after    *)
(* its last flight, may send application data (the mux protocol's first    *)
(* frames); it can also close or reset the connection at any time.         *)
(***************************************************************************)
ServerSendFlight ==
    /\ ~closed /\ flights < tokens /\ flights < Len(Flights)
    /\ flights' = flights + 1
    /\ sent' = FlightsEnd(flights + 1)
    /\ UNCHANGED <<pc, tokens, closed, rd, nxt, hsSize, decUsed, connected>>

ServerSendApp ==
    /\ ~closed /\ flights = Len(Flights) /\ sent < End(Len(RecList))
    /\ sent' = End(Len(RecList))
    /\ UNCHANGED <<pc, tokens, flights, closed, rd, nxt, hsSize, decUsed, connected>>

ServerCloses ==
    /\ ~closed
    /\ closed' = TRUE
    /\ UNCHANGED <<pc, tokens, flights, sent, rd, nxt, hsSize, decUsed, connected>>

Next == ClientStep \/ ServerSendFlight \/ ServerSendApp \/ ServerCloses

\* The client thread runs whenever it is not blocked in recv; the server is
\* a TLS peer that answers every token.  Closing is the server's choice.
Spec == Init /\ [][Next]_vars /\ WF_vars(ClientStep) /\ WF_vars(ServerSendFlight)

TypeOK ==
    /\ pc \in {"tcp", "start", "loop", "query", "connected", "failed"}
    /\ tokens \in 0..Len(Flights) /\ flights \in 0..tokens
    /\ rd \in 0..sent /\ sent <= End(Len(RecList))
    /\ nxt \in 1..Len(RecList) + 1 /\ hsUsed \in 0..hsSize
    /\ decUsed \in Nat /\ connected \in BOOLEAN /\ closed \in BOOLEAN

(***************************************************************************)
(* Connect returns: against a server that answers every token and never   *)
(* closes, the handshake loop ends connected or failed.  It is about the  *)
(* loop's RecvRaw at the top of every turn, which blocks even when the    *)
(* SECBUFFER_EXTRA that the last ISC call left holds the rest of the       *)
(* server's flight.                                                        *)
(***************************************************************************)
HandshakeEnds == <>(pc \in {"connected", "failed"})

=============================================================================
