---------------------------- MODULE MCTlsHandshake ----------------------------
(***************************************************************************)
(* A TLS 1.2 full handshake for TlsHandshake: the server's first flight is *)
(* ServerHello, a Certificate larger than the initial hs_buf and          *)
(* ServerHelloDone; its second is ChangeCipherSpec and Finished; then one  *)
(* record of mux frames.                                                   *)
(***************************************************************************)
EXTENDS TlsHandshake

MCFlights == <<<<1, 3, 1>>, <<1, 1>>>>

MCAppRecords == <<2>>

=============================================================================
