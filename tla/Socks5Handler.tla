---------------------------- MODULE Socks5Handler ----------------------------
(***************************************************************************)
(* The SOCKS5 parsers and reply builders of ssh-proxy-lib                  *)
(* (socks5_handler.h, socks5_handler.cpp), used by ssh-client's Channel.   *)
(* They are pure functions over a byte sequence d (data[0..len) in C,      *)
(* d[1..Len(d)] here) and return the int result with the out-parameter.    *)
(*                                                                         *)
(* The host string is abstracted: sprintf's dotted or hex rendering of an  *)
(* IP address and the domain's characters are a bijection of the address  *)
(* bytes, so the parsed host is the pair of the address type and those    *)
(* bytes.                                                                  *)
(***************************************************************************)
EXTENDS Integers, Sequences

\* Constants of socks5_handler.h.
VERSION            == 5
AUTH_NONE          == 0
AUTH_NO_ACCEPTABLE == 255
CMD_CONNECT        == 1
ATYP_IPV4          == 1
ATYP_DOMAIN        == 3
ATYP_IPV6          == 4
REP_SUCCESS             == 0
REP_GENERAL_FAILURE     == 1
REP_NETWORK_UNREACHABLE == 3
REP_HOST_UNREACHABLE    == 4
REP_CONNECTION_REFUSED  == 5
REP_TTL_EXPIRED         == 6
REP_ADDRESS_TYPE_NOT_SUPPORTED == 8

\* ParseMethodRequest(data, len, supports_no_auth).
ParseMethodRequest(d) ==
    LET nmethods == d[2]
        total    == 2 + nmethods
    IN  IF Len(d) < 2       THEN [consumed |-> 0, supports_no_auth |-> FALSE]
        ELSE IF d[1] # VERSION THEN [consumed |-> -1, supports_no_auth |-> FALSE]
        ELSE IF Len(d) < total THEN [consumed |-> 0, supports_no_auth |-> FALSE]
        ELSE [consumed |-> total,
              supports_no_auth |-> \E i \in 0..(nmethods - 1) : d[3 + i] = AUTH_NONE]

\* BuildMethodResponse(method).
BuildMethodResponse(method) == <<VERSION, method>>

\* The length of DST.ADDR for each supported ATYP (the switch in
\* ParseConnectRequest); a domain's length byte is d[5].
AddrLen(d) ==
    CASE d[4] = ATYP_IPV4   -> 4
      [] d[4] = ATYP_DOMAIN -> 1 + d[5]
      [] d[4] = ATYP_IPV6   -> 16

(***************************************************************************)
(* ParseConnectRequest(data, len, out).  req is out: the address type, the *)
(* host (see above) and the big-endian port.  CMD is read and, as in the   *)
(* code, not reported: a request whose CMD is not CONNECT returns the same *)
(* result as a CONNECT.                                                    *)
(***************************************************************************)
ParseConnectRequest(d) ==
    LET atyp  == d[4]
        total == 4 + AddrLen(d) + 2
        host  == IF atyp = ATYP_DOMAIN
                 THEN [atyp |-> atyp, addr |-> SubSeq(d, 6, 5 + d[5])]
                 ELSE [atyp |-> atyp, addr |-> SubSeq(d, 5, 4 + AddrLen(d))]
        port  == 256 * d[total - 1] + d[total]
    IN  IF Len(d) < 4                         THEN [consumed |-> 0]
        ELSE IF d[1] # VERSION                 THEN [consumed |-> -1]
        ELSE IF atyp = ATYP_DOMAIN /\ Len(d) < 5 THEN [consumed |-> 0]
        ELSE IF atyp \notin {ATYP_IPV4, ATYP_DOMAIN, ATYP_IPV6} THEN [consumed |-> -1]
        ELSE IF Len(d) < total                 THEN [consumed |-> 0]
        ELSE [consumed |-> total, host |-> host, port |-> port]

\* BuildConnectReply(reply_code) with its default arguments: IPv4 0.0.0.0:0.
BuildConnectReply(reply_code) ==
    <<VERSION, reply_code, 0, ATYP_IPV4, 0, 0, 0, 0, 0, 0>>

\* ErrorCodeToSocks5Reply(ec), over the ErrorCode names the channel can see.
ErrorCodeToSocks5Reply(ec) ==
    CASE ec = "Success"            -> REP_SUCCESS
      [] ec = "NetworkUnreachable" -> REP_NETWORK_UNREACHABLE
      [] ec = "HostUnreachable"    -> REP_HOST_UNREACHABLE
      [] ec = "ConnectionRefused"  -> REP_CONNECTION_REFUSED
      [] ec = "ConnectionTimeout"  -> REP_TTL_EXPIRED
      [] OTHER                     -> REP_GENERAL_FAILURE

(***************************************************************************)
(* The client's side, for the modules that drive these parsers: the RFC    *)
(* 1928 bytes of a script [ver, methods, cmd, atyp, addr, port], its       *)
(* method request followed by its CONNECT request.                         *)
(***************************************************************************)
MethodRequestBytes(s) == <<s.ver, Len(s.methods)>> \o s.methods

ConnectRequestBytes(s) ==
    <<s.ver, s.cmd, 0, s.atyp>>
        \o (IF s.atyp = ATYP_DOMAIN THEN <<Len(s.addr)>> ELSE <<>>) \o s.addr
        \o <<s.port \div 256, s.port % 256>>

Socks5Bytes(s) == MethodRequestBytes(s) \o ConnectRequestBytes(s)

=============================================================================
