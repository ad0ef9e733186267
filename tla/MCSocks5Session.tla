---------------------------- MODULE MCSocks5Session ----------------------------
(***************************************************************************)
(* Model-checking instance of Socks5Session: three clients, one whose      *)
(* handshake succeeds, one that offers no acceptable method and one whose  *)
(* CONNECT has an unknown address type.                                    *)
(***************************************************************************)
EXTENDS Socks5Session

Socks(methods, atyp, addr, port) ==
    [ver |-> VERSION, methods |-> methods, cmd |-> CMD_CONNECT, atyp |-> atyp,
     addr |-> addr, port |-> port]

MCScripts ==
    { Socks(<<AUTH_NONE>>, ATYP_IPV4, <<10, 0, 0, 1>>, 8080),
      Socks(<<2>>, ATYP_IPV4, <<10, 0, 0, 1>>, 8080),
      Socks(<<AUTH_NONE>>, 9, <<10, 0, 0, 1>>, 8080) }
================================================================================
