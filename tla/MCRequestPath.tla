--------------------------- MODULE MCRequestPath ---------------------------
(***************************************************************************)
(* RequestPath for TLC.  The scripts cover each outcome of the parsers:    *)
(* the three address types, NO_AUTH offered first or later, NO_AUTH       *)
(* missing, a bad version and an unknown address type.  MCOtherCommands    *)
(* holds well-formed requests for commands other than CONNECT.             *)
(***************************************************************************)
EXTENDS RequestPath

Request(ver, methods, cmd, atyp, addr, port) ==
    [ver |-> ver, methods |-> methods, cmd |-> cmd, atyp |-> atyp,
     addr |-> addr, port |-> port]

Socks(ver, methods, atyp, addr, port) ==
    Request(ver, methods, CMD_CONNECT, atyp, addr, port)

MCScripts ==
    { Socks(5, <<0>>,    1, <<10, 0, 0, 1>>, 8080),
      Socks(5, <<2, 0>>, 3, <<120>>, 80),
      Socks(5, <<0>>,    4, [i \in 1..16 |-> IF i = 16 THEN 1 ELSE 0], 443),
      Socks(5, <<2>>,    1, <<10, 0, 0, 1>>, 80),
      Socks(4, <<0>>,    1, <<10, 0, 0, 1>>, 80),
      Socks(5, <<0>>,    9, <<>>, 80) }

\* A client asking for BIND (2) and one asking for UDP ASSOCIATE (3).
MCOtherCommands ==
    { Request(5, <<0>>, 2, 1, <<10, 0, 0, 1>>, 80),
      Request(5, <<0>>, 3, 1, <<10, 0, 0, 1>>, 53) }
=============================================================================
