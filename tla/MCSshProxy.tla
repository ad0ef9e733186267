------------------------------ MODULE MCSshProxy ------------------------------
(***************************************************************************)
(* Model-checking instance of SshProxy, with the SOCKS5 clients of         *)
(* MCSocks5Session.                                                        *)
(***************************************************************************)
EXTENDS SshProxy, MCSocks5Session

\* TLC's shortest trace against NoUseAfterFree is the channel freed under
\* StartRelay's Read.  With this CONSTRAINT added to
\* MCSshProxy_NoUseAfterFree.cfg, the relay is never inside a libssh2 call
\* and TLC shows the Ctrl-C handler's Cancel on a destroyed Connect.
AtomicRead == relay # "reading"

\* With this CONSTRAINT instead, TLC also leaves the Ctrl-C race aside and
\* shows the libssh2 session freed under an open channel.
WithoutCtrlC == AtomicRead /\ handler = "idle"
=============================================================================
