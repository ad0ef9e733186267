----------------------------- MODULE MCMuxSession -----------------------------
(***************************************************************************)
(* Model-checking instance of MuxSession.  Channels do not share state     *)
(* except through the session (m_running, the transport, CloseAllChannels),*)
(* so one channel id, reopened, covers every per-channel interleaving with *)
(* the session's teardown; the per-run bounds are in the .cfg files.       *)
(***************************************************************************)
EXTENDS MuxSession

CONSTANTS c1

MCIds == {c1}

\* Leaves out the behaviours in which RunSession returns before the recv
\* aborted by SslTransport::Close has completed, so that the completion on
\* the destroyed MuxSession cannot happen and TLC shows a completion on a
\* destroyed TcpConnection instead.
RecvAbortedFirst == ~(main = "exited" /\ trans = "aborting")
================================================================================
