--------------------------- MODULE ChannelLifecycle ---------------------------
(***************************************************************************)
(* What the channel registry promises (spec.md section 4.4): each channel  *)
(* id is absent from the registry or in one of the states of the table,   *)
(* moves only along the table's transitions, and owns an outbound TCP      *)
(* connection exactly from the parsed CONNECT until it is Closed or        *)
(* removed.  A channel that a CLOSE, a CLOSE_ACK or the session's shutdown *)
(* ends leaves the registry at once, which is "Closed" and removed in one  *)
(* step.  Opening an id that is present replaces its channel               *)
(* (MuxSession::HandleChannelOpen assigns m_channels[id]), so Open is      *)
(* allowed from every state.                                               *)
(***************************************************************************)
CONSTANT Ids

VARIABLES
    st,      \* id -> "Absent" or the channel's state
    owns     \* id -> the channel owns a TcpConnection

vars == <<st, owns>>

Init == /\ st = [i \in Ids |-> "Absent"]
        /\ owns = [i \in Ids |-> FALSE]

Set(id, s, o) == /\ st' = [st EXCEPT ![id] = s]
                 /\ owns' = [owns EXCEPT ![id] = o]

\* CHANNEL_OPEN: a new channel in Requesting, with no target.
Open(id) == Set(id, "Requesting", FALSE)

\* SOCKS5 driving: a rejected method or request closes the channel; a
\* parsed CONNECT starts the outbound connection, whose immediate failure
\* closes it.
Negotiate(id) ==
    /\ st[id] = "Requesting"
    /\ \/ Set(id, "Connecting", TRUE)
       \/ Set(id, "Closed", FALSE)

\* The outbound connect completes.
Connected(id) ==
    /\ st[id] = "Connecting" /\ owns[id]
    /\ \/ Set(id, "Relaying", TRUE)
       \/ Set(id, "Closed", FALSE)

\* The outbound connection disconnects: CHANNEL_CLOSE(FIN), Closing.
TargetDisconnected(id) ==
    /\ st[id] \in {"Relaying", "Connecting"} /\ owns[id]
    /\ Set(id, "Closing", TRUE)

\* CHANNEL_CLOSE or CHANNEL_CLOSE_ACK: the channel is closed and removed.
Remove(id) == Set(id, "Absent", FALSE)

\* Session shutdown or transport loss: every channel is closed and removed.
CloseAll == /\ st' = [i \in Ids |-> "Absent"]
            /\ owns' = [i \in Ids |-> FALSE]

Next == \/ CloseAll
        \/ \E id \in Ids : Open(id) \/ Negotiate(id) \/ Connected(id)
                           \/ TargetDisconnected(id) \/ Remove(id)

Spec == Init /\ [][Next]_vars

=============================================================================
