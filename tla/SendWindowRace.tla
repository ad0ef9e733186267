---------------------------- MODULE SendWindowRace ----------------------------
(***************************************************************************)
(* Channel::m_send_window is read and written by two threads without a    *)
(* lock: SendToMux (channel.cpp) runs on the target's IOCP worker inside  *)
(* OnTargetData, and OnWindowUpdate runs on the transport's worker inside *)
(* MuxSession::HandleWindowUpdate.  Each `m_send_window -= chunk` and      *)
(* `m_send_window += increment` is a load and a store, so this module     *)
(* gives each its own load step and store step; a data race in C++ has    *)
(* the outcomes of these interleavings.                                   *)
(*                                                                         *)
(* One Relaying channel.  The server returns a WINDOW_UPDATE for every    *)
(* DATA frame it receives, as MuxSession's server does.                    *)
(***************************************************************************)
EXTENDS Naturals, Sequences

CONSTANTS
    Window,       \* m_channel_window_size, the initial m_send_window
    MaxPayload,   \* FRAME_MAX_PAYLOAD, scaled
    MaxRead,      \* largest target read
    MaxReads      \* bound on target reads

VARIABLES
    sendWindow,   \* m_send_window
    tgt,          \* target worker: [pc, reg, left] inside SendToMux
    upd,          \* transport worker: [pc, reg, inc] inside OnWindowUpdate
    toPeer,       \* DATA frame lengths in flight to the server
    toClient,     \* WINDOW_UPDATE increments in flight to the client
    reads,        \* target reads so far
    debited,      \* bytes SendToMux has taken off the window (history)
    credited      \* increments OnWindowUpdate has added (history)

vars == <<sendWindow, tgt, upd, toPeer, toClient, reads, debited, credited>>

MinOf(a, b) == IF a < b THEN a ELSE b

Init ==
    /\ sendWindow = Window
    /\ tgt = [pc |-> "idle", reg |-> 0, left |-> 0]
    /\ upd = [pc |-> "idle", reg |-> 0, inc |-> 0]
    /\ toPeer = <<>>
    /\ toClient = <<>>
    /\ reads = 0
    /\ debited = 0
    /\ credited = 0

\* The target's recv completes with n bytes: OnTargetData calls SendToMux.
OnTargetData ==
    /\ tgt.pc = "idle" /\ reads < MaxReads
    /\ \E n \in 1..MaxRead : tgt' = [tgt EXCEPT !.left = n, !.pc = "load"]
    /\ reads' = reads + 1
    /\ UNCHANGED <<sendWindow, upd, toPeer, toClient, debited, credited>>

\* SendToMux, one loop iteration: the load of m_send_window.
SendToMuxLoad ==
    /\ tgt.pc = "load"
    /\ tgt' = [tgt EXCEPT !.reg = sendWindow, !.pc = "store"]
    /\ UNCHANGED <<sendWindow, upd, toPeer, toClient, reads, debited, credited>>

(***************************************************************************)
(* The rest of the iteration on the loaded value: clamp the chunk while   *)
(* the window is positive, store the decremented window, SendData.        *)
(***************************************************************************)
SendToMuxStore ==
    /\ tgt.pc = "store"
    /\ LET chunk0 == MinOf(tgt.left, MaxPayload)
           chunk  == IF tgt.reg > 0 THEN MinOf(chunk0, tgt.reg) ELSE chunk0
       IN  /\ sendWindow' = IF tgt.reg > 0 THEN tgt.reg - chunk ELSE sendWindow
           /\ debited' = IF tgt.reg > 0 THEN debited + chunk ELSE debited
           /\ toPeer' = Append(toPeer, chunk)
           /\ tgt' = [tgt EXCEPT !.left = @ - chunk,
                                 !.pc = IF tgt.left - chunk > 0 THEN "load" ELSE "idle"]
    /\ UNCHANGED <<upd, toClient, reads, credited>>

\* HandleWindowUpdate takes the next frame; OnWindowUpdate loads the window.
OnWindowUpdateLoad ==
    /\ upd.pc = "idle" /\ toClient # <<>>
    /\ upd' = [pc |-> "store", reg |-> sendWindow, inc |-> Head(toClient)]
    /\ toClient' = Tail(toClient)
    /\ UNCHANGED <<sendWindow, tgt, toPeer, reads, debited, credited>>

\* OnWindowUpdate stores the incremented window.
OnWindowUpdateStore ==
    /\ upd.pc = "store"
    /\ sendWindow' = upd.reg + upd.inc
    /\ credited' = credited + upd.inc
    /\ upd' = [upd EXCEPT !.pc = "idle"]
    /\ UNCHANGED <<tgt, toPeer, toClient, reads, debited>>

\* The server consumes a DATA frame and returns its credit.
PeerConsume ==
    /\ toPeer # <<>>
    /\ toPeer' = Tail(toPeer)
    /\ toClient' = Append(toClient, Head(toPeer))
    /\ UNCHANGED <<sendWindow, tgt, upd, reads, debited, credited>>

Next ==
    \/ OnTargetData \/ SendToMuxLoad \/ SendToMuxStore
    \/ OnWindowUpdateLoad \/ OnWindowUpdateStore
    \/ PeerConsume

Spec == Init /\ [][Next]_vars

(***************************************************************************)
(* No window update is lost: whenever neither worker is inside its         *)
(* read-modify-write, m_send_window is the initial window plus every       *)
(* increment OnWindowUpdate applied minus every chunk SendToMux took.      *)
(***************************************************************************)
NoLostWindowUpdate ==
    tgt.pc \in {"idle", "load"} /\ upd.pc = "idle" =>
        sendWindow = Window + credited - debited

=============================================================================
