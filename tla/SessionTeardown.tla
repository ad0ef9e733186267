---------------------------- MODULE SessionTeardown ----------------------------
(***************************************************************************)
(* Session start and teardown in ssh-client at statement granularity.    *)
(* MuxSession::Start (main thread) sets m_running, calls StartReading,    *)
(* which may already hand the handshake's leftover records to the session *)
(* and posts the first SSL recv, and only then StartKeepaliveTimer.  Two   *)
(* threads can tear the same MuxSession down: the main thread in RunSession*)
(* (main.cpp) calls session.Shutdown() once g_shutdown is set or the      *)
(* disconnect event fires, then transport.Close(); a transport worker     *)
(* calls MuxSession::OnTransportDisconnected when the SSL recv fails,     *)
(* including the recv that transport.Close() aborts.                       *)
(*                                                                         *)
(* m_running is a plain bool and StopKeepaliveTimer tests                 *)
(* m_keepalive_timer, deletes the timer and clears the handle in three    *)
(* statements, so each is its own step.  CloseAllChannels runs under the  *)
(* registry lock and is one step.                                          *)
(***************************************************************************)
EXTENDS Naturals

Threads == {"main", "worker"}

VARIABLES
    running,      \* m_running
    timer,        \* m_keepalive_timer: "armed" (the handle) or "null"
    deletes,      \* DeleteTimerQueueTimer calls on the handle (history)
    pc,           \* where each thread is
    shutdown,     \* g_shutdown
    event,        \* disconnect_event
    transportUp,  \* the SSL recv is still pending
    started       \* MuxSession::Start has returned

vars == <<running, timer, deletes, pc, shutdown, event, transportUp, started>>

\* In MuxSession::Start after `m_running = true;`, before StartReading.
Init ==
    /\ running = TRUE
    /\ timer = "null"
    /\ deletes = 0
    /\ pc = [main |-> "startReading", worker |-> "idle"]
    /\ shutdown = FALSE
    /\ event = FALSE
    /\ transportUp = FALSE
    /\ started = FALSE

Goto(t, l) == pc' = [pc EXCEPT ![t] = l]

(***************************************************************************)
(* SslTransport::StartReading on the main thread.  Either it posts the     *)
(* first recv, or the session is disconnected on this thread before it     *)
(* returns: ProcessDecryptBuffer meets a close_notify or a decrypt error   *)
(* in the handshake's leftover bytes, or WSARecv fails at once; then the   *)
(* main thread itself runs OnTransportDisconnected.                        *)
(***************************************************************************)
StartReading ==
    /\ pc["main"] = "startReading"
    /\ \/ /\ transportUp' = TRUE
          /\ Goto("main", "startTimer")
       \/ /\ Goto("main", "clearRunning")
          /\ UNCHANGED transportUp
    /\ UNCHANGED <<running, timer, deletes, shutdown, event, started>>

\* StartKeepaliveTimer: CreateTimerQueueTimer stores the new handle; then
\* Start returns and RunSession waits.
StartKeepaliveTimer ==
    /\ pc["main"] = "startTimer"
    /\ timer' = "armed"
    /\ started' = TRUE
    /\ Goto("main", "wait")
    /\ UNCHANGED <<running, deletes, shutdown, event, transportUp>>

\* ConsoleCtrlHandler sets g_shutdown.
ConsoleCtrlHandler ==
    /\ ~shutdown
    /\ shutdown' = TRUE
    /\ UNCHANGED <<running, timer, deletes, pc, event, transportUp, started>>

\* The pending SSL recv fails: the worker enters OnTransportDisconnected.
TransportFail ==
    /\ transportUp /\ pc["worker"] = "idle"
    /\ transportUp' = FALSE
    /\ Goto("worker", "clearRunning")
    /\ UNCHANGED <<running, timer, deletes, shutdown, event, started>>

\* RunSession's wait loop ends on g_shutdown or the disconnect event.
RunSessionWake ==
    /\ pc["main"] = "wait" /\ (shutdown \/ event)
    /\ Goto("main", "checkRunning")
    /\ UNCHANGED <<running, timer, deletes, shutdown, event, transportUp, started>>

\* Shutdown: `if (!m_running) return;`
ShutdownCheck ==
    /\ pc["main"] = "checkRunning"
    /\ Goto("main", IF running THEN "clearRunning" ELSE "closeTransport")
    /\ UNCHANGED <<running, timer, deletes, shutdown, event, transportUp, started>>

\* `m_running = false;` in Shutdown (main) or OnTransportDisconnected (worker).
ClearRunning(t) ==
    /\ pc[t] = "clearRunning"
    /\ running' = FALSE
    /\ Goto(t, "stopTest")
    /\ UNCHANGED <<timer, deletes, shutdown, event, transportUp, started>>

\* StopKeepaliveTimer: `if (m_keepalive_timer)`.
StopTimerTest(t) ==
    /\ pc[t] = "stopTest"
    /\ Goto(t, IF timer = "armed" THEN "stopDelete" ELSE "closeAll")
    /\ UNCHANGED <<running, timer, deletes, shutdown, event, transportUp, started>>

\* DeleteTimerQueueTimer(nullptr, m_keepalive_timer, INVALID_HANDLE_VALUE).
StopTimerDelete(t) ==
    /\ pc[t] = "stopDelete"
    /\ deletes' = deletes + 1
    /\ Goto(t, "stopReset")
    /\ UNCHANGED <<running, timer, shutdown, event, transportUp, started>>

\* `m_keepalive_timer = nullptr;`
StopTimerReset(t) ==
    /\ pc[t] = "stopReset"
    /\ timer' = "null"
    /\ Goto(t, "closeAll")
    /\ UNCHANGED <<running, deletes, shutdown, event, transportUp, started>>

(***************************************************************************)
(* CloseAllChannels, then the rest of Shutdown or OnTransportDisconnected. *)
(* OnTransportDisconnected (on the worker, or on the main thread inside    *)
(* StartReading) calls m_on_disconnect, which sets the disconnect event;  *)
(* on the main thread Start then goes on to StartKeepaliveTimer.  Shutdown *)
(* returns to RunSession, which closes the transport.                     *)
(***************************************************************************)
CloseAllChannels(t) ==
    /\ pc[t] = "closeAll"
    /\ Goto(t, CASE t = "worker" -> "idle"
                 [] ~started      -> "startTimer"
                 [] OTHER         -> "closeTransport")
    /\ event' = (event \/ t = "worker" \/ ~started)
    /\ UNCHANGED <<running, timer, deletes, shutdown, transportUp, started>>

\* transport.Close(): the pending recv is aborted and completes with an
\* error on a worker; then RunSession returns.
RunSessionClose ==
    /\ pc["main"] = "closeTransport"
    /\ transportUp' = FALSE
    /\ pc' = [pc EXCEPT !["main"] = "done",
                        !["worker"] = IF transportUp /\ pc["worker"] = "idle"
                                      THEN "clearRunning" ELSE pc["worker"]]
    /\ UNCHANGED <<running, timer, deletes, shutdown, event, started>>

Next ==
    \/ StartReading \/ StartKeepaliveTimer
    \/ ConsoleCtrlHandler \/ TransportFail \/ RunSessionWake \/ ShutdownCheck
    \/ RunSessionClose
    \/ \E t \in Threads :
          ClearRunning(t) \/ StopTimerTest(t) \/ StopTimerDelete(t)
          \/ StopTimerReset(t) \/ CloseAllChannels(t)

Spec == Init /\ [][Next]_vars

(***************************************************************************)
(* The keepalive timer is stopped exactly once.  StopKeepaliveTimer,       *)
(* called from Shutdown on the main thread and from                        *)
(* OnTransportDisconnected on a worker, never passes the handle to         *)
(* DeleteTimerQueueTimer twice; and once RunSession has returned and no    *)
(* worker is still tearing the session down, no timer is left armed to     *)
(* call KeepaliveTimerCallback on the destroyed MuxSession.                *)
(***************************************************************************)
TimerStoppedOnce ==
    /\ deletes <= 1
    /\ pc["main"] = "done" /\ pc["worker"] = "idle" => timer = "null"

\* Restricts the behaviours to those in which the transport fails only
\* after Start has returned, so the timer is armed before any teardown.
FailsAfterStart ==
    started \/ (pc["worker"] = "idle" /\ pc["main"] \in {"startReading", "startTimer"})

=============================================================================
