------------------------- MODULE MoonrakerConnection -------------------------
(***************************************************************************)
(* The connection lifecycle of MoonrakerClient.  The main thread calls      *)
(* connect(), disconnect() and force_reconnect() and destroys the client;   *)
(* libhv's event-loop thread opens and closes sockets, redials, and enters  *)
(* the client through the onopen/onclose trampolines and the health timer.  *)
(* A trampoline holds callback_lifecycle_mutex_ shared; disconnect() and    *)
(* the destructor take it exclusively to wait for a running one, and let it *)
(* go at once.  on_ws_close() reads connection_state_ and the suppression   *)
(* window first and writes the new state last, so what it writes may be     *)
(* stale.  What the state is for: ready_to_send() lets a request out only   *)
(* in CONNECTED.  Pending requests are RequestTracker's.                    *)
(***************************************************************************)
EXTENDS Naturals

CONSTANTS MaxSockets,  \* bound: sockets dialled
          MaxWindows   \* bound: suppression windows opened by other code

ASSUME BoundsAssumption == MaxSockets \in Nat /\ MaxWindows \in Nat

ConnectionStates == {"DISCONNECTED", "CONNECTING", "CONNECTED", "RECONNECTING", "FAILED"}
MainSteps == {"idle", "drain", "close", "reset", "connect", "dial",
              "destroying", "guard_reset", "destroyed"}
LoopSteps == {"idle", "open_entry", "close_entry", "tick_entry",
              "opening", "opened", "closing", "ticking"}

VARIABLES
    connection_state_,
    was_connected_,
    health_timer,             \* health_timer_id_ # 0
    initial_failure_notified_,
    suppressed,               \* now < suppress_disconnect_modal_until_
    is_destroying_,
    destruction_guard_,       \* the shared_ptr has not been reset
    main,                     \* where the main thread is
    then_connect,             \* the disconnect() is force_reconnect()'s
    loop,                     \* where the event-loop thread is
    saw,                      \* on_ws_close()'s locals: the state and suppressed it read
    \* libhv.
    auto_reconnect,           \* a reconn_setting_t is installed
    socket,                   \* the client's current socket
    closes,                   \* closed sockets whose onclose has not been dispatched
    sockets,                  \* sockets dialled so far
    windows,                  \* windows opened by other code so far
    \* History, read by no action.
    muffled,                  \* a close of the last session skipped its state change
    overran,                  \* a disconnect() went on with a callback still running, or its
                              \* window ended before the close it announced was handled
    lost_close                \* an onclose was turned away from a client that lives on

client == <<connection_state_, was_connected_, health_timer, initial_failure_notified_>>
lifetime == <<is_destroying_, destruction_guard_>>
libhv == <<auto_reconnect, socket, closes, sockets>>
mainpc == <<main, then_connect>>
looppc == <<loop, saw>>
window == <<suppressed, windows>>
history == <<muffled, overran, lost_close>>
vars == <<client, lifetime, libhv, mainpc, looppc, window, history>>

TypeOK ==
    /\ connection_state_ \in ConnectionStates
    /\ was_connected_ \in BOOLEAN
    /\ health_timer \in BOOLEAN
    /\ initial_failure_notified_ \in BOOLEAN
    /\ suppressed \in BOOLEAN
    /\ is_destroying_ \in BOOLEAN
    /\ destruction_guard_ \in BOOLEAN
    /\ main \in MainSteps
    /\ then_connect \in BOOLEAN
    /\ loop \in LoopSteps
    /\ saw \in [state : ConnectionStates, suppressed : BOOLEAN]
    /\ auto_reconnect \in BOOLEAN
    /\ socket \in {"none", "dialing", "open"}
    /\ closes \in 0..MaxSockets
    /\ sockets \in 0..MaxSockets
    /\ windows \in 0..MaxWindows
    /\ muffled \in BOOLEAN
    /\ overran \in BOOLEAN
    /\ lost_close \in BOOLEAN

Init ==
    /\ connection_state_ = "DISCONNECTED"
    /\ was_connected_ = FALSE
    /\ health_timer = FALSE
    /\ initial_failure_notified_ = FALSE
    /\ suppressed = FALSE
    /\ is_destroying_ = FALSE
    /\ destruction_guard_ = TRUE
    /\ main = "idle"
    /\ then_connect = FALSE
    /\ loop = "idle"
    /\ saw = [state |-> "DISCONNECTED", suppressed |-> FALSE]
    /\ auto_reconnect = FALSE
    /\ socket = "none"
    /\ closes = 0
    /\ sockets = 0
    /\ windows = 0
    /\ muffled = FALSE
    /\ overran = FALSE
    /\ lost_close = FALSE

\* The event loop holds callback_lifecycle_mutex_ shared.
HoldsShared == loop \in {"opening", "opened", "closing", "ticking"}

\* close(): the current socket, if any, is closed and its onclose will follow.
CloseSocket ==
    /\ socket' = "none"
    /\ closes' = IF socket = "none" THEN closes ELSE closes + 1

-----------------------------------------------------------------------------
(* The main thread.                                                        *)

\* disconnect() begins: a suppression window for the close it will cause, and
\* no automatic redial.  force_reconnect() continues with connect().
BeginDisconnect(reconnect) ==
    /\ main = "idle"
    /\ main' = "drain"
    /\ then_connect' = reconnect
    /\ suppressed' = TRUE
    /\ auto_reconnect' = FALSE
    /\ UNCHANGED <<client, lifetime, socket, closes, sockets, looppc, windows, history>>

\* drain_shared_holders() got the mutex for a moment.
DrainCallbacks ==
    /\ main = "drain"
    /\ ~HoldsShared
    /\ main' = "close"
    /\ UNCHANGED <<client, lifetime, libhv, then_connect, looppc, window, history>>

\* It gave up after kCallbackDrainTimeout; disconnect() proceeds anyway.
DrainTimesOut ==
    /\ main = "drain"
    /\ HoldsShared
    /\ main' = "close"
    /\ overran' = TRUE
    /\ UNCHANGED <<client, lifetime, libhv, then_connect, looppc, window, muffled, lost_close>>

\* stop_health_timer(); close().
CloseConnection ==
    /\ main = "close"
    /\ main' = "reset"
    /\ health_timer' = FALSE
    /\ CloseSocket
    /\ UNCHANGED <<connection_state_, was_connected_, initial_failure_notified_, lifetime,
                   auto_reconnect, sockets, then_connect, looppc, window, history>>

\* The requests are failed, discovery is reset, the state is DISCONNECTED.
FinishDisconnect ==
    /\ main = "reset"
    /\ connection_state_' = "DISCONNECTED"
    /\ main' = IF then_connect THEN "connect" ELSE "idle"
    /\ UNCHANGED <<was_connected_, health_timer, initial_failure_notified_, lifetime, libhv,
                   then_connect, looppc, window, history>>

\* connect() itself, or force_reconnect()'s second half: close what is left of
\* an earlier attempt and announce the new one.
BeginConnect ==
    /\ main \in {"idle", "connect"}
    /\ sockets < MaxSockets
    /\ main' = "dial"
    /\ CloseSocket
    /\ connection_state_' = "CONNECTING"
    /\ initial_failure_notified_' = FALSE
    /\ UNCHANGED <<was_connected_, health_timer, lifetime, auto_reconnect, sockets,
                   then_connect, looppc, window, history>>

\* apply_reconnect_settings(); open().  libhv may have redialled since close().
Dial ==
    /\ main = "dial"
    /\ sockets < MaxSockets
    /\ main' = "idle"
    /\ auto_reconnect' = TRUE
    /\ socket' = "dialing"
    /\ closes' = IF socket = "none" THEN closes ELSE closes + 1
    /\ sockets' = sockets + 1
    /\ UNCHANGED <<client, lifetime, then_connect, looppc, window, history>>

\* set_auto_reconnect(), which the setup wizard turns off after connect().
DisableAutoReconnect ==
    /\ main = "idle"
    /\ auto_reconnect
    /\ auto_reconnect' = FALSE
    /\ UNCHANGED <<client, lifetime, socket, closes, sockets, mainpc, looppc, window, history>>

\* begin_expected_klippy_restart() and the input-shaper wizard open a window of
\* their own, for a restart of Klipper.
SuppressElsewhere ==
    /\ windows < MaxWindows
    /\ ~is_destroying_
    /\ windows' = windows + 1
    /\ suppressed' = TRUE
    /\ UNCHANGED <<client, lifetime, libhv, mainpc, looppc, history>>

\* A close that on_ws_close() is still to read the window for.
CloseOutstanding == closes > 0 \/ loop \in {"close_entry", "closing"}

\* disconnect() counts on its 2 s to outlast the close it causes.
WindowExpires ==
    /\ suppressed
    /\ suppressed' = FALSE
    /\ overran' = (overran \/ CloseOutstanding \/ main # "idle")
    /\ UNCHANGED <<client, lifetime, libhv, mainpc, looppc, windows, muffled, lost_close>>

\* ~MoonrakerClient(): refuse callbacks, kill the timer ...
BeginDestroy ==
    /\ main = "idle"
    /\ main' = "destroying"
    /\ is_destroying_' = TRUE
    /\ health_timer' = FALSE
    /\ UNCHANGED <<connection_state_, was_connected_, initial_failure_notified_,
                   destruction_guard_, libhv, then_connect, looppc, window, history>>

\* Mutant: does not wait for the callback that is running.
BugDestroyWithoutWaiting ==
    /\ main = "destroying"
    /\ main' = "guard_reset"
    /\ destruction_guard_' = FALSE
    /\ UNCHANGED <<client, is_destroying_, libhv, then_connect, looppc, window, history>>

\* ... wait, without a bound, for a running callback, and reset the guard ...
AwaitCallbacks ==
    /\ main = "destroying"
    /\ ~HoldsShared
    /\ main' = "guard_reset"
    /\ destruction_guard_' = FALSE
    /\ UNCHANGED <<client, is_destroying_, libhv, then_connect, looppc, window, history>>

\* ... and the members go, before libhv's own destructor stops the loop.
DestroyMembers ==
    /\ main = "guard_reset"
    /\ main' = "destroyed"
    /\ auto_reconnect' = FALSE
    /\ UNCHANGED <<client, lifetime, socket, closes, sockets, then_connect, looppc, window, history>>

-----------------------------------------------------------------------------
(* The event loop: sockets.                                                *)

\* The connection attempt fails, or the peer or the network drops the socket.
SocketDrops ==
    /\ socket # "none"
    /\ CloseSocket
    /\ UNCHANGED <<client, lifetime, auto_reconnect, sockets, mainpc, looppc, window, history>>

\* libhv redials once the close has been dispatched.
Redial ==
    /\ auto_reconnect
    /\ socket = "none"
    /\ closes = 0
    /\ loop = "idle"
    /\ sockets < MaxSockets
    /\ socket' = "dialing"
    /\ sockets' = sockets + 1
    /\ UNCHANGED <<client, lifetime, auto_reconnect, closes, mainpc, looppc, window, history>>

-----------------------------------------------------------------------------
(* The event loop: trampolines.  An entry has passed dg.lock() and goes on *)
(* to touch the client.                                                    *)

\* onopen: the upgrade succeeded.  Events of the closed sockets come first.
OnOpen ==
    /\ loop = "idle"
    /\ closes = 0
    /\ socket = "dialing"
    /\ socket' = "open"
    /\ loop' = IF destruction_guard_ THEN "open_entry" ELSE "idle"
    /\ UNCHANGED <<client, lifetime, auto_reconnect, closes, sockets, mainpc, saw, window, history>>

OnClose ==
    /\ loop = "idle"
    /\ closes > 0
    /\ closes' = closes - 1
    /\ loop' = IF destruction_guard_ THEN "close_entry" ELSE "idle"
    /\ UNCHANGED <<client, lifetime, auto_reconnect, socket, sockets, mainpc, saw, window, history>>

OnTick ==
    /\ loop = "idle"
    /\ health_timer
    /\ loop' = "tick_entry"
    /\ UNCHANGED <<client, lifetime, libhv, mainpc, saw, window, history>>

\* try_to_lock fails while the main thread has the mutex for its drain, and
\* is_destroying_ turns the callback away: the event is lost.
TurnAway ==
    /\ loop \in {"open_entry", "close_entry", "tick_entry"}
    /\ is_destroying_ \/ main = "drain"
    /\ loop' = "idle"
    /\ lost_close' = (lost_close \/ (loop = "close_entry" /\ ~is_destroying_))
    /\ UNCHANGED <<client, lifetime, libhv, mainpc, saw, window, muffled, overran>>

Enter ==
    /\ loop \in {"open_entry", "close_entry", "tick_entry"}
    /\ ~is_destroying_
    /\ \/ loop = "open_entry" /\ loop' = "opening" /\ UNCHANGED saw
       \/ loop = "tick_entry" /\ loop' = "ticking"
            /\ saw' = [saw EXCEPT !.state = connection_state_]
       \/ loop = "close_entry" /\ loop' = "closing"
            /\ saw' = [state |-> connection_state_, suppressed |-> suppressed]
    /\ UNCHANGED <<client, lifetime, libhv, mainpc, window, history>>

\* on_ws_open(): the session is up ...
OnWsOpen ==
    /\ loop = "opening"
    /\ was_connected_' = TRUE
    /\ connection_state_' = "CONNECTED"
    /\ muffled' = FALSE
    /\ loop' = "opened"
    /\ UNCHANGED <<health_timer, initial_failure_notified_, lifetime, libhv, mainpc, saw, window,
                   overran, lost_close>>

\* ... the health timer runs from here on, and the initial-failure latch is set.
OnWsOpened ==
    /\ loop = "opened"
    /\ health_timer' = TRUE
    /\ initial_failure_notified_' = TRUE
    /\ loop' = "idle"
    /\ UNCHANGED <<connection_state_, was_connected_, lifetime, libhv, mainpc, saw, window, history>>

\* Mutant: a lost session keeps the state.
BugOnSessionLostKeepsState ==
    /\ loop = "closing"
    /\ was_connected_
    /\ was_connected_' = FALSE
    /\ loop' = "idle"
    /\ UNCHANGED <<connection_state_, health_timer, initial_failure_notified_, lifetime, libhv,
                   mainpc, saw, window, history>>

\* on_ws_close() of a session that had come up.  The state follows only when the
\* close was not suppressed when the callback began.
OnSessionLost ==
    /\ loop = "closing"
    /\ was_connected_
    /\ was_connected_' = FALSE
    /\ connection_state_' = IF saw.suppressed \/ saw.state = "FAILED"
                            THEN connection_state_ ELSE "RECONNECTING"
    /\ muffled' = (muffled \/ saw.suppressed)
    /\ loop' = "idle"
    /\ UNCHANGED <<health_timer, initial_failure_notified_, lifetime, libhv, mainpc, saw, window,
                   overran, lost_close>>

\* on_ws_close() of an attempt that never opened: CONNECTING gives up its name,
\* and past initial_connect_failure_ms_ the user is told once.
OnAttemptFailed ==
    /\ loop = "closing"
    /\ ~was_connected_
    /\ \/ /\ connection_state_' = IF saw.state = "CONNECTING" THEN "DISCONNECTED"
                                                              ELSE connection_state_
          /\ UNCHANGED initial_failure_notified_
       \/ /\ ~initial_failure_notified_
          /\ initial_failure_notified_' = TRUE
          /\ connection_state_' = "FAILED"
    /\ loop' = "idle"
    /\ UNCHANGED <<was_connected_, health_timer, lifetime, libhv, mainpc, saw, window, history>>

\* Mutant: reports the stall without leaving RECONNECTING.
BugGiveUpReconnectInNameOnly ==
    /\ loop = "ticking"
    /\ saw.state = "RECONNECTING"
    /\ loop' = "idle"
    /\ UNCHANGED <<client, lifetime, libhv, mainpc, saw, window, history>>

\* on_health_tick(): a reconnection that began more than kMaxReconnectStallMs
\* ago is given up.
GiveUpReconnect ==
    /\ loop = "ticking"
    /\ saw.state = "RECONNECTING"
    /\ connection_state_' = "FAILED"
    /\ loop' = "idle"
    /\ UNCHANGED <<was_connected_, health_timer, initial_failure_notified_, lifetime, libhv,
                   mainpc, saw, window, history>>

KeepWaiting ==
    /\ loop = "ticking"
    /\ loop' = "idle"
    /\ UNCHANGED <<client, lifetime, libhv, mainpc, saw, window, history>>

\* An oversized message makes the loop thread itself disconnect(), queued so
\* that no trampoline is active; the close is dispatched inside.
OversizedMessage ==
    /\ loop = "idle"
    /\ main = "idle"
    /\ socket = "open"
    /\ closes = 0
    /\ ~is_destroying_
    /\ suppressed' = TRUE
    /\ auto_reconnect' = FALSE
    /\ socket' = "none"
    /\ health_timer' = FALSE
    /\ was_connected_' = FALSE
    /\ connection_state_' = "DISCONNECTED"
    /\ muffled' = TRUE
    /\ UNCHANGED <<initial_failure_notified_, lifetime, closes, sockets, mainpc, looppc, windows,
                   overran, lost_close>>

-----------------------------------------------------------------------------
Main ==
    \/ \E reconnect \in BOOLEAN : BeginDisconnect(reconnect)
    \/ DrainCallbacks \/ DrainTimesOut \/ CloseConnection \/ FinishDisconnect
    \/ BeginConnect \/ Dial \/ DisableAutoReconnect
    \/ BeginDestroy \/ AwaitCallbacks \/ DestroyMembers

Callback ==
    \/ TurnAway \/ Enter
    \/ OnWsOpen \/ OnWsOpened
    \/ OnSessionLost \/ OnAttemptFailed
    \/ GiveUpReconnect \/ KeepWaiting

Loop == SocketDrops \/ Redial \/ OnOpen \/ OnClose \/ OnTick \/ Callback \/ OversizedMessage

Next == Main \/ Loop \/ SuppressElsewhere \/ WindowExpires

Spec == Init /\ [][Next]_vars

\* The loop dispatches what happened and finishes what it began; the health
\* timer keeps ticking, and a tick that finds the reconnection stalled comes
\* after at most kMaxReconnectStallMs.
FairSpec ==
    /\ Spec
    /\ WF_vars(OnClose) /\ WF_vars(Callback)
    /\ SF_vars(OnTick) /\ SF_vars(GiveUpReconnect)
    /\ WF_vars(DrainCallbacks) /\ WF_vars(CloseConnection) /\ WF_vars(FinishDisconnect)

-----------------------------------------------------------------------------
(* Properties.                                                             *)

\* CONNECTED means there is an open socket, a close of it still to be handled,
\* or a close the client was told to keep quiet about: no other order of opens,
\* closes, redials, disconnects and connects leaves a dead session behind.
NoDeadSession ==
    connection_state_ = "CONNECTED" /\ main = "idle" =>
        socket = "open" \/ CloseOutstanding \/ muffled

\* RECONNECTING always has a health timer to end it, unless a disconnect() is
\* about to, or one lost a race against the event loop: a wait it bounds by time,
\* or a close that arrived in the instant its drain held the mutex.
ReconnectIsWatched ==
    connection_state_ = "RECONNECTING" /\ ~is_destroying_ =>
        health_timer \/ overran \/ lost_close \/ main = "reset"

\* Both states of a lost connection have something that ends them.
SessionsAreWatched == TypeOK /\ NoDeadSession /\ ReconnectIsWatched

\* While a callback runs inside the client, the client still exists.
CallbacksRunInALiveClient == HoldsShared => destruction_guard_

\* A lost connection does not show "reconnecting" for good: it comes back, is
\* given up after kMaxReconnectStallMs, or is ended by the user.
ReconnectEnds ==
    connection_state_ = "RECONNECTING" ~>
        connection_state_ # "RECONNECTING" \/ overran \/ lost_close \/ is_destroying_
=============================================================================
