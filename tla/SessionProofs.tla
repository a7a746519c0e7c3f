---------------------------- MODULE SessionProofs ----------------------------
(***************************************************************************)
(* A printer session from both ends: the connection that carries it        *)
(* (MoonrakerConnection), for every number of sockets and of suppression    *)
(* windows, and the flow that replaces it by another printer's             *)
(* (PrinterSwitchFlow), for every set of printers and number of calls.     *)
(***************************************************************************)
EXTENDS MoonrakerConnection, PrinterSwitchFlow, TLAPS

-----------------------------------------------------------------------------
(* The connection: the inductive invariant.                                *)

\* Where the destructor is says what it has refused and released; past its
\* wait no callback is left inside.
Dying ==
    /\ is_destroying_ <=> main \in {"destroying", "guard_reset", "destroyed"}
    /\ ~destruction_guard_ => main \in {"guard_reset", "destroyed"}
    /\ main \in {"guard_reset", "destroyed"} => ~HoldsShared

\* Every socket dialled is closed at most once.
ClosesFit == closes + (IF socket = "none" THEN 0 ELSE 1) <= sockets

\* An onopen that is being handled is followed by the close of its socket.
OpensAreClosed == loop \in {"open_entry", "opening"} => socket = "open" \/ closes > 0

\* A session the client remembers still has its socket, or a close to come.
SessionHasSocket ==
    was_connected_ /\ ~lost_close /\ ~is_destroying_ => socket = "open" \/ CloseOutstanding

\* A CONNECTED client remembers its session, or was told to keep quiet about its
\* end; a close whose handler began in another state does not find it CONNECTED.
ConnectedIsRemembered ==
    connection_state_ = "CONNECTED" =>
        /\ was_connected_ \/ muffled
        /\ loop = "closing" => saw.state = "CONNECTED"

\* NoDeadSession, also between force_reconnect()'s halves and inside connect().
ConnectedIsLive ==
    connection_state_ = "CONNECTED" /\ main \in {"idle", "connect", "dial"} =>
        socket = "open" \/ CloseOutstanding \/ muffled

\* From the end of its drain on, a disconnect() that nothing overtook has its
\* window open, and a close being handled has seen it.
QuietDisconnect ==
    /\ main \in {"drain", "close", "reset"} /\ ~overran => suppressed
    /\ main \in {"close", "reset"} /\ ~overran /\ loop = "closing" => saw.suppressed

\* A remembered session without a health timer has not started it yet, or is one
\* whose close will be kept quiet.
UnwatchedIsQuiet ==
    was_connected_ /\ ~health_timer /\ ~overran /\ ~lost_close /\ ~is_destroying_ =>
        \/ loop = "opened"
        \/ /\ suppressed /\ CloseOutstanding
           /\ loop = "closing" => saw.suppressed

\* Two parts of TypeOK: the flags, and where the threads, the socket and the
\* windows are.
FlagsOK ==
    /\ was_connected_ \in BOOLEAN /\ health_timer \in BOOLEAN
    /\ initial_failure_notified_ \in BOOLEAN /\ suppressed \in BOOLEAN
    /\ is_destroying_ \in BOOLEAN /\ destruction_guard_ \in BOOLEAN
    /\ then_connect \in BOOLEAN /\ auto_reconnect \in BOOLEAN
    /\ muffled \in BOOLEAN /\ overran \in BOOLEAN /\ lost_close \in BOOLEAN

PlacesOK ==
    /\ main \in MainSteps /\ loop \in LoopSteps
    /\ socket \in {"none", "dialing", "open"}
    /\ windows \in 0..MaxWindows

IInv ==
    /\ TypeOK /\ Dying /\ ClosesFit
    /\ OpensAreClosed /\ SessionHasSocket /\ ConnectedIsRemembered /\ ConnectedIsLive
    /\ QuietDisconnect /\ UnwatchedIsQuiet /\ ReconnectIsWatched

-----------------------------------------------------------------------------
(* The connection: the invariant, one action at a time.                    *)

\* The client starts disconnected, with no socket and no callback.
LEMMA InitHolds == Init => IInv
<1> SUFFICES ASSUME Init PROVE IInv
  OBVIOUS
<1>1. /\ connection_state_ \in ConnectionStates
      /\ saw \in [state : ConnectionStates, suppressed : BOOLEAN]
  BY DEF Init, ConnectionStates
<1>2. main \in MainSteps /\ loop \in LoopSteps
  BY DEF Init, MainSteps, LoopSteps
<1>3. closes \in 0..MaxSockets /\ sockets \in 0..MaxSockets /\ windows \in 0..MaxWindows
  BY BoundsAssumption DEF Init
<1>4. /\ {was_connected_, health_timer, initial_failure_notified_, suppressed} \subseteq BOOLEAN
      /\ {is_destroying_, destruction_guard_, then_connect, auto_reconnect} \subseteq BOOLEAN
      /\ {muffled, overran, lost_close} \subseteq BOOLEAN
  BY DEF Init
<1>5. TypeOK
  BY <1>1, <1>2, <1>3, <1>4 DEF Init, TypeOK
<1> QED
  BY <1>5 DEF Init, IInv, Dying, ClosesFit, OpensAreClosed, SessionHasSocket, ConnectedIsRemembered,
     ConnectedIsLive, QuietDisconnect, UnwatchedIsQuiet, ReconnectIsWatched, CloseOutstanding, HoldsShared

\* No step of the main thread breaks the invariant.
LEMMA MainHolds == ASSUME IInv, Main PROVE IInv'
<1>0. TypeOK
  BY DEF IInv
<1> USE DEF IInv
<1>1. ASSUME NEW reconnect \in BOOLEAN, BeginDisconnect(reconnect) PROVE IInv'
  <2>1. ClosesFit' /\ closes' \in 0..MaxSockets /\ sockets' \in 0..MaxSockets
    BY <1>1, BoundsAssumption DEF BeginDisconnect, TypeOK, ClosesFit, libhv
  <2>2. /\ connection_state_' \in ConnectionStates
        /\ saw' \in [state : ConnectionStates, suppressed : BOOLEAN]
    BY <1>1 DEF BeginDisconnect, TypeOK, ConnectionStates, client, looppc
  <2>3. TypeOK'
    <3> HIDE DEF IInv
    <3>1. FlagsOK'
      BY <1>0, <1>1 DEF BeginDisconnect, TypeOK, FlagsOK, client, lifetime, libhv, mainpc, looppc,
         window, history
    <3>2. PlacesOK'
      BY <1>0, <1>1 DEF BeginDisconnect, TypeOK, PlacesOK, MainSteps, libhv, mainpc, looppc, window
    <3> QED
      BY <2>1, <2>2, <3>1, <3>2 DEF TypeOK, FlagsOK, PlacesOK
  <2>4. Dying' /\ OpensAreClosed' /\ SessionHasSocket'
    BY <1>1 DEF BeginDisconnect, TypeOK, Dying, OpensAreClosed, SessionHasSocket, CloseOutstanding,
       HoldsShared, client, lifetime, libhv, mainpc, looppc, window, history
  <2>5. ConnectedIsRemembered' /\ ConnectedIsLive'
    BY <1>1 DEF BeginDisconnect, TypeOK, Dying, OpensAreClosed, ConnectedIsRemembered,
       ConnectedIsLive, CloseOutstanding, client, lifetime, libhv, mainpc, looppc, window, history
  <2>6. QuietDisconnect' /\ UnwatchedIsQuiet' /\ ReconnectIsWatched'
    BY <1>1 DEF BeginDisconnect, TypeOK, Dying, SessionHasSocket, QuietDisconnect, UnwatchedIsQuiet,
       ReconnectIsWatched, CloseOutstanding, HoldsShared, client, lifetime, libhv, mainpc, looppc,
       window, history
  <2> QED
    BY <2>1, <2>3, <2>4, <2>5, <2>6 DEF IInv
<1>2. CASE DrainCallbacks
  <2>1. ClosesFit' /\ closes' \in 0..MaxSockets /\ sockets' \in 0..MaxSockets
    BY <1>2, BoundsAssumption DEF DrainCallbacks, TypeOK, ClosesFit, libhv
  <2>2. /\ connection_state_' \in ConnectionStates
        /\ saw' \in [state : ConnectionStates, suppressed : BOOLEAN]
    BY <1>2 DEF DrainCallbacks, TypeOK, ConnectionStates, client, looppc
  <2>3. TypeOK'
    <3> HIDE DEF IInv
    <3>1. FlagsOK'
      BY <1>0, <1>2 DEF DrainCallbacks, TypeOK, FlagsOK, client, lifetime, libhv, mainpc, looppc,
         window, history
    <3>2. PlacesOK'
      BY <1>0, <1>2 DEF DrainCallbacks, TypeOK, PlacesOK, MainSteps, libhv, mainpc, looppc, window
    <3> QED
      BY <2>1, <2>2, <3>1, <3>2 DEF TypeOK, FlagsOK, PlacesOK
  <2>4. Dying' /\ OpensAreClosed' /\ SessionHasSocket'
    BY <1>2 DEF DrainCallbacks, TypeOK, Dying, OpensAreClosed, SessionHasSocket, CloseOutstanding,
       HoldsShared, client, lifetime, libhv, mainpc, looppc, window, history
  <2>5. ConnectedIsRemembered' /\ ConnectedIsLive'
    BY <1>2 DEF DrainCallbacks, TypeOK, Dying, OpensAreClosed, ConnectedIsRemembered,
       ConnectedIsLive, CloseOutstanding, client, lifetime, libhv, mainpc, looppc, window, history
  <2>6. QuietDisconnect' /\ UnwatchedIsQuiet' /\ ReconnectIsWatched'
    BY <1>2 DEF DrainCallbacks, TypeOK, Dying, SessionHasSocket, QuietDisconnect, UnwatchedIsQuiet,
       ReconnectIsWatched, CloseOutstanding, HoldsShared, client, lifetime, libhv, mainpc, looppc,
       window, history
  <2> QED
    BY <2>1, <2>3, <2>4, <2>5, <2>6 DEF IInv
<1>3. CASE DrainTimesOut
  <2>1. ClosesFit' /\ closes' \in 0..MaxSockets /\ sockets' \in 0..MaxSockets
    BY <1>3, BoundsAssumption DEF DrainTimesOut, TypeOK, ClosesFit, libhv
  <2>2. /\ connection_state_' \in ConnectionStates
        /\ saw' \in [state : ConnectionStates, suppressed : BOOLEAN]
    BY <1>3 DEF DrainTimesOut, TypeOK, ConnectionStates, client, looppc
  <2>3. TypeOK'
    <3> HIDE DEF IInv
    <3>1. FlagsOK'
      BY <1>0, <1>3 DEF DrainTimesOut, TypeOK, FlagsOK, client, lifetime, libhv, mainpc, looppc,
         window, history
    <3>2. PlacesOK'
      BY <1>0, <1>3 DEF DrainTimesOut, TypeOK, PlacesOK, MainSteps, libhv, mainpc, looppc, window
    <3> QED
      BY <2>1, <2>2, <3>1, <3>2 DEF TypeOK, FlagsOK, PlacesOK
  <2>4. Dying' /\ OpensAreClosed' /\ SessionHasSocket'
    BY <1>3 DEF DrainTimesOut, TypeOK, Dying, OpensAreClosed, SessionHasSocket, CloseOutstanding,
       HoldsShared, client, lifetime, libhv, mainpc, looppc, window, history
  <2>5. ConnectedIsRemembered' /\ ConnectedIsLive'
    BY <1>3 DEF DrainTimesOut, TypeOK, Dying, OpensAreClosed, ConnectedIsRemembered,
       ConnectedIsLive, CloseOutstanding, client, lifetime, libhv, mainpc, looppc, window, history
  <2>6. QuietDisconnect' /\ UnwatchedIsQuiet' /\ ReconnectIsWatched'
    BY <1>3 DEF DrainTimesOut, TypeOK, Dying, SessionHasSocket, QuietDisconnect, UnwatchedIsQuiet,
       ReconnectIsWatched, CloseOutstanding, HoldsShared, client, lifetime, libhv, mainpc, looppc,
       window, history
  <2> QED
    BY <2>1, <2>3, <2>4, <2>5, <2>6 DEF IInv
<1>4. CASE CloseConnection
  <2>1. ClosesFit' /\ closes' \in 0..MaxSockets /\ sockets' \in 0..MaxSockets
    BY <1>4, BoundsAssumption DEF CloseConnection, CloseSocket, TypeOK, ClosesFit, libhv
  <2>2. /\ connection_state_' \in ConnectionStates
        /\ saw' \in [state : ConnectionStates, suppressed : BOOLEAN]
    BY <1>4 DEF CloseConnection, TypeOK, ConnectionStates, client, looppc
  <2>3. TypeOK'
    <3> HIDE DEF IInv
    <3>1. FlagsOK'
      BY <1>0, <1>4 DEF CloseConnection, CloseSocket, TypeOK, FlagsOK, client, lifetime, libhv,
         mainpc, looppc, window, history
    <3>2. PlacesOK'
      BY <1>0, <1>4 DEF CloseConnection, CloseSocket, TypeOK, PlacesOK, MainSteps, libhv, mainpc,
         looppc, window
    <3> QED
      BY <2>1, <2>2, <3>1, <3>2 DEF TypeOK, FlagsOK, PlacesOK
  <2>4. Dying' /\ OpensAreClosed' /\ SessionHasSocket'
    BY <1>4 DEF CloseConnection, CloseSocket, TypeOK, Dying, OpensAreClosed, SessionHasSocket,
       CloseOutstanding, HoldsShared, client, lifetime, libhv, mainpc, looppc, window, history
  <2>5. ConnectedIsRemembered' /\ ConnectedIsLive'
    BY <1>4 DEF CloseConnection, CloseSocket, TypeOK, Dying, OpensAreClosed, ConnectedIsRemembered,
       ConnectedIsLive, CloseOutstanding, client, lifetime, libhv, mainpc, looppc, window, history
  <2>6. QuietDisconnect' /\ UnwatchedIsQuiet' /\ ReconnectIsWatched'
    BY <1>4 DEF CloseConnection, CloseSocket, TypeOK, Dying, SessionHasSocket, QuietDisconnect,
       UnwatchedIsQuiet, ReconnectIsWatched, CloseOutstanding, HoldsShared, client, lifetime, libhv,
       mainpc, looppc, window, history
  <2> QED
    BY <2>1, <2>3, <2>4, <2>5, <2>6 DEF IInv
<1>5. CASE FinishDisconnect
  <2>1. ClosesFit' /\ closes' \in 0..MaxSockets /\ sockets' \in 0..MaxSockets
    BY <1>5, BoundsAssumption DEF FinishDisconnect, TypeOK, ClosesFit, libhv
  <2>2. /\ connection_state_' \in ConnectionStates
        /\ saw' \in [state : ConnectionStates, suppressed : BOOLEAN]
    BY <1>5 DEF FinishDisconnect, TypeOK, ConnectionStates, client, looppc
  <2>3. TypeOK'
    <3> HIDE DEF IInv
    <3>1. FlagsOK'
      BY <1>0, <1>5 DEF FinishDisconnect, TypeOK, FlagsOK, client, lifetime, libhv, mainpc, looppc,
         window, history
    <3>2. PlacesOK'
      BY <1>0, <1>5 DEF FinishDisconnect, TypeOK, PlacesOK, MainSteps, libhv, mainpc, looppc, window
    <3> QED
      BY <2>1, <2>2, <3>1, <3>2 DEF TypeOK, FlagsOK, PlacesOK
  <2>4. Dying' /\ OpensAreClosed' /\ SessionHasSocket'
    BY <1>5 DEF FinishDisconnect, TypeOK, Dying, OpensAreClosed, SessionHasSocket, CloseOutstanding,
       HoldsShared, client, lifetime, libhv, mainpc, looppc, window, history
  <2>5. ConnectedIsRemembered' /\ ConnectedIsLive'
    BY <1>5 DEF FinishDisconnect, TypeOK, Dying, OpensAreClosed, ConnectedIsRemembered,
       ConnectedIsLive, CloseOutstanding, client, lifetime, libhv, mainpc, looppc, window, history
  <2>6. QuietDisconnect' /\ UnwatchedIsQuiet' /\ ReconnectIsWatched'
    BY <1>5 DEF FinishDisconnect, TypeOK, Dying, SessionHasSocket, QuietDisconnect,
       UnwatchedIsQuiet, ReconnectIsWatched, CloseOutstanding, HoldsShared, client, lifetime, libhv,
       mainpc, looppc, window, history
  <2> QED
    BY <2>1, <2>3, <2>4, <2>5, <2>6 DEF IInv
<1>6. CASE BeginConnect
  <2>1. ClosesFit' /\ closes' \in 0..MaxSockets /\ sockets' \in 0..MaxSockets
    BY <1>6, BoundsAssumption DEF BeginConnect, CloseSocket, TypeOK, ClosesFit, libhv
  <2>2. /\ connection_state_' \in ConnectionStates
        /\ saw' \in [state : ConnectionStates, suppressed : BOOLEAN]
    BY <1>6 DEF BeginConnect, TypeOK, ConnectionStates, client, looppc
  <2>3. TypeOK'
    <3> HIDE DEF IInv
    <3>1. FlagsOK'
      BY <1>0, <1>6 DEF BeginConnect, CloseSocket, TypeOK, FlagsOK, client, lifetime, libhv, mainpc,
         looppc, window, history
    <3>2. PlacesOK'
      BY <1>0, <1>6 DEF BeginConnect, CloseSocket, TypeOK, PlacesOK, MainSteps, libhv, mainpc,
         looppc, window
    <3> QED
      BY <2>1, <2>2, <3>1, <3>2 DEF TypeOK, FlagsOK, PlacesOK
  <2>4. Dying' /\ OpensAreClosed' /\ SessionHasSocket'
    BY <1>6 DEF BeginConnect, CloseSocket, TypeOK, Dying, OpensAreClosed, SessionHasSocket,
       CloseOutstanding, HoldsShared, client, lifetime, libhv, mainpc, looppc, window, history
  <2>5. ConnectedIsRemembered' /\ ConnectedIsLive'
    BY <1>6 DEF BeginConnect, CloseSocket, TypeOK, Dying, OpensAreClosed, ConnectedIsRemembered,
       ConnectedIsLive, CloseOutstanding, client, lifetime, libhv, mainpc, looppc, window, history
  <2>6. QuietDisconnect' /\ UnwatchedIsQuiet' /\ ReconnectIsWatched'
    BY <1>6 DEF BeginConnect, CloseSocket, TypeOK, Dying, SessionHasSocket, QuietDisconnect,
       UnwatchedIsQuiet, ReconnectIsWatched, CloseOutstanding, HoldsShared, client, lifetime, libhv,
       mainpc, looppc, window, history
  <2> QED
    BY <2>1, <2>3, <2>4, <2>5, <2>6 DEF IInv
<1>7. CASE Dial
  <2>1. ClosesFit' /\ closes' \in 0..MaxSockets /\ sockets' \in 0..MaxSockets
    BY <1>7, BoundsAssumption DEF Dial, TypeOK, ClosesFit, libhv
  <2>2. /\ connection_state_' \in ConnectionStates
        /\ saw' \in [state : ConnectionStates, suppressed : BOOLEAN]
    BY <1>7 DEF Dial, TypeOK, ConnectionStates, client, looppc
  <2>3. TypeOK'
    <3> HIDE DEF IInv
    <3>1. FlagsOK'
      BY <1>0, <1>7 DEF Dial, TypeOK, FlagsOK, client, lifetime, libhv, mainpc, looppc, window,
         history
    <3>2. PlacesOK'
      BY <1>0, <1>7 DEF Dial, TypeOK, PlacesOK, MainSteps, libhv, mainpc, looppc, window
    <3> QED
      BY <2>1, <2>2, <3>1, <3>2 DEF TypeOK, FlagsOK, PlacesOK
  <2>4. Dying' /\ OpensAreClosed' /\ SessionHasSocket'
    BY <1>7 DEF Dial, TypeOK, Dying, OpensAreClosed, SessionHasSocket, CloseOutstanding,
       HoldsShared, client, lifetime, libhv, mainpc, looppc, window, history
  <2>5. ConnectedIsRemembered' /\ ConnectedIsLive'
    BY <1>7 DEF Dial, TypeOK, Dying, OpensAreClosed, ConnectedIsRemembered, ConnectedIsLive,
       CloseOutstanding, client, lifetime, libhv, mainpc, looppc, window, history
  <2>6. QuietDisconnect' /\ UnwatchedIsQuiet' /\ ReconnectIsWatched'
    BY <1>7 DEF Dial, TypeOK, Dying, SessionHasSocket, QuietDisconnect, UnwatchedIsQuiet,
       ReconnectIsWatched, CloseOutstanding, HoldsShared, client, lifetime, libhv, mainpc, looppc,
       window, history
  <2> QED
    BY <2>1, <2>3, <2>4, <2>5, <2>6 DEF IInv
<1>8. CASE DisableAutoReconnect
  <2>1. ClosesFit' /\ closes' \in 0..MaxSockets /\ sockets' \in 0..MaxSockets
    BY <1>8, BoundsAssumption DEF DisableAutoReconnect, TypeOK, ClosesFit, libhv
  <2>2. /\ connection_state_' \in ConnectionStates
        /\ saw' \in [state : ConnectionStates, suppressed : BOOLEAN]
    BY <1>8 DEF DisableAutoReconnect, TypeOK, ConnectionStates, client, looppc
  <2>3. TypeOK'
    <3> HIDE DEF IInv
    <3>1. FlagsOK'
      BY <1>0, <1>8 DEF DisableAutoReconnect, TypeOK, FlagsOK, client, lifetime, libhv, mainpc,
         looppc, window, history
    <3>2. PlacesOK'
      BY <1>0, <1>8 DEF DisableAutoReconnect, TypeOK, PlacesOK, MainSteps, libhv, mainpc, looppc,
         window
    <3> QED
      BY <2>1, <2>2, <3>1, <3>2 DEF TypeOK, FlagsOK, PlacesOK
  <2>4. Dying' /\ OpensAreClosed' /\ SessionHasSocket'
    BY <1>8 DEF DisableAutoReconnect, TypeOK, Dying, OpensAreClosed, SessionHasSocket,
       CloseOutstanding, HoldsShared, client, lifetime, libhv, mainpc, looppc, window, history
  <2>5. ConnectedIsRemembered' /\ ConnectedIsLive'
    BY <1>8 DEF DisableAutoReconnect, TypeOK, Dying, OpensAreClosed, ConnectedIsRemembered,
       ConnectedIsLive, CloseOutstanding, client, lifetime, libhv, mainpc, looppc, window, history
  <2>6. QuietDisconnect' /\ UnwatchedIsQuiet' /\ ReconnectIsWatched'
    BY <1>8 DEF DisableAutoReconnect, TypeOK, Dying, SessionHasSocket, QuietDisconnect,
       UnwatchedIsQuiet, ReconnectIsWatched, CloseOutstanding, HoldsShared, client, lifetime, libhv,
       mainpc, looppc, window, history
  <2> QED
    BY <2>1, <2>3, <2>4, <2>5, <2>6 DEF IInv
<1>9. CASE BeginDestroy
  <2>1. ClosesFit' /\ closes' \in 0..MaxSockets /\ sockets' \in 0..MaxSockets
    BY <1>9, BoundsAssumption DEF BeginDestroy, TypeOK, ClosesFit, libhv
  <2>2. /\ connection_state_' \in ConnectionStates
        /\ saw' \in [state : ConnectionStates, suppressed : BOOLEAN]
    BY <1>9 DEF BeginDestroy, TypeOK, ConnectionStates, client, looppc
  <2>3. TypeOK'
    <3> HIDE DEF IInv
    <3>1. FlagsOK'
      BY <1>0, <1>9 DEF BeginDestroy, TypeOK, FlagsOK, client, lifetime, libhv, mainpc, looppc,
         window, history
    <3>2. PlacesOK'
      BY <1>0, <1>9 DEF BeginDestroy, TypeOK, PlacesOK, MainSteps, libhv, mainpc, looppc, window
    <3> QED
      BY <2>1, <2>2, <3>1, <3>2 DEF TypeOK, FlagsOK, PlacesOK
  <2>4. Dying' /\ OpensAreClosed' /\ SessionHasSocket'
    BY <1>9 DEF BeginDestroy, TypeOK, Dying, OpensAreClosed, SessionHasSocket, CloseOutstanding,
       HoldsShared, client, lifetime, libhv, mainpc, looppc, window, history
  <2>5. ConnectedIsRemembered' /\ ConnectedIsLive'
    BY <1>9 DEF BeginDestroy, TypeOK, Dying, OpensAreClosed, ConnectedIsRemembered, ConnectedIsLive,
       CloseOutstanding, client, lifetime, libhv, mainpc, looppc, window, history
  <2>6. QuietDisconnect' /\ UnwatchedIsQuiet' /\ ReconnectIsWatched'
    BY <1>9 DEF BeginDestroy, TypeOK, Dying, SessionHasSocket, QuietDisconnect, UnwatchedIsQuiet,
       ReconnectIsWatched, CloseOutstanding, HoldsShared, client, lifetime, libhv, mainpc, looppc,
       window, history
  <2> QED
    BY <2>1, <2>3, <2>4, <2>5, <2>6 DEF IInv
<1>10. CASE AwaitCallbacks
  <2>1. ClosesFit' /\ closes' \in 0..MaxSockets /\ sockets' \in 0..MaxSockets
    BY <1>10, BoundsAssumption DEF AwaitCallbacks, TypeOK, ClosesFit, libhv
  <2>2. /\ connection_state_' \in ConnectionStates
        /\ saw' \in [state : ConnectionStates, suppressed : BOOLEAN]
    BY <1>10 DEF AwaitCallbacks, TypeOK, ConnectionStates, client, looppc
  <2>3. TypeOK'
    <3> HIDE DEF IInv
    <3>1. FlagsOK'
      BY <1>0, <1>10 DEF AwaitCallbacks, TypeOK, FlagsOK, client, lifetime, libhv, mainpc, looppc,
         window, history
    <3>2. PlacesOK'
      BY <1>0, <1>10 DEF AwaitCallbacks, TypeOK, PlacesOK, MainSteps, libhv, mainpc, looppc, window
    <3> QED
      BY <2>1, <2>2, <3>1, <3>2 DEF TypeOK, FlagsOK, PlacesOK
  <2>4. Dying' /\ OpensAreClosed' /\ SessionHasSocket'
    BY <1>10 DEF AwaitCallbacks, TypeOK, Dying, OpensAreClosed, SessionHasSocket, CloseOutstanding,
       HoldsShared, client, lifetime, libhv, mainpc, looppc, window, history
  <2>5. ConnectedIsRemembered' /\ ConnectedIsLive'
    BY <1>10 DEF AwaitCallbacks, TypeOK, Dying, OpensAreClosed, ConnectedIsRemembered,
       ConnectedIsLive, CloseOutstanding, client, lifetime, libhv, mainpc, looppc, window, history
  <2>6. QuietDisconnect' /\ UnwatchedIsQuiet' /\ ReconnectIsWatched'
    BY <1>10 DEF AwaitCallbacks, TypeOK, Dying, SessionHasSocket, QuietDisconnect, UnwatchedIsQuiet,
       ReconnectIsWatched, CloseOutstanding, HoldsShared, client, lifetime, libhv, mainpc, looppc,
       window, history
  <2> QED
    BY <2>1, <2>3, <2>4, <2>5, <2>6 DEF IInv
<1>11. CASE DestroyMembers
  <2>1. ClosesFit' /\ closes' \in 0..MaxSockets /\ sockets' \in 0..MaxSockets
    BY <1>11, BoundsAssumption DEF DestroyMembers, TypeOK, ClosesFit, libhv
  <2>2. /\ connection_state_' \in ConnectionStates
        /\ saw' \in [state : ConnectionStates, suppressed : BOOLEAN]
    BY <1>11 DEF DestroyMembers, TypeOK, ConnectionStates, client, looppc
  <2>3. TypeOK'
    <3> HIDE DEF IInv
    <3>1. FlagsOK'
      BY <1>0, <1>11 DEF DestroyMembers, TypeOK, FlagsOK, client, lifetime, libhv, mainpc, looppc,
         window, history
    <3>2. PlacesOK'
      BY <1>0, <1>11 DEF DestroyMembers, TypeOK, PlacesOK, MainSteps, libhv, mainpc, looppc, window
    <3> QED
      BY <2>1, <2>2, <3>1, <3>2 DEF TypeOK, FlagsOK, PlacesOK
  <2>4. Dying' /\ OpensAreClosed' /\ SessionHasSocket'
    BY <1>11 DEF DestroyMembers, TypeOK, Dying, OpensAreClosed, SessionHasSocket, CloseOutstanding,
       HoldsShared, client, lifetime, libhv, mainpc, looppc, window, history
  <2>5. ConnectedIsRemembered' /\ ConnectedIsLive'
    BY <1>11 DEF DestroyMembers, TypeOK, Dying, OpensAreClosed, ConnectedIsRemembered,
       ConnectedIsLive, CloseOutstanding, client, lifetime, libhv, mainpc, looppc, window, history
  <2>6. QuietDisconnect' /\ UnwatchedIsQuiet' /\ ReconnectIsWatched'
    BY <1>11 DEF DestroyMembers, TypeOK, Dying, SessionHasSocket, QuietDisconnect, UnwatchedIsQuiet,
       ReconnectIsWatched, CloseOutstanding, HoldsShared, client, lifetime, libhv, mainpc, looppc,
       window, history
  <2> QED
    BY <2>1, <2>3, <2>4, <2>5, <2>6 DEF IInv
<1> QED
  BY <1>1, <1>2, <1>3, <1>4, <1>5, <1>6, <1>7, <1>8, <1>9, <1>10, <1>11 DEF Main

\* No step of a trampoline breaks the invariant.
LEMMA CallbackHolds == ASSUME IInv, Callback PROVE IInv'
<1>0. TypeOK
  BY DEF IInv
<1> USE DEF IInv
<1>1. CASE TurnAway
  <2>1. ClosesFit' /\ closes' \in 0..MaxSockets /\ sockets' \in 0..MaxSockets
    BY <1>1, BoundsAssumption DEF TurnAway, TypeOK, ClosesFit, libhv
  <2>2. /\ connection_state_' \in ConnectionStates
        /\ saw' \in [state : ConnectionStates, suppressed : BOOLEAN]
    BY <1>1 DEF TurnAway, TypeOK, ConnectionStates, client, looppc
  <2>3. TypeOK'
    <3> HIDE DEF IInv
    <3>1. FlagsOK'
      BY <1>0, <1>1 DEF TurnAway, TypeOK, FlagsOK, client, lifetime, libhv, mainpc, looppc, window,
         history
    <3>2. PlacesOK'
      BY <1>0, <1>1 DEF TurnAway, TypeOK, PlacesOK, LoopSteps, libhv, mainpc, looppc, window
    <3> QED
      BY <2>1, <2>2, <3>1, <3>2 DEF TypeOK, FlagsOK, PlacesOK
  <2>4. Dying' /\ OpensAreClosed' /\ SessionHasSocket'
    BY <1>1 DEF TurnAway, TypeOK, Dying, OpensAreClosed, SessionHasSocket, CloseOutstanding,
       HoldsShared, client, lifetime, libhv, mainpc, looppc, window, history
  <2>5. ConnectedIsRemembered' /\ ConnectedIsLive'
    BY <1>1 DEF TurnAway, TypeOK, Dying, OpensAreClosed, ConnectedIsRemembered, ConnectedIsLive,
       CloseOutstanding, client, lifetime, libhv, mainpc, looppc, window, history
  <2>6. QuietDisconnect' /\ UnwatchedIsQuiet' /\ ReconnectIsWatched'
    BY <1>1 DEF TurnAway, TypeOK, Dying, SessionHasSocket, QuietDisconnect, UnwatchedIsQuiet,
       ReconnectIsWatched, CloseOutstanding, HoldsShared, client, lifetime, libhv, mainpc, looppc,
       window, history
  <2> QED
    BY <2>1, <2>3, <2>4, <2>5, <2>6 DEF IInv
<1>2. CASE Enter
  <2>1. ClosesFit' /\ closes' \in 0..MaxSockets /\ sockets' \in 0..MaxSockets
    BY <1>2, BoundsAssumption DEF Enter, TypeOK, ClosesFit, libhv
  <2>2. /\ connection_state_' \in ConnectionStates
        /\ saw' \in [state : ConnectionStates, suppressed : BOOLEAN]
    BY <1>2 DEF Enter, TypeOK, ConnectionStates, client, looppc
  <2>3. TypeOK'
    <3> HIDE DEF IInv
    <3>1. FlagsOK'
      BY <1>0, <1>2 DEF Enter, TypeOK, FlagsOK, client, lifetime, libhv, mainpc, looppc, window,
         history
    <3>2. PlacesOK'
      BY <1>0, <1>2 DEF Enter, TypeOK, PlacesOK, LoopSteps, libhv, mainpc, looppc, window
    <3> QED
      BY <2>1, <2>2, <3>1, <3>2 DEF TypeOK, FlagsOK, PlacesOK
  <2>4. Dying' /\ OpensAreClosed' /\ SessionHasSocket'
    BY <1>2 DEF Enter, TypeOK, Dying, OpensAreClosed, SessionHasSocket, CloseOutstanding,
       HoldsShared, client, lifetime, libhv, mainpc, looppc, window, history
  <2>5. ConnectedIsRemembered' /\ ConnectedIsLive'
    BY <1>2 DEF Enter, TypeOK, Dying, OpensAreClosed, ConnectedIsRemembered, ConnectedIsLive,
       CloseOutstanding, client, lifetime, libhv, mainpc, looppc, window, history
  <2>6. QuietDisconnect' /\ UnwatchedIsQuiet' /\ ReconnectIsWatched'
    BY <1>2 DEF Enter, TypeOK, Dying, SessionHasSocket, QuietDisconnect, UnwatchedIsQuiet,
       ReconnectIsWatched, CloseOutstanding, HoldsShared, client, lifetime, libhv, mainpc, looppc,
       window, history
  <2> QED
    BY <2>1, <2>3, <2>4, <2>5, <2>6 DEF IInv
<1>3. CASE OnWsOpen
  <2>1. ClosesFit' /\ closes' \in 0..MaxSockets /\ sockets' \in 0..MaxSockets
    BY <1>3, BoundsAssumption DEF OnWsOpen, TypeOK, ClosesFit, libhv
  <2>2. /\ connection_state_' \in ConnectionStates
        /\ saw' \in [state : ConnectionStates, suppressed : BOOLEAN]
    BY <1>3 DEF OnWsOpen, TypeOK, ConnectionStates, client, looppc
  <2>3. TypeOK'
    <3> HIDE DEF IInv
    <3>1. FlagsOK'
      BY <1>0, <1>3 DEF OnWsOpen, TypeOK, FlagsOK, client, lifetime, libhv, mainpc, looppc, window,
         history
    <3>2. PlacesOK'
      BY <1>0, <1>3 DEF OnWsOpen, TypeOK, PlacesOK, LoopSteps, libhv, mainpc, looppc, window
    <3> QED
      BY <2>1, <2>2, <3>1, <3>2 DEF TypeOK, FlagsOK, PlacesOK
  <2>4. Dying' /\ OpensAreClosed' /\ SessionHasSocket'
    BY <1>3 DEF OnWsOpen, TypeOK, Dying, OpensAreClosed, SessionHasSocket, CloseOutstanding,
       HoldsShared, client, lifetime, libhv, mainpc, looppc, window, history
  <2>5. ConnectedIsRemembered' /\ ConnectedIsLive'
    BY <1>3 DEF OnWsOpen, TypeOK, Dying, OpensAreClosed, ConnectedIsRemembered, ConnectedIsLive,
       CloseOutstanding, client, lifetime, libhv, mainpc, looppc, window, history
  <2>6. QuietDisconnect' /\ UnwatchedIsQuiet' /\ ReconnectIsWatched'
    BY <1>3 DEF OnWsOpen, TypeOK, Dying, SessionHasSocket, QuietDisconnect, UnwatchedIsQuiet,
       ReconnectIsWatched, CloseOutstanding, HoldsShared, client, lifetime, libhv, mainpc, looppc,
       window, history
  <2> QED
    BY <2>1, <2>3, <2>4, <2>5, <2>6 DEF IInv
<1>4. CASE OnWsOpened
  <2>1. ClosesFit' /\ closes' \in 0..MaxSockets /\ sockets' \in 0..MaxSockets
    BY <1>4, BoundsAssumption DEF OnWsOpened, TypeOK, ClosesFit, libhv
  <2>2. /\ connection_state_' \in ConnectionStates
        /\ saw' \in [state : ConnectionStates, suppressed : BOOLEAN]
    BY <1>4 DEF OnWsOpened, TypeOK, ConnectionStates, client, looppc
  <2>3. TypeOK'
    <3> HIDE DEF IInv
    <3>1. FlagsOK'
      BY <1>0, <1>4 DEF OnWsOpened, TypeOK, FlagsOK, client, lifetime, libhv, mainpc, looppc,
         window, history
    <3>2. PlacesOK'
      BY <1>0, <1>4 DEF OnWsOpened, TypeOK, PlacesOK, LoopSteps, libhv, mainpc, looppc, window
    <3> QED
      BY <2>1, <2>2, <3>1, <3>2 DEF TypeOK, FlagsOK, PlacesOK
  <2>4. Dying' /\ OpensAreClosed' /\ SessionHasSocket'
    BY <1>4 DEF OnWsOpened, TypeOK, Dying, OpensAreClosed, SessionHasSocket, CloseOutstanding,
       HoldsShared, client, lifetime, libhv, mainpc, looppc, window, history
  <2>5. ConnectedIsRemembered' /\ ConnectedIsLive'
    BY <1>4 DEF OnWsOpened, TypeOK, Dying, OpensAreClosed, ConnectedIsRemembered, ConnectedIsLive,
       CloseOutstanding, client, lifetime, libhv, mainpc, looppc, window, history
  <2>6. QuietDisconnect' /\ UnwatchedIsQuiet' /\ ReconnectIsWatched'
    BY <1>4 DEF OnWsOpened, TypeOK, Dying, SessionHasSocket, QuietDisconnect, UnwatchedIsQuiet,
       ReconnectIsWatched, CloseOutstanding, HoldsShared, client, lifetime, libhv, mainpc, looppc,
       window, history
  <2> QED
    BY <2>1, <2>3, <2>4, <2>5, <2>6 DEF IInv
<1>5. CASE OnSessionLost
  <2>1. ClosesFit' /\ closes' \in 0..MaxSockets /\ sockets' \in 0..MaxSockets
    BY <1>5, BoundsAssumption DEF OnSessionLost, TypeOK, ClosesFit, libhv
  <2>2. /\ connection_state_' \in ConnectionStates
        /\ saw' \in [state : ConnectionStates, suppressed : BOOLEAN]
    BY <1>5 DEF OnSessionLost, TypeOK, ConnectionStates, client, looppc
  <2>3. TypeOK'
    <3> HIDE DEF IInv
    <3>1. FlagsOK'
      BY <1>0, <1>5 DEF OnSessionLost, TypeOK, FlagsOK, client, lifetime, libhv, mainpc, looppc,
         window, history
    <3>2. PlacesOK'
      BY <1>0, <1>5 DEF OnSessionLost, TypeOK, PlacesOK, LoopSteps, libhv, mainpc, looppc, window
    <3> QED
      BY <2>1, <2>2, <3>1, <3>2 DEF TypeOK, FlagsOK, PlacesOK
  <2>4. Dying' /\ OpensAreClosed' /\ SessionHasSocket'
    BY <1>5 DEF OnSessionLost, TypeOK, Dying, OpensAreClosed, SessionHasSocket, CloseOutstanding,
       HoldsShared, client, lifetime, libhv, mainpc, looppc, window, history
  <2>5. ConnectedIsRemembered' /\ ConnectedIsLive'
    BY <1>5 DEF OnSessionLost, TypeOK, Dying, OpensAreClosed, ConnectedIsRemembered,
       ConnectedIsLive, CloseOutstanding, client, lifetime, libhv, mainpc, looppc, window, history
  <2>6. QuietDisconnect' /\ UnwatchedIsQuiet' /\ ReconnectIsWatched'
    BY <1>5 DEF OnSessionLost, TypeOK, Dying, SessionHasSocket, QuietDisconnect, UnwatchedIsQuiet,
       ReconnectIsWatched, CloseOutstanding, HoldsShared, client, lifetime, libhv, mainpc, looppc,
       window, history
  <2> QED
    BY <2>1, <2>3, <2>4, <2>5, <2>6 DEF IInv
<1>6. CASE OnAttemptFailed
  <2>1. ClosesFit' /\ closes' \in 0..MaxSockets /\ sockets' \in 0..MaxSockets
    BY <1>6, BoundsAssumption DEF OnAttemptFailed, TypeOK, ClosesFit, libhv
  <2>2. /\ connection_state_' \in ConnectionStates
        /\ saw' \in [state : ConnectionStates, suppressed : BOOLEAN]
    BY <1>6 DEF OnAttemptFailed, TypeOK, ConnectionStates, client, looppc
  <2>3. TypeOK'
    <3> HIDE DEF IInv
    <3>1. FlagsOK'
      BY <1>0, <1>6 DEF OnAttemptFailed, TypeOK, FlagsOK, client, lifetime, libhv, mainpc, looppc,
         window, history
    <3>2. PlacesOK'
      BY <1>0, <1>6 DEF OnAttemptFailed, TypeOK, PlacesOK, LoopSteps, libhv, mainpc, looppc, window
    <3> QED
      BY <2>1, <2>2, <3>1, <3>2 DEF TypeOK, FlagsOK, PlacesOK
  <2>4. Dying' /\ OpensAreClosed' /\ SessionHasSocket'
    BY <1>6 DEF OnAttemptFailed, TypeOK, Dying, OpensAreClosed, SessionHasSocket, CloseOutstanding,
       HoldsShared, client, lifetime, libhv, mainpc, looppc, window, history
  <2>5. ConnectedIsRemembered' /\ ConnectedIsLive'
    BY <1>6 DEF OnAttemptFailed, TypeOK, Dying, OpensAreClosed, ConnectedIsRemembered,
       ConnectedIsLive, CloseOutstanding, client, lifetime, libhv, mainpc, looppc, window, history
  <2>6. QuietDisconnect' /\ UnwatchedIsQuiet' /\ ReconnectIsWatched'
    BY <1>6 DEF OnAttemptFailed, TypeOK, Dying, SessionHasSocket, QuietDisconnect, UnwatchedIsQuiet,
       ReconnectIsWatched, CloseOutstanding, HoldsShared, client, lifetime, libhv, mainpc, looppc,
       window, history
  <2> QED
    BY <2>1, <2>3, <2>4, <2>5, <2>6 DEF IInv
<1>7. CASE GiveUpReconnect
  <2>1. ClosesFit' /\ closes' \in 0..MaxSockets /\ sockets' \in 0..MaxSockets
    BY <1>7, BoundsAssumption DEF GiveUpReconnect, TypeOK, ClosesFit, libhv
  <2>2. /\ connection_state_' \in ConnectionStates
        /\ saw' \in [state : ConnectionStates, suppressed : BOOLEAN]
    BY <1>7 DEF GiveUpReconnect, TypeOK, ConnectionStates, client, looppc
  <2>3. TypeOK'
    <3> HIDE DEF IInv
    <3>1. FlagsOK'
      BY <1>0, <1>7 DEF GiveUpReconnect, TypeOK, FlagsOK, client, lifetime, libhv, mainpc, looppc,
         window, history
    <3>2. PlacesOK'
      BY <1>0, <1>7 DEF GiveUpReconnect, TypeOK, PlacesOK, LoopSteps, libhv, mainpc, looppc, window
    <3> QED
      BY <2>1, <2>2, <3>1, <3>2 DEF TypeOK, FlagsOK, PlacesOK
  <2>4. Dying' /\ OpensAreClosed' /\ SessionHasSocket'
    BY <1>7 DEF GiveUpReconnect, TypeOK, Dying, OpensAreClosed, SessionHasSocket, CloseOutstanding,
       HoldsShared, client, lifetime, libhv, mainpc, looppc, window, history
  <2>5. ConnectedIsRemembered' /\ ConnectedIsLive'
    BY <1>7 DEF GiveUpReconnect, TypeOK, Dying, OpensAreClosed, ConnectedIsRemembered,
       ConnectedIsLive, CloseOutstanding, client, lifetime, libhv, mainpc, looppc, window, history
  <2>6. QuietDisconnect' /\ UnwatchedIsQuiet' /\ ReconnectIsWatched'
    BY <1>7 DEF GiveUpReconnect, TypeOK, Dying, SessionHasSocket, QuietDisconnect, UnwatchedIsQuiet,
       ReconnectIsWatched, CloseOutstanding, HoldsShared, client, lifetime, libhv, mainpc, looppc,
       window, history
  <2> QED
    BY <2>1, <2>3, <2>4, <2>5, <2>6 DEF IInv
<1>8. CASE KeepWaiting
  <2>1. ClosesFit' /\ closes' \in 0..MaxSockets /\ sockets' \in 0..MaxSockets
    BY <1>8, BoundsAssumption DEF KeepWaiting, TypeOK, ClosesFit, libhv
  <2>2. /\ connection_state_' \in ConnectionStates
        /\ saw' \in [state : ConnectionStates, suppressed : BOOLEAN]
    BY <1>8 DEF KeepWaiting, TypeOK, ConnectionStates, client, looppc
  <2>3. TypeOK'
    <3> HIDE DEF IInv
    <3>1. FlagsOK'
      BY <1>0, <1>8 DEF KeepWaiting, TypeOK, FlagsOK, client, lifetime, libhv, mainpc, looppc,
         window, history
    <3>2. PlacesOK'
      BY <1>0, <1>8 DEF KeepWaiting, TypeOK, PlacesOK, LoopSteps, libhv, mainpc, looppc, window
    <3> QED
      BY <2>1, <2>2, <3>1, <3>2 DEF TypeOK, FlagsOK, PlacesOK
  <2>4. Dying' /\ OpensAreClosed' /\ SessionHasSocket'
    BY <1>8 DEF KeepWaiting, TypeOK, Dying, OpensAreClosed, SessionHasSocket, CloseOutstanding,
       HoldsShared, client, lifetime, libhv, mainpc, looppc, window, history
  <2>5. ConnectedIsRemembered' /\ ConnectedIsLive'
    BY <1>8 DEF KeepWaiting, TypeOK, Dying, OpensAreClosed, ConnectedIsRemembered, ConnectedIsLive,
       CloseOutstanding, client, lifetime, libhv, mainpc, looppc, window, history
  <2>6. QuietDisconnect' /\ UnwatchedIsQuiet' /\ ReconnectIsWatched'
    BY <1>8 DEF KeepWaiting, TypeOK, Dying, SessionHasSocket, QuietDisconnect, UnwatchedIsQuiet,
       ReconnectIsWatched, CloseOutstanding, HoldsShared, client, lifetime, libhv, mainpc, looppc,
       window, history
  <2> QED
    BY <2>1, <2>3, <2>4, <2>5, <2>6 DEF IInv
<1> QED
  BY <1>1, <1>2, <1>3, <1>4, <1>5, <1>6, <1>7, <1>8 DEF Callback

\* Neither does what the network and libhv do.
LEMMA LoopHolds == ASSUME IInv, Loop, ~Callback PROVE IInv'
<1>0. TypeOK
  BY DEF IInv
<1> USE DEF IInv
<1>1. CASE SocketDrops
  <2>1. ClosesFit' /\ closes' \in 0..MaxSockets /\ sockets' \in 0..MaxSockets
    BY <1>1, BoundsAssumption DEF SocketDrops, CloseSocket, TypeOK, ClosesFit, libhv
  <2>2. /\ connection_state_' \in ConnectionStates
        /\ saw' \in [state : ConnectionStates, suppressed : BOOLEAN]
    BY <1>1 DEF SocketDrops, TypeOK, ConnectionStates, client, looppc
  <2>3. TypeOK'
    <3> HIDE DEF IInv
    <3>1. FlagsOK'
      BY <1>0, <1>1 DEF SocketDrops, CloseSocket, TypeOK, FlagsOK, client, lifetime, libhv, mainpc,
         looppc, window, history
    <3>2. PlacesOK'
      BY <1>0, <1>1 DEF SocketDrops, CloseSocket, TypeOK, PlacesOK, libhv, mainpc, looppc, window
    <3> QED
      BY <2>1, <2>2, <3>1, <3>2 DEF TypeOK, FlagsOK, PlacesOK
  <2>4. Dying' /\ OpensAreClosed' /\ SessionHasSocket'
    BY <1>1 DEF SocketDrops, CloseSocket, TypeOK, Dying, OpensAreClosed, SessionHasSocket,
       CloseOutstanding, HoldsShared, client, lifetime, libhv, mainpc, looppc, window, history
  <2>5. ConnectedIsRemembered' /\ ConnectedIsLive'
    BY <1>1 DEF SocketDrops, CloseSocket, TypeOK, Dying, OpensAreClosed, ConnectedIsRemembered,
       ConnectedIsLive, CloseOutstanding, client, lifetime, libhv, mainpc, looppc, window, history
  <2>6. QuietDisconnect' /\ UnwatchedIsQuiet' /\ ReconnectIsWatched'
    BY <1>1 DEF SocketDrops, CloseSocket, TypeOK, Dying, SessionHasSocket, QuietDisconnect,
       UnwatchedIsQuiet, ReconnectIsWatched, CloseOutstanding, HoldsShared, client, lifetime, libhv,
       mainpc, looppc, window, history
  <2> QED
    BY <2>1, <2>3, <2>4, <2>5, <2>6 DEF IInv
<1>2. CASE Redial
  <2>1. ClosesFit' /\ closes' \in 0..MaxSockets /\ sockets' \in 0..MaxSockets
    BY <1>2, BoundsAssumption DEF Redial, TypeOK, ClosesFit, libhv
  <2>2. /\ connection_state_' \in ConnectionStates
        /\ saw' \in [state : ConnectionStates, suppressed : BOOLEAN]
    BY <1>2 DEF Redial, TypeOK, ConnectionStates, client, looppc
  <2>3. TypeOK'
    <3> HIDE DEF IInv
    <3>1. FlagsOK'
      BY <1>0, <1>2 DEF Redial, TypeOK, FlagsOK, client, lifetime, libhv, mainpc, looppc, window,
         history
    <3>2. PlacesOK'
      BY <1>0, <1>2 DEF Redial, TypeOK, PlacesOK, libhv, mainpc, looppc, window
    <3> QED
      BY <2>1, <2>2, <3>1, <3>2 DEF TypeOK, FlagsOK, PlacesOK
  <2>4. Dying' /\ OpensAreClosed' /\ SessionHasSocket'
    BY <1>2 DEF Redial, TypeOK, Dying, OpensAreClosed, SessionHasSocket, CloseOutstanding,
       HoldsShared, client, lifetime, libhv, mainpc, looppc, window, history
  <2>5. ConnectedIsRemembered' /\ ConnectedIsLive'
    BY <1>2 DEF Redial, TypeOK, Dying, OpensAreClosed, ConnectedIsRemembered, ConnectedIsLive,
       CloseOutstanding, client, lifetime, libhv, mainpc, looppc, window, history
  <2>6. QuietDisconnect' /\ UnwatchedIsQuiet' /\ ReconnectIsWatched'
    BY <1>2 DEF Redial, TypeOK, Dying, SessionHasSocket, QuietDisconnect, UnwatchedIsQuiet,
       ReconnectIsWatched, CloseOutstanding, HoldsShared, client, lifetime, libhv, mainpc, looppc,
       window, history
  <2> QED
    BY <2>1, <2>3, <2>4, <2>5, <2>6 DEF IInv
<1>3. CASE OnOpen
  <2>1. ClosesFit' /\ closes' \in 0..MaxSockets /\ sockets' \in 0..MaxSockets
    BY <1>3, BoundsAssumption DEF OnOpen, TypeOK, ClosesFit, libhv
  <2>2. /\ connection_state_' \in ConnectionStates
        /\ saw' \in [state : ConnectionStates, suppressed : BOOLEAN]
    BY <1>3 DEF OnOpen, TypeOK, ConnectionStates, client, looppc
  <2>3. TypeOK'
    <3> HIDE DEF IInv
    <3>1. FlagsOK'
      BY <1>0, <1>3 DEF OnOpen, TypeOK, FlagsOK, client, lifetime, libhv, mainpc, looppc, window,
         history
    <3>2. PlacesOK'
      BY <1>0, <1>3 DEF OnOpen, TypeOK, PlacesOK, LoopSteps, libhv, mainpc, looppc, window
    <3> QED
      BY <2>1, <2>2, <3>1, <3>2 DEF TypeOK, FlagsOK, PlacesOK
  <2>4. Dying' /\ OpensAreClosed' /\ SessionHasSocket'
    BY <1>3 DEF OnOpen, TypeOK, Dying, OpensAreClosed, SessionHasSocket, CloseOutstanding,
       HoldsShared, client, lifetime, libhv, mainpc, looppc, window, history
  <2>5. ConnectedIsRemembered' /\ ConnectedIsLive'
    BY <1>3 DEF OnOpen, TypeOK, Dying, OpensAreClosed, ConnectedIsRemembered, ConnectedIsLive,
       CloseOutstanding, client, lifetime, libhv, mainpc, looppc, window, history
  <2>6. QuietDisconnect' /\ UnwatchedIsQuiet' /\ ReconnectIsWatched'
    BY <1>3 DEF OnOpen, TypeOK, Dying, SessionHasSocket, QuietDisconnect, UnwatchedIsQuiet,
       ReconnectIsWatched, CloseOutstanding, HoldsShared, client, lifetime, libhv, mainpc, looppc,
       window, history
  <2> QED
    BY <2>1, <2>3, <2>4, <2>5, <2>6 DEF IInv
<1>4. CASE OnClose
  <2>1. ClosesFit' /\ closes' \in 0..MaxSockets /\ sockets' \in 0..MaxSockets
    BY <1>4, BoundsAssumption DEF OnClose, TypeOK, ClosesFit, libhv
  <2>2. /\ connection_state_' \in ConnectionStates
        /\ saw' \in [state : ConnectionStates, suppressed : BOOLEAN]
    BY <1>4 DEF OnClose, TypeOK, ConnectionStates, client, looppc
  <2>3. TypeOK'
    <3> HIDE DEF IInv
    <3>1. FlagsOK'
      BY <1>0, <1>4 DEF OnClose, TypeOK, FlagsOK, client, lifetime, libhv, mainpc, looppc, window,
         history
    <3>2. PlacesOK'
      BY <1>0, <1>4 DEF OnClose, TypeOK, PlacesOK, LoopSteps, libhv, mainpc, looppc, window
    <3> QED
      BY <2>1, <2>2, <3>1, <3>2 DEF TypeOK, FlagsOK, PlacesOK
  <2>4. Dying' /\ OpensAreClosed' /\ SessionHasSocket'
    BY <1>4 DEF OnClose, TypeOK, Dying, OpensAreClosed, SessionHasSocket, CloseOutstanding,
       HoldsShared, client, lifetime, libhv, mainpc, looppc, window, history
  <2>5. ConnectedIsRemembered' /\ ConnectedIsLive'
    BY <1>4 DEF OnClose, TypeOK, Dying, OpensAreClosed, ConnectedIsRemembered, ConnectedIsLive,
       CloseOutstanding, client, lifetime, libhv, mainpc, looppc, window, history
  <2>6. QuietDisconnect' /\ UnwatchedIsQuiet' /\ ReconnectIsWatched'
    BY <1>4 DEF OnClose, TypeOK, Dying, SessionHasSocket, QuietDisconnect, UnwatchedIsQuiet,
       ReconnectIsWatched, CloseOutstanding, HoldsShared, client, lifetime, libhv, mainpc, looppc,
       window, history
  <2> QED
    BY <2>1, <2>3, <2>4, <2>5, <2>6 DEF IInv
<1>5. CASE OnTick
  <2>1. ClosesFit' /\ closes' \in 0..MaxSockets /\ sockets' \in 0..MaxSockets
    BY <1>5, BoundsAssumption DEF OnTick, TypeOK, ClosesFit, libhv
  <2>2. /\ connection_state_' \in ConnectionStates
        /\ saw' \in [state : ConnectionStates, suppressed : BOOLEAN]
    BY <1>5 DEF OnTick, TypeOK, ConnectionStates, client, looppc
  <2>3. TypeOK'
    <3> HIDE DEF IInv
    <3>1. FlagsOK'
      BY <1>0, <1>5 DEF OnTick, TypeOK, FlagsOK, client, lifetime, libhv, mainpc, looppc, window,
         history
    <3>2. PlacesOK'
      BY <1>0, <1>5 DEF OnTick, TypeOK, PlacesOK, LoopSteps, libhv, mainpc, looppc, window
    <3> QED
      BY <2>1, <2>2, <3>1, <3>2 DEF TypeOK, FlagsOK, PlacesOK
  <2>4. Dying' /\ OpensAreClosed' /\ SessionHasSocket'
    BY <1>5 DEF OnTick, TypeOK, Dying, OpensAreClosed, SessionHasSocket, CloseOutstanding,
       HoldsShared, client, lifetime, libhv, mainpc, looppc, window, history
  <2>5. ConnectedIsRemembered' /\ ConnectedIsLive'
    BY <1>5 DEF OnTick, TypeOK, Dying, OpensAreClosed, ConnectedIsRemembered, ConnectedIsLive,
       CloseOutstanding, client, lifetime, libhv, mainpc, looppc, window, history
  <2>6. QuietDisconnect' /\ UnwatchedIsQuiet' /\ ReconnectIsWatched'
    BY <1>5 DEF OnTick, TypeOK, Dying, SessionHasSocket, QuietDisconnect, UnwatchedIsQuiet,
       ReconnectIsWatched, CloseOutstanding, HoldsShared, client, lifetime, libhv, mainpc, looppc,
       window, history
  <2> QED
    BY <2>1, <2>3, <2>4, <2>5, <2>6 DEF IInv
<1>6. CASE OversizedMessage
  <2>1. ClosesFit' /\ closes' \in 0..MaxSockets /\ sockets' \in 0..MaxSockets
    BY <1>6, BoundsAssumption DEF OversizedMessage, TypeOK, ClosesFit, libhv
  <2>2. /\ connection_state_' \in ConnectionStates
        /\ saw' \in [state : ConnectionStates, suppressed : BOOLEAN]
    BY <1>6 DEF OversizedMessage, TypeOK, ConnectionStates, client, looppc
  <2>3. TypeOK'
    <3> HIDE DEF IInv
    <3>1. FlagsOK'
      BY <1>0, <1>6 DEF OversizedMessage, TypeOK, FlagsOK, client, lifetime, libhv, mainpc, looppc,
         window, history
    <3>2. PlacesOK'
      BY <1>0, <1>6 DEF OversizedMessage, TypeOK, PlacesOK, libhv, mainpc, looppc, window
    <3> QED
      BY <2>1, <2>2, <3>1, <3>2 DEF TypeOK, FlagsOK, PlacesOK
  <2>4. Dying' /\ OpensAreClosed' /\ SessionHasSocket'
    BY <1>6 DEF OversizedMessage, TypeOK, Dying, OpensAreClosed, SessionHasSocket, CloseOutstanding,
       HoldsShared, client, lifetime, libhv, mainpc, looppc, window, history
  <2>5. ConnectedIsRemembered' /\ ConnectedIsLive'
    BY <1>6 DEF OversizedMessage, TypeOK, Dying, OpensAreClosed, ConnectedIsRemembered,
       ConnectedIsLive, CloseOutstanding, client, lifetime, libhv, mainpc, looppc, window, history
  <2>6. QuietDisconnect' /\ UnwatchedIsQuiet' /\ ReconnectIsWatched'
    BY <1>6 DEF OversizedMessage, TypeOK, Dying, SessionHasSocket, QuietDisconnect,
       UnwatchedIsQuiet, ReconnectIsWatched, CloseOutstanding, HoldsShared, client, lifetime, libhv,
       mainpc, looppc, window, history
  <2> QED
    BY <2>1, <2>3, <2>4, <2>5, <2>6 DEF IInv
<1> QED
  BY <1>1, <1>2, <1>3, <1>4, <1>5, <1>6 DEF Loop

\* Nor the suppression window opening elsewhere or running out.
LEMMA WindowHolds == ASSUME IInv, SuppressElsewhere \/ WindowExpires PROVE IInv'
<1>0. TypeOK
  BY DEF IInv
<1> USE DEF IInv
<1>1. CASE SuppressElsewhere
  <2>1. ClosesFit' /\ closes' \in 0..MaxSockets /\ sockets' \in 0..MaxSockets
    BY <1>1, BoundsAssumption DEF SuppressElsewhere, TypeOK, ClosesFit, libhv
  <2>2. /\ connection_state_' \in ConnectionStates
        /\ saw' \in [state : ConnectionStates, suppressed : BOOLEAN]
    BY <1>1 DEF SuppressElsewhere, TypeOK, ConnectionStates, client, looppc
  <2>3. TypeOK'
    <3> HIDE DEF IInv
    <3>1. FlagsOK'
      BY <1>0, <1>1 DEF SuppressElsewhere, TypeOK, FlagsOK, client, lifetime, libhv, mainpc, looppc,
         window, history
    <3>2. PlacesOK'
      BY <1>0, <1>1, BoundsAssumption DEF SuppressElsewhere, TypeOK, PlacesOK, libhv, mainpc,
         looppc, window
    <3> QED
      BY <2>1, <2>2, <3>1, <3>2 DEF TypeOK, FlagsOK, PlacesOK
  <2>4. Dying' /\ OpensAreClosed' /\ SessionHasSocket'
    BY <1>1 DEF SuppressElsewhere, TypeOK, Dying, OpensAreClosed, SessionHasSocket,
       CloseOutstanding, HoldsShared, client, lifetime, libhv, mainpc, looppc, window, history
  <2>5. ConnectedIsRemembered' /\ ConnectedIsLive'
    BY <1>1 DEF SuppressElsewhere, TypeOK, Dying, OpensAreClosed, ConnectedIsRemembered,
       ConnectedIsLive, CloseOutstanding, client, lifetime, libhv, mainpc, looppc, window, history
  <2>6. QuietDisconnect' /\ UnwatchedIsQuiet' /\ ReconnectIsWatched'
    BY <1>1 DEF SuppressElsewhere, TypeOK, Dying, SessionHasSocket, QuietDisconnect,
       UnwatchedIsQuiet, ReconnectIsWatched, CloseOutstanding, HoldsShared, client, lifetime, libhv,
       mainpc, looppc, window, history
  <2> QED
    BY <2>1, <2>3, <2>4, <2>5, <2>6 DEF IInv
<1>2. CASE WindowExpires
  <2>1. ClosesFit' /\ closes' \in 0..MaxSockets /\ sockets' \in 0..MaxSockets
    BY <1>2, BoundsAssumption DEF WindowExpires, TypeOK, ClosesFit, libhv
  <2>2. /\ connection_state_' \in ConnectionStates
        /\ saw' \in [state : ConnectionStates, suppressed : BOOLEAN]
    BY <1>2 DEF WindowExpires, TypeOK, ConnectionStates, client, looppc
  <2>3. TypeOK'
    <3> HIDE DEF IInv
    <3>1. FlagsOK'
      BY <1>0, <1>2 DEF WindowExpires, TypeOK, FlagsOK, client, lifetime, libhv, mainpc, looppc,
         window, history
    <3>2. PlacesOK'
      BY <1>0, <1>2 DEF WindowExpires, TypeOK, PlacesOK, libhv, mainpc, looppc, window
    <3> QED
      BY <2>1, <2>2, <3>1, <3>2 DEF TypeOK, FlagsOK, PlacesOK
  <2>4. Dying' /\ OpensAreClosed' /\ SessionHasSocket'
    BY <1>2 DEF WindowExpires, TypeOK, Dying, OpensAreClosed, SessionHasSocket, CloseOutstanding,
       HoldsShared, client, lifetime, libhv, mainpc, looppc, window, history
  <2>5. ConnectedIsRemembered' /\ ConnectedIsLive'
    BY <1>2 DEF WindowExpires, TypeOK, Dying, OpensAreClosed, ConnectedIsRemembered,
       ConnectedIsLive, CloseOutstanding, client, lifetime, libhv, mainpc, looppc, window, history
  <2>6. QuietDisconnect' /\ UnwatchedIsQuiet' /\ ReconnectIsWatched'
    BY <1>2 DEF WindowExpires, TypeOK, Dying, SessionHasSocket, QuietDisconnect, UnwatchedIsQuiet,
       ReconnectIsWatched, CloseOutstanding, HoldsShared, client, lifetime, libhv, mainpc, looppc,
       window, history
  <2> QED
    BY <2>1, <2>3, <2>4, <2>5, <2>6 DEF IInv
<1> QED
  BY <1>1, <1>2

-----------------------------------------------------------------------------
(* The connection: the theorems.                                           *)

\* Whatever the order of connects, disconnects, opens, closes, redials and
\* windows, what the client remembers of its session agrees with libhv's sockets.
THEOREM Invariance == Spec => []IInv
<1>1. IInv /\ UNCHANGED vars => IInv'
  BY DEF IInv, TypeOK, Dying, ClosesFit, OpensAreClosed, SessionHasSocket, ConnectedIsRemembered,
     ConnectedIsLive, QuietDisconnect, UnwatchedIsQuiet, ReconnectIsWatched, CloseOutstanding, HoldsShared,
     vars, client, lifetime, libhv, mainpc, looppc, window, history
<1>2. IInv /\ [Next]_vars => IInv'
  BY <1>1, MainHolds, CallbackHolds, LoopHolds, WindowHolds DEF Next, Loop
<1> QED
  BY <1>2, InitHolds, PTL DEF Spec

\* No CONNECTED without a socket, a close to come or a silence the client was told
\* to keep; no RECONNECTING without the timer that ends it.
THEOREM SessionsStayWatched == Spec => []SessionsAreWatched
<1>1. IInv => SessionsAreWatched
  BY DEF IInv, SessionsAreWatched, NoDeadSession, ConnectedIsLive
<1> QED
  BY <1>1, Invariance, PTL

\* The destructor never releases the client under a callback that is inside it.
THEOREM NoCallbackOutlivesTheClient == Spec => []CallbacksRunInALiveClient
<1>1. IInv => CallbacksRunInALiveClient
  BY DEF IInv, CallbacksRunInALiveClient, Dying
<1> QED
  BY <1>1, Invariance, PTL

-----------------------------------------------------------------------------
(* The switch flow: the inductive invariant.                               *)

\* Only known printers have finished their wizard, and what is in memory is in
\* the file unless a save failed.
Tidy(c) == c.done \subseteq c.printers

StoreInv == Tidy(config) /\ Tidy(disk) /\ (~unsaved => disk = config)

\* A restart leads to the configured printer; the frame below one goes on in a
\* session that is the configured printer's.
RestartInv ==
    /\ restart.kind \in {"switch", "wizard"} => restart.id = config.active /\ todo = NoRequest
    /\ restart.kind = "restore" => todo # NoRequest
    /\ restart.kind = "none" => restart = NoRestart
    /\ todo # NoRequest => ~m_cancel_restart_pending
    /\ todo # NoRequest /\ restart = NoRestart => m_connected_printer_id = config.active

\* A request that names a printer names one that the config c knows.
Known(r, c) == r.op # "wizard" => r.id \in c.printers

\* The connected printer was removed: a call that leads to another one waits,
\* and whichever call runs first does so, since no dialog and no wizard is up.
Orphaned ==
    /\ m_connected_printer_id \notin config.printers
    /\ ~wizard_container /\ m_confirm_dialog = NoPrinter
    /\ m_pending_request # NoRequest \/ queued # <<>>
    /\ m_pending_request # NoRequest => Known(m_pending_request, config)
    /\ \A i \in 1..Len(queued) : Known(queued[i].call, config)

SessionInv ==
    restart = NoRestart /\ ~m_cancel_restart_pending /\ ~unsaved
        => m_connected_printer_id = config.active \/ Orphaned

\* The way back belongs to a wizard that is shown, or whose restart is under
\* way, or whose rebuild failed.
RecoveryInv ==
    m_wizard_previous_printer_id # NoPrinter =>
        /\ m_wizard_previous_printer_id \in config.printers \ {config.active}
        /\ ~m_cancel_restart_pending /\ todo = NoRequest
        /\ restart = NoRestart => home = "error" \/ (wizard_container /\ cancel_callback)
        /\ restart # NoRestart => restart.kind = "wizard" /\ config.active \notin config.done

\* Where the flow is going, if nobody calls it again.
Target ==
    IF m_pending_request # NoRequest THEN m_pending_request.id
    ELSE IF todo \notin {NoRequest, TickFrame} THEN todo.id
    ELSE IF m_cancel_restart_pending \/ todo = TickFrame THEN config.active
    ELSE IF restart # NoRestart THEN restart.id
    ELSE m_connected_printer_id

LatestInv == wanted # NoPrinter => wanted = Target

FlowInv ==
    FlowTypeOK /\ StoreInv /\ RestartInv /\ SessionInv /\ RecoveryInv /\ LatestInv

-----------------------------------------------------------------------------
(* The switch flow: what a call that runs may do.                          *)

Frames == [keep : Requests \cup {NoRequest}, want : Ids]

\* The frame f in which r runs wants r's printer or nobody's, and keeps no
\* request but the one that waits.
FrameFits(r, f) ==
    f \in Frames /\ f.want \in {NoPrinter, r.id} /\ f.keep \in {NoRequest, m_pending_request}

\* Nothing begins: refused, superfluous, or not saved.  With the connected
\* printer gone only the save can fail.
Stays(r, f) ==
    /\ NotSaved(config) \/ (UNCHANGED store /\ ~(Orphaned /\ Known(r, config)))
    /\ \/ Ignore(NoPrinter, f)
       \/ r.id = m_connected_printer_id /\ Ignore(f.want, f)

\* The user is asked first.
Asks(r, f) ==
    /\ m_connected_printer_id \in config.printers
    /\ m_confirm_dialog' = r.id /\ r.id \in Printers
    /\ Expect(NoPrinter, f)
    /\ m_pending_request' = f.keep
    /\ NoRestartBegins
    /\ UNCHANGED <<store, m_wizard_previous_printer_id, m_wizard_active>>

Switches(r, f) ==
    /\ r.id \in config.printers
    /\ Saved([config EXCEPT !.active = r.id]) /\ unsaved' = FALSE
    /\ m_wizard_previous_printer_id' = NoPrinter
    /\ BeginRestart("switch", r.id)
    /\ m_pending_request' = f.keep
    /\ Expect(f.want, f)
    /\ UNCHANGED m_wizard_active

Adds(f) ==
    \E new \in Printers \ config.printers :
        /\ Saved([config EXCEPT !.printers = @ \cup {new}, !.active = new])
        /\ unsaved' = FALSE
        /\ m_wizard_previous_printer_id' = config.active
        /\ BeginRestart("wizard", new)
        /\ m_pending_request' = f.keep
        /\ Expect(new, f)
        /\ UNCHANGED m_wizard_active

Outcome(r, f) == Stays(r, f) \/ Asks(r, f) \/ Switches(r, f) \/ Adds(f)

\* A request names a printer exactly when it is not for the wizard.
LEMMA RequestParts ==
    ASSUME NEW r \in Requests
    PROVE  /\ r.op \in {"request", "switch", "wizard"} /\ r.id \in Ids
           /\ r.op # "wizard" => r.id \in Printers
           /\ r.op = "wizard" => r.id = NoPrinter
           /\ r # NoRequest /\ r # TickFrame
  BY SwitchAssumption DEF Requests, Ids, TickFrame

\* switch_printer() ends in one of the outcomes.
LEMMA SwitchOutcome ==
    ASSUME FlowTypeOK, NEW r \in Requests, r.op # "wizard", NEW f, FrameFits(r, f),
           SwitchPrinter(r.id, f)
    PROVE  Stays(r, f) \/ Switches(r, f)
<1>1. CASE m_confirm_dialog # NoPrinter \/ r.id \notin config.printers
  <2>1. Ignore(NoPrinter, f) /\ UNCHANGED store
    BY <1>1 DEF SwitchPrinter
  <2>2. ~(Orphaned /\ Known(r, config))
    BY <1>1 DEF Orphaned, Known
  <2> QED
    BY <2>1, <2>2 DEF Stays
<1>2. CASE m_confirm_dialog = NoPrinter /\ r.id \in config.printers
  BY <1>2 DEF SwitchPrinter, Stays, Switches, SetActive
<1> QED
  BY <1>1, <1>2

\* And so does every call, in its own frame or in one that keeps nothing.
LEMMA RunOutcome ==
    ASSUME FlowTypeOK, NEW r \in Requests, NEW f, FrameFits(r, f), Run(r, f)
    PROVE  \E g : FrameFits(r, g) /\ Outcome(r, g)
<1> DEFINE g == [f EXCEPT !.keep = NoRequest]
<1>1. FrameFits(r, g) /\ g.want = f.want
  BY DEF FrameFits, Frames
<1>2. CASE r.op = "request" /\ RequestSwitch(r.id, f)
  <2>1. CASE m_confirm_dialog # NoPrinter /\ Ignore(NoPrinter, f) /\ UNCHANGED store
    BY <2>1 DEF Outcome, Stays, Orphaned
  <2>2. CASE r.id = m_connected_printer_id /\ Ignore(f.want, f) /\ UNCHANGED store
    <3>1. ~(Orphaned /\ Known(r, config))
      BY <1>2, <2>2 DEF Orphaned, Known
    <3> QED
      BY <2>2, <3>1 DEF Outcome, Stays
  <2>3. CASE SwitchPrinter(r.id, g)
    <3>1. Stays(r, g) \/ Switches(r, g)
      BY <1>1, <1>2, <2>3, SwitchOutcome
    <3> QED
      BY <1>1, <3>1 DEF Outcome
  <2>4. CASE /\ m_connected_printer_id \in config.printers
             /\ m_confirm_dialog' = r.id
             /\ Expect(NoPrinter, f)
             /\ m_pending_request' = f.keep
             /\ NoRestartBegins
             /\ UNCHANGED <<store, m_wizard_previous_printer_id, m_wizard_active>>
    <3>1. r.id \in Printers
      BY <1>2, RequestParts
    <3> QED
      BY <2>4, <3>1 DEF Outcome, Asks
  <2> QED
    BY <1>2, <2>1, <2>2, <2>3, <2>4 DEF RequestSwitch
<1>3. CASE r.op = "switch" /\ SwitchPrinter(r.id, f)
  BY <1>3, SwitchOutcome DEF Outcome
<1>4. CASE r.op = "wizard" /\ AddPrinterViaWizard(f)
  <2>1. CASE config.printers = Printers /\ Ignore(NoPrinter, f) /\ UNCHANGED store
    <3>1. ~Orphaned
      BY <2>1 DEF Orphaned, FlowTypeOK
    <3> QED
      BY <2>1, <3>1 DEF Outcome, Stays
  <2>2. CASE Adds(f)
    BY <2>2 DEF Outcome
  <2>3. CASE NotSaved(config) /\ Ignore(NoPrinter, f)
    BY <2>3 DEF Outcome, Stays
  <2> QED
    BY <1>4, <2>1, <2>2, <2>3 DEF AddPrinterViaWizard, Adds
<1> QED
  BY <1>2, <1>3, <1>4 DEF Run

\* Where and when a call runs: no restart is under way or waits, and the frame
\* below ends with it.
RunsHere ==
    /\ restart = NoRestart /\ ~m_cancel_restart_pending
    /\ todo' = NoRequest /\ UNCHANGED <<m_cancel_restart_pending, queued>>
    /\ m_restart_tick_armed' \in BOOLEAN /\ calls' \in 0..MaxCalls

\* What the config may become stays well formed.
LEMMA Configurations ==
    ASSUME NEW c \in Configs, c.active \in c.printers, Tidy(c)
    PROVE  /\ \A p \in c.printers : LET d == [c EXCEPT !.active = p]
                                    IN  d \in Configs /\ d.active = p /\ d.printers = c.printers
                                        /\ d.done = c.done /\ Tidy(d)
           /\ \A p \in Printers : LET d == [c EXCEPT !.printers = @ \cup {p}, !.active = p]
                                  IN  d \in Configs /\ d.active = p /\ d.done = c.done /\ Tidy(d)
                                      /\ d.printers = c.printers \cup {p}
           /\ \A p \in c.printers : LET d == [c EXCEPT !.done = @ \cup {p}]
                                  IN  d \in Configs /\ d.active = c.active /\ Tidy(d)
                                      /\ d.printers = c.printers
  BY DEF Configs, Tidy

\* remove_printer() leaves a well-formed config with the other printers.
LEMMA Removal ==
    ASSUME NEW c \in Configs, c.active \in c.printers, Tidy(c), NEW p, NEW d \in RemovePrinter(c, p)
    PROVE  /\ d \in Configs /\ d.active \in d.printers /\ Tidy(d)
           /\ d = c \/ d.printers = c.printers \ {p}
           /\ c.active # p => d.active = c.active
           /\ \A q \in c.printers : q # p => q \in d.printers
           /\ Cardinality(c.printers) # 1 => p \notin d.printers
<1>1. CASE p \notin c.printers \/ Cardinality(c.printers) = 1
  BY <1>1 DEF RemovePrinter
<1>2. CASE ~(p \notin c.printers \/ Cardinality(c.printers) = 1)
  <2>1. PICK q \in IF c.active = p THEN c.printers \ {p} ELSE {c.active} :
            d = [printers |-> c.printers \ {p}, done |-> c.done \cap (c.printers \ {p}),
                 active |-> q]
    BY <1>2 DEF RemovePrinter
  <2>2. q \in c.printers \ {p}
    BY <2>1
  <2> QED
    BY <2>1, <2>2 DEF Configs, Tidy
<1> QED
  BY <1>1, <1>2

\* A call that runs keeps the invariant, one conjunct at a time: the types and
\* the files ...
LEMMA RunTypes ==
    ASSUME FlowInv, NEW r \in Requests, NEW f, FrameFits(r, f), Outcome(r, f), RunsHere
    PROVE  FlowTypeOK' /\ StoreInv'
<1> USE DEF FlowInv
<1>1. /\ config \in Configs /\ config.active \in config.printers /\ Tidy(config)
      /\ config.printers \subseteq Printers
  BY DEF FlowTypeOK, StoreInv, Configs
<1>2. f.keep \in Requests \cup {NoRequest} /\ f.want \in Ids /\ r.id \in Ids
  BY RequestParts DEF FrameFits, Frames
<1>3. CASE Stays(r, f) \/ Asks(r, f)
  <2>1. (UNCHANGED store \/ NotSaved(config)) /\ NoRestartBegins
    BY <1>3 DEF Stays, Asks, Ignore
  <2>2. /\ m_confirm_dialog' \in Ids /\ wanted' \in Ids
        /\ m_pending_request' = f.keep /\ UNCHANGED m_wizard_previous_printer_id
        /\ UNCHANGED m_wizard_active
    BY <1>2, <1>3 DEF Stays, Asks, Ignore, Expect, FlowTypeOK, Ids
  <2>3. StoreInv'
    BY <2>1 DEF StoreInv, NotSaved, store
  <2>4. config' \in Configs /\ disk' \in Configs /\ config'.active \in config'.printers
        /\ disk'.active \in disk'.printers /\ unsaved' \in BOOLEAN
    BY <2>1 DEF FlowTypeOK, NotSaved, store
  <2> QED
    BY <1>2, <2>1, <2>2, <2>3, <2>4 DEF FlowTypeOK, RunsHere, NoRestartBegins, link
<1>4. CASE Switches(r, f)
  <2>1. /\ config' \in Configs /\ config'.active \in config'.printers /\ Tidy(config')
        /\ disk' = config' /\ unsaved' = FALSE
    BY <1>1, <1>4, Configurations DEF Switches, Saved
  <2>2. StoreInv'
    BY <2>1 DEF StoreInv
  <2>3. restart' \in [kind : {"none", "switch", "wizard", "restore"}, id : Ids]
    BY <1>2, <1>4 DEF Switches, BeginRestart
  <2>4. /\ m_wizard_previous_printer_id' \in Ids /\ m_confirm_dialog' \in Ids /\ wanted' \in Ids
        /\ m_pending_request' = f.keep
    BY <1>2, <1>4 DEF Switches, BeginRestart, Expect, FlowTypeOK, Ids
  <2> QED
    BY <1>2, <1>4, <2>1, <2>2, <2>3, <2>4 DEF FlowTypeOK, RunsHere, Switches, BeginRestart, link
<1>5. CASE Adds(f)
  <2> PICK new \in Printers \ config.printers :
        /\ Saved([config EXCEPT !.printers = @ \cup {new}, !.active = new])
        /\ unsaved' = FALSE
        /\ m_wizard_previous_printer_id' = config.active
        /\ BeginRestart("wizard", new)
        /\ m_pending_request' = f.keep
        /\ Expect(new, f)
        /\ UNCHANGED m_wizard_active
    BY <1>5 DEF Adds
  <2> DEFINE d == [config EXCEPT !.printers = @ \cup {new}, !.active = new]
  <2>5. d \in Configs /\ d.active = new /\ d.printers = config.printers \cup {new} /\ Tidy(d)
    <3> HIDE DEF FlowInv
    <3> QED
      BY <1>1 DEF Configs, Tidy
  <2>6. config' = d /\ disk' = d
    BY DEF Saved
  <2> HIDE DEF d
  <2>1. /\ config' \in Configs /\ config'.active \in config'.printers /\ Tidy(config')
        /\ disk' = config' /\ unsaved' = FALSE
    BY <2>5, <2>6
  <2>2. StoreInv'
    BY <2>1 DEF StoreInv
  <2>3. restart' \in [kind : {"none", "switch", "wizard", "restore"}, id : Ids]
    BY DEF BeginRestart, Ids
  <2>4. /\ m_wizard_previous_printer_id' \in Ids /\ m_confirm_dialog' \in Ids /\ wanted' \in Ids
    BY <1>1 DEF BeginRestart, Expect, FlowTypeOK, Ids
  <2> QED
    BY <1>2, <2>1, <2>2, <2>3, <2>4 DEF FlowTypeOK, RunsHere, BeginRestart, link
<1> QED
  BY <1>3, <1>4, <1>5 DEF Outcome

\* ... what the session is and where a restart leads ...
LEMMA RunSession ==
    ASSUME FlowInv, NEW r \in Requests, NEW f, FrameFits(r, f), Outcome(r, f), RunsHere,
           Orphaned => Known(r, config)
    PROVE  RestartInv' /\ SessionInv'
<1> USE DEF FlowInv
<1>1. CASE Stays(r, f) \/ Asks(r, f)
  <2>1. /\ NotSaved(config) \/ (UNCHANGED store /\ ~Orphaned)
        /\ UNCHANGED <<m_connected_printer_id, restart>>
    BY <1>1 DEF Stays, Asks, Ignore, NoRestartBegins, link, Orphaned
  <2>2. RestartInv'
    BY <2>1 DEF RestartInv, RunsHere, NoRestart
  <2>3. SessionInv'
    BY <2>1 DEF SessionInv, RunsHere, NotSaved, store
  <2> QED
    BY <2>2, <2>3
<1>2. CASE Switches(r, f)
  <2>1. restart' = [kind |-> "switch", id |-> r.id] /\ config'.active = r.id
    BY <1>2 DEF Switches, BeginRestart, Saved, FlowTypeOK, Configs
  <2> QED
    BY <2>1 DEF RestartInv, SessionInv, RunsHere, NoRestart
<1>3. CASE Adds(f)
  <2>1. PICK new \in Printers :
          restart' = [kind |-> "wizard", id |-> new] /\ config'.active = new
    BY <1>3 DEF Adds, BeginRestart, Saved, FlowTypeOK, Configs
  <2> QED
    BY <2>1 DEF RestartInv, SessionInv, RunsHere, NoRestart
<1> QED
  BY <1>1, <1>2, <1>3 DEF Outcome

\* ... the way back from a wizard ...
LEMMA RunRecovery ==
    ASSUME FlowInv, NEW r \in Requests, NEW f, FrameFits(r, f), Outcome(r, f), RunsHere
    PROVE  RecoveryInv'
<1> USE DEF FlowInv
<1>1. CASE Stays(r, f) \/ Asks(r, f)
  <2>1. /\ UNCHANGED config /\ NoRestartBegins /\ UNCHANGED m_wizard_previous_printer_id
    BY <1>1 DEF Stays, Asks, Ignore, NotSaved, store
  <2> QED
    BY <2>1 DEF RecoveryInv, RunsHere, NoRestartBegins
<1>2. CASE Switches(r, f)
  BY <1>2 DEF Switches, RecoveryInv
<1>3. CASE Adds(f)
  <2>1. PICK new \in Printers \ config.printers :
          /\ restart' = [kind |-> "wizard", id |-> new]
          /\ config' = [config EXCEPT !.printers = @ \cup {new}, !.active = new]
          /\ m_wizard_previous_printer_id' = config.active
    BY <1>3 DEF Adds, BeginRestart, Saved
  <2>2. config'.active = new /\ config'.printers = config.printers \cup {new}
        /\ config'.done = config.done
    BY <2>1 DEF FlowTypeOK, Configs
  <2>3. new \notin config.done /\ config.active \in config.printers
    BY <2>1 DEF StoreInv, Tidy, FlowTypeOK
  <2> QED
    BY <2>1, <2>2, <2>3 DEF RecoveryInv, RunsHere, NoRestart
<1> QED
  BY <1>1, <1>2, <1>3 DEF Outcome

\* ... and which call decides.
LEMMA RunLatest ==
    ASSUME FlowInv, NEW r \in Requests, NEW f, FrameFits(r, f), Outcome(r, f), RunsHere
    PROVE  LatestInv'
<1> USE DEF FlowInv
<1>1. m_pending_request' = f.keep
  BY DEF Outcome, Stays, Asks, Switches, Adds, Ignore
<1>2. CASE f.keep # NoRequest
  <2>1. wanted' = wanted /\ f.keep = m_pending_request
    BY <1>2 DEF Outcome, Stays, Asks, Switches, Adds, Ignore, Expect, FrameFits
  <2> QED
    BY <1>1, <1>2, <2>1 DEF LatestInv, Target
<1>3. CASE f.keep = NoRequest
  <2>1. Target' = IF restart' # NoRestart THEN restart'.id ELSE m_connected_printer_id'
    BY <1>1, <1>3, SwitchAssumption DEF Target, RunsHere
  <2>2. CASE Stays(r, f) \/ Asks(r, f)
    <3>1. /\ wanted' = NoPrinter \/ (wanted' = f.want /\ r.id = m_connected_printer_id)
          /\ UNCHANGED <<restart, m_connected_printer_id>>
      BY <1>3, <2>2 DEF Stays, Asks, Ignore, Expect, NoRestartBegins, link
    <3> QED
      BY <2>1, <3>1 DEF LatestInv, RunsHere, FrameFits
  <2>3. CASE Switches(r, f)
    BY <1>3, <2>1, <2>3 DEF LatestInv, Switches, BeginRestart, Expect, FrameFits, NoRestart
  <2>4. CASE Adds(f)
    BY <1>3, <2>1, <2>4 DEF LatestInv, Adds, BeginRestart, Expect, NoRestart
  <2> QED
    BY <2>2, <2>3, <2>4 DEF Outcome
<1> QED
  BY <1>2, <1>3

\* A call that runs, from wherever it came, keeps the invariant.
LEMMA RunKeepsInvariant ==
    ASSUME FlowInv, NEW r \in Requests, NEW f, FrameFits(r, f), Run(r, f), RunsHere,
           Orphaned => Known(r, config)
    PROVE  FlowInv'
<1>1. PICK g : FrameFits(r, g) /\ Outcome(r, g)
  BY RunOutcome DEF FlowInv
<1> QED
  BY <1>1, RunTypes, RunSession, RunRecovery, RunLatest DEF FlowInv

-----------------------------------------------------------------------------
(* The switch flow: the invariant, one action at a time.                   *)

\* A cancelled wizard's restart, which the frame below it waits for.
LEMMA RestoreKeepsInvariant ==
    ASSUME FlowInv, Idle, m_cancel_restart_pending, RestartOntoRestored,
           m_restart_tick_armed' \in {m_restart_tick_armed, FALSE}, UNCHANGED queued,
           calls' \in 0..MaxCalls,
           \/ todo' = TickFrame /\ UNCHANGED <<m_pending_request, wanted>>
           \/ todo' \in Requests /\ m_pending_request' = NoRequest /\ wanted' = todo'.id
    PROVE  FlowInv'
<1> USE DEF FlowInv
<1>1. m_wizard_previous_printer_id = NoPrinter
  BY DEF RecoveryInv
<1>2. /\ restart' = [kind |-> "restore", id |-> NoPrinter]
      /\ m_wizard_previous_printer_id' = NoPrinter
      /\ m_cancel_restart_pending' = FALSE /\ UNCHANGED store
  BY <1>1 DEF RestartOntoRestored, BeginRestart
<1>3. todo' # NoRequest /\ todo' \in Requests \cup {TickFrame}
  BY SwitchAssumption
<1>4. FlowTypeOK'
  <2>1. restart' \in [kind : {"none", "switch", "wizard", "restore"}, id : Ids]
    BY <1>2 DEF Ids
  <2>2. wanted' \in Ids /\ m_pending_request' \in Requests \cup {NoRequest}
    BY RequestParts DEF FlowTypeOK
  <2>3. UNCHANGED <<config, disk, unsaved, m_connected_printer_id, live, printing>>
    BY <1>2 DEF RestartOntoRestored, BeginRestart, store, link
  <2>4. /\ m_confirm_dialog' = NoPrinter /\ cancel_callback' = FALSE /\ wizard_container' = FALSE
        /\ home' = "none" /\ m_wizard_active' = FALSE
    BY DEF RestartOntoRestored, BeginRestart
  <2> QED
    BY <1>2, <1>3, <2>1, <2>2, <2>3, <2>4 DEF FlowTypeOK, Ids
<1>5. StoreInv'
  BY <1>2 DEF StoreInv, store
<1>6. RestartInv' /\ SessionInv' /\ RecoveryInv'
  BY <1>2, <1>3 DEF RestartInv, SessionInv, RecoveryInv, NoRestart
<1>7. LatestInv'
  <2>1. CASE todo' = TickFrame /\ UNCHANGED <<m_pending_request, wanted>>
    BY <1>2, <2>1 DEF LatestInv, Target, Idle, store
  <2>2. CASE todo' \in Requests /\ m_pending_request' = NoRequest /\ wanted' = todo'.id
    BY <1>3, <2>2, RequestParts DEF LatestInv, Target
  <2> QED
    BY <2>1, <2>2
<1> QED
  BY <1>4, <1>5, <1>6, <1>7

\* A call made in place.
LEMMA CallKeepsInvariant ==
    ASSUME FlowInv, NEW r \in Requests, CallInPlace(r)
    PROVE  FlowInv'
<1>1. Idle /\ calls' \in 0..MaxCalls
  BY SwitchAssumption DEF CallInPlace, ControlsShown, FlowInv, FlowTypeOK
<1>2. CASE m_cancel_restart_pending
  BY <1>1, <1>2, RestoreKeepsInvariant DEF CallInPlace
<1>3. CASE ~m_cancel_restart_pending
  <2>1. /\ Run(r, InPlace(r))
        /\ UNCHANGED <<todo, m_cancel_restart_pending, m_restart_tick_armed, queued>>
    BY <1>3 DEF CallInPlace
  <2>2. FrameFits(r, InPlace(r))
    BY RequestParts DEF FrameFits, Frames, InPlace
  <2>3. Known(r, config)
    BY RequestParts, SwitchAssumption DEF CallInPlace, UserRequests, KeyRequests, Known
  <2>4. RunsHere
    BY <1>1, <1>3, <2>1 DEF RunsHere, Idle, FlowInv, FlowTypeOK
  <2> QED
    BY <2>1, <2>2, <2>3, <2>4, RunKeepsInvariant
<1> QED
  BY <1>2, <1>3 DEF FlowInv, FlowTypeOK

\* A call that waits, in the queue or for the tick.
LEMMA QueueCallKeepsInvariant ==
    ASSUME FlowInv, NEW r \in Requests, QueueCall(r)
    PROVE  FlowInv'
<1> USE DEF FlowInv
<1>1. /\ queued' = Append(queued, ListCall(r)) /\ queued \in Seq(ListCalls)
      /\ calls' \in 0..MaxCalls
      /\ UNCHANGED <<store, link, m_confirm_dialog, m_wizard_previous_printer_id,
                     m_pending_request, waiting, restart, todo, wizard, home, wanted>>
  BY SwitchAssumption DEF QueueCall, FlowTypeOK
<1>2. Known(r, config)
  BY RequestParts, SwitchAssumption DEF QueueCall, UserRequests, Known
<1>3. FlowTypeOK'
  <2>1. ListCall(r) \in ListCalls
    BY DEF ListCall, ListCalls
  <2>2. queued' \in Seq(ListCalls)
    BY <1>1, <2>1
  <2> QED
    BY <1>1, <2>2 DEF FlowTypeOK, store, link, wizard, waiting
<1>4. StoreInv' /\ RestartInv' /\ RecoveryInv' /\ LatestInv'
  BY <1>1 DEF StoreInv, RestartInv, RecoveryInv, LatestInv, Target, store, link, wizard, waiting
<1>5. Orphaned => Orphaned'
  <2> SUFFICES ASSUME Orphaned PROVE Orphaned'
    OBVIOUS
  <2>1. /\ queued' # <<>>
        /\ \A i \in 1..Len(queued') :
               queued'[i].call = r \/ \E j \in 1..Len(queued) : queued'[i] = queued[j]
    BY <1>1 DEF ListCall
  <2>2. UNCHANGED <<config, m_connected_printer_id, wizard_container, m_confirm_dialog,
                    m_pending_request>>
    BY <1>1 DEF store, link, wizard
  <2>3. \A q : Known(q, config) => Known(q, config')
    BY <2>2 DEF Known
  <2>4. \A i \in 1..Len(queued') : Known(queued'[i].call, config')
    BY <1>2, <2>1, <2>3 DEF Orphaned
  <2> QED
    BY <2>1, <2>2, <2>3, <2>4 DEF Orphaned, Known
<1>6. SessionInv'
  BY <1>1, <1>5 DEF SessionInv, store, link, waiting
<1> QED
  BY <1>3, <1>4, <1>5, <1>6

\* Posting a request, with nothing else of the flow's state changed.
LEMMA PostKeepsInvariant ==
    ASSUME FlowInv, NEW r \in Requests, PostRequest(r), Orphaned => Known(r, config),
           queued' \in Seq(ListCalls),
           \A i \in 1..Len(queued') : \E j \in 1..Len(queued) : queued'[i] = queued[j],
           m_confirm_dialog' \in {m_confirm_dialog, NoPrinter},
           UNCHANGED <<store, link, m_wizard_previous_printer_id, restart, todo, wizard, home,
                       calls>>
    PROVE  FlowInv'
<1> USE DEF FlowInv
<1>1. /\ m_pending_request' = r /\ wanted' = r.id /\ m_restart_tick_armed' = TRUE
      /\ UNCHANGED m_cancel_restart_pending
  BY DEF PostRequest
<1>2. r # NoRequest /\ r.id \in Ids
  BY RequestParts
<1>3. FlowTypeOK'
  BY <1>1, <1>2 DEF FlowTypeOK, store, link, wizard, Ids
<1>4. StoreInv' /\ RestartInv' /\ RecoveryInv' /\ LatestInv'
  BY <1>1, <1>2 DEF StoreInv, RestartInv, RecoveryInv, LatestInv, Target, store, link, wizard
<1>5. Orphaned => Orphaned'
  <2> SUFFICES ASSUME Orphaned PROVE Orphaned'
    OBVIOUS
  <2>1. UNCHANGED <<config, m_connected_printer_id, wizard_container>> /\ m_confirm_dialog' = NoPrinter
    BY DEF store, link, wizard, Orphaned
  <2>2. \A q : Known(q, config) => Known(q, config')
    BY <2>1 DEF Known
  <2>3. \A i \in 1..Len(queued') : Known(queued'[i].call, config')
    BY <2>2 DEF Orphaned
  <2>4. Known(m_pending_request', config')
    BY <1>1, <2>2
  <2> QED
    BY <1>1, <1>2, <2>1, <2>3, <2>4 DEF Orphaned, Known
<1>6. SessionInv'
  BY <1>1, <1>5 DEF SessionInv, store, link
<1> QED
  BY <1>3, <1>4, <1>6

\* A list call takes its first hop, or is lost to a restart, with nothing else
\* of the flow's state changed.
LEMMA HopKeepsInvariant ==
    ASSUME FlowInv, queued' \in Seq(ListCalls),
           queued' # <<>> \/ restart # NoRestart,
           \A i \in 1..Len(queued') :
               \E j \in 1..Len(queued) : queued'[i].call = queued[j].call,
           UNCHANGED <<store, link, m_confirm_dialog, m_wizard_previous_printer_id,
                       m_pending_request, waiting, restart, todo, wizard, home, calls, wanted>>
    PROVE  FlowInv'
<1> USE DEF FlowInv
<1>1. FlowTypeOK'
  BY DEF FlowTypeOK, store, link, wizard, waiting
<1>2. StoreInv' /\ RestartInv' /\ RecoveryInv' /\ LatestInv'
  BY DEF StoreInv, RestartInv, RecoveryInv, LatestInv, Target, store, link, wizard, waiting
<1>3. SessionInv'
  <2>1. CASE restart # NoRestart
    BY <2>1 DEF SessionInv
  <2>2. CASE queued' # <<>>
    <3>1. ASSUME Orphaned PROVE Orphaned'
      <4>1. UNCHANGED <<config, m_connected_printer_id, wizard_container, m_confirm_dialog,
                        m_pending_request>>
        BY DEF store, link, wizard
      <4>2. \A q : Known(q, config) => Known(q, config')
        BY <4>1 DEF Known
      <4>3. \A i \in 1..Len(queued') : Known(queued'[i].call, config')
        BY <3>1, <4>2 DEF Orphaned
      <4> QED
        BY <2>2, <3>1, <4>1, <4>3 DEF Orphaned, Known
    <3> QED
      BY <3>1 DEF SessionInv, store, link, waiting
  <2> QED
    BY <2>1, <2>2
<1> QED
  BY <1>1, <1>2, <1>3

\* The queue hands a call on to its next hop or to the tick, or drops it.
LEMMA DrainKeepsInvariant ==
    ASSUME FlowInv, Drain
    PROVE  FlowInv'
<1> DEFINE first == Head(queued)
           next == [first EXCEPT !.hop = "call"]
<1>1. queued \in Seq(ListCalls) /\ queued # <<>>
  BY DEF FlowInv, FlowTypeOK, Drain
<1>2. 1 \in 1..Len(queued) /\ first = queued[1] /\ first \in ListCalls
  BY <1>1
<1>3. first.call \in Requests /\ next \in ListCalls /\ next.call = first.call
  BY <1>2 DEF ListCalls
<1>4. /\ Tail(queued) \in Seq(ListCalls)
      /\ \A i \in 1..Len(Tail(queued)) :
             i + 1 \in 1..Len(queued) /\ Tail(queued)[i] = queued[i + 1]
  BY <1>1
<1>5. \/ Idle /\ first.hop = "close" /\ queued' = Append(Tail(queued), next)
         /\ UNCHANGED <<m_pending_request, waiting, wanted>>
      \/ Idle /\ queued' = Tail(queued) /\ PostRequest(first.call)
      \/ restart # NoRestart /\ queued' = Tail(queued)
         /\ UNCHANGED <<m_pending_request, waiting, wanted>>
  BY DEF Drain
<1>6. UNCHANGED <<store, link, m_confirm_dialog, m_wizard_previous_printer_id, restart, todo,
                  wizard, home, calls>>
  BY DEF Drain
<1> HIDE DEF next, first
<1>7. CASE queued' = Append(Tail(queued), next) /\ UNCHANGED <<m_pending_request, waiting, wanted>>
  <2>1. queued' \in Seq(ListCalls) /\ queued' # <<>>
    BY <1>3, <1>4, <1>7
  <2>2. \A i \in 1..Len(queued') :
            queued'[i] = next \/ (i \in 1..Len(Tail(queued)) /\ queued'[i] = Tail(queued)[i])
    BY <1>3, <1>4, <1>7
  <2>3. \A i \in 1..Len(queued') : \E j \in 1..Len(queued) : queued'[i].call = queued[j].call
    BY <1>2, <1>3, <1>4, <2>2
  <2> QED
    BY <1>6, <1>7, <2>1, <2>3, HopKeepsInvariant
<1>8. CASE queued' = Tail(queued) /\ PostRequest(first.call)
  <2>1. Orphaned => Known(first.call, config)
    BY <1>2 DEF Orphaned
  <2>2. \A i \in 1..Len(queued') : \E j \in 1..Len(queued) : queued'[i] = queued[j]
    BY <1>4, <1>8
  <2> QED
    BY <1>3, <1>4, <1>6, <1>8, <2>1, <2>2, PostKeepsInvariant
<1>9. CASE /\ restart # NoRestart /\ queued' = Tail(queued)
           /\ UNCHANGED <<m_pending_request, waiting, wanted>>
  <2>1. \A i \in 1..Len(queued') : \E j \in 1..Len(queued) : queued'[i].call = queued[j].call
    BY <1>4, <1>9
  <2> QED
    BY <1>4, <1>6, <1>9, <2>1, HopKeepsInvariant
<1> QED
  BY <1>5, <1>7, <1>8, <1>9

\* run_waiting_restarts()
LEMMA TickKeepsInvariant ==
    ASSUME FlowInv, Tick
    PROVE  FlowInv'
<1> USE DEF FlowInv
<1>1. Idle /\ UNCHANGED <<queued, calls>> /\ m_restart_tick_armed' = FALSE /\ calls \in 0..MaxCalls
  BY DEF Tick, FlowTypeOK
<1>2. CASE m_cancel_restart_pending
  BY <1>1, <1>2, RestoreKeepsInvariant DEF Tick
<1>3. CASE ~m_cancel_restart_pending
  <2>1. RunPending /\ UNCHANGED <<m_cancel_restart_pending, todo>>
    BY <1>3 DEF Tick
  <2>2. CASE m_pending_request = NoRequest
    <3>1. UNCHANGED <<store, link, m_confirm_dialog, m_wizard_previous_printer_id,
                      m_pending_request, restart, wizard, home, wanted>>
      BY <2>1, <2>2 DEF RunPending
    <3>2. FlowTypeOK'
      <4>1. m_restart_tick_armed' \in BOOLEAN /\ calls' \in 0..MaxCalls
        BY <1>1
      <4> HIDE DEF FlowInv
      <4> QED
        BY <1>1, <2>1, <3>1, <4>1 DEF FlowInv, FlowTypeOK, store, link, wizard
    <3>3. StoreInv' /\ RestartInv' /\ RecoveryInv' /\ LatestInv'
      BY <1>1, <2>1, <3>1 DEF StoreInv, RestartInv, RecoveryInv, LatestInv, Target, store, link, wizard
    <3>4. SessionInv'
      BY <1>1, <2>1, <3>1 DEF SessionInv, Orphaned, Known, store, link, wizard
    <3> QED
      BY <3>2, <3>3, <3>4
  <2>3. CASE m_pending_request # NoRequest
    <3>1. m_pending_request \in Requests /\ Run(m_pending_request, AtTick)
      BY <2>1, <2>3 DEF RunPending, FlowTypeOK
    <3>2. wanted \in {NoPrinter, m_pending_request.id}
      BY <2>3 DEF LatestInv, Target
    <3>3. FrameFits(m_pending_request, AtTick)
      BY <3>1, <3>2 DEF FrameFits, Frames, AtTick, FlowTypeOK
    <3>4. Orphaned => Known(m_pending_request, config)
      BY <2>3 DEF Orphaned
    <3>5. RunsHere
      BY <1>1, <1>3, <2>1 DEF RunsHere, Idle
    <3> QED
      BY <3>1, <3>3, <3>4, <3>5, RunKeepsInvariant
  <2> QED
    BY <2>2, <2>3
<1> QED
  BY <1>2, <1>3 DEF FlowTypeOK

\* The frame below a restart goes on.
LEMMA ResumeKeepsInvariant ==
    ASSUME FlowInv, Resume
    PROVE  FlowInv'
<1> USE DEF FlowInv
<1>1. /\ todo # NoRequest /\ restart = NoRestart /\ todo' = NoRequest
      /\ UNCHANGED <<waiting, queued, calls>>
  BY DEF Resume
<1>2. ~m_cancel_restart_pending /\ m_connected_printer_id = config.active
  BY <1>1 DEF RestartInv
<1>3. ~Orphaned
  BY <1>2 DEF Orphaned, FlowTypeOK
<1>4. RunsHere
  BY <1>1, <1>2 DEF RunsHere, waiting, FlowTypeOK
<1>5. CASE todo = TickFrame /\ RunPending /\ m_pending_request = NoRequest
  <2>1. UNCHANGED <<store, link, m_confirm_dialog, m_wizard_previous_printer_id,
                    m_pending_request, restart, wizard, home, wanted>>
    BY <1>5 DEF RunPending
  <2>2. FlowTypeOK'
    BY <1>1, <2>1 DEF FlowTypeOK, store, link, wizard, waiting
  <2>3. StoreInv' /\ RestartInv'
    BY <1>1, <2>1 DEF StoreInv, RestartInv, NoRestart, store, link, wizard, waiting
  <2>4. RecoveryInv'
    BY <1>1, <2>1 DEF RecoveryInv, store, link, wizard, waiting
  <2>5. SessionInv'
    BY <1>2, <2>1 DEF SessionInv, store, link
  <2>6. LatestInv'
    <3>1. wanted # NoPrinter => wanted = config.active
      BY <1>5 DEF LatestInv, Target
    <3>2. Target' = m_connected_printer_id'
      BY <1>1, <1>2, <1>5, <2>1, SwitchAssumption DEF Target, waiting
    <3> QED
      BY <1>2, <2>1, <3>1, <3>2 DEF LatestInv, link
  <2> QED
    BY <2>2, <2>3, <2>4, <2>5, <2>6
<1>6. CASE todo = TickFrame /\ RunPending /\ m_pending_request # NoRequest
  <2>1. m_pending_request \in Requests /\ Run(m_pending_request, AtTick)
    BY <1>6 DEF RunPending, FlowTypeOK
  <2>2. wanted \in {NoPrinter, m_pending_request.id}
    BY <1>6 DEF LatestInv, Target
  <2>3. FrameFits(m_pending_request, AtTick)
    BY <2>1, <2>2 DEF FrameFits, Frames, AtTick, FlowTypeOK
  <2> QED
    BY <1>3, <1>4, <2>1, <2>3, RunKeepsInvariant
<1>7. CASE todo # TickFrame /\ Run(todo, [InPlace(todo) EXCEPT !.keep = m_pending_request])
  <2> DEFINE f == [InPlace(todo) EXCEPT !.keep = m_pending_request]
  <2>1. todo \in Requests
    BY <1>1, <1>7 DEF FlowTypeOK
  <2>2. FrameFits(todo, f)
    BY <2>1, RequestParts DEF FrameFits, Frames, InPlace, FlowTypeOK
  <2> QED
    BY <1>3, <1>4, <1>7, <2>1, <2>2, RunKeepsInvariant
<1> QED
  BY <1>5, <1>6, <1>7 DEF Resume

\* rebuild() connects the configured printer, whatever the restart was for.
LEMMA FinishKeepsInvariant ==
    ASSUME FlowInv, FinishRestart
    PROVE  FlowInv'
<1> USE DEF FlowInv
<1>1. /\ restart # NoRestart /\ restart' = NoRestart
      /\ cancel_callback' = (restart.kind = "wizard")
      /\ UNCHANGED <<store, m_confirm_dialog, m_wizard_previous_printer_id, m_pending_request,
                     waiting, queued, todo, calls, wanted>>
  BY DEF FinishRestart
<1>2. m_connected_printer_id' = config.active
  BY <1>1 DEF FinishRestart, RestartInv, FlowTypeOK
<1>3. /\ live' \in BOOLEAN /\ printing' \in BOOLEAN /\ wizard_container' \in BOOLEAN
      /\ m_wizard_active' \in BOOLEAN /\ home' \in {"none", "built", "error"}
      /\ home' = "error" \/ wizard_container' = (config.active \notin config.done)
  BY DEF FinishRestart, FlowTypeOK
<1>4. FlowTypeOK'
  <2>1. m_connected_printer_id' \in Printers
    BY <1>2 DEF FlowTypeOK, Configs
  <2>2. restart' \in [kind : {"none", "switch", "wizard", "restore"}, id : Ids]
    BY <1>1 DEF NoRestart, Ids
  <2>3. cancel_callback' \in BOOLEAN
    BY <1>1
  <2> QED
    BY <1>1, <1>3, <2>1, <2>2, <2>3 DEF FlowTypeOK, store, waiting
<1>5. StoreInv' /\ RestartInv'
  BY <1>1, <1>2 DEF StoreInv, RestartInv, NoRestart, store, waiting
<1>6. SessionInv'
  BY <1>1, <1>2 DEF SessionInv, store
<1>7. RecoveryInv'
  BY <1>1, <1>3 DEF RecoveryInv, store, waiting
<1>8. LatestInv'
  BY <1>1, <1>2 DEF LatestInv, Target, RestartInv, FlowTypeOK, NoRestart, store, waiting
<1> QED
  BY <1>4, <1>5, <1>6, <1>7, <1>8

\* The user answers the dialog, or it goes.
LEMMA DialogKeepsInvariant ==
    ASSUME FlowInv, ConfirmSwitch \/ DismissDialog
    PROVE  FlowInv'
<1> USE DEF FlowInv
<1>1. /\ m_confirm_dialog # NoPrinter /\ m_confirm_dialog' = NoPrinter /\ ~Orphaned
      /\ UNCHANGED <<store, link, m_wizard_previous_printer_id, queued, restart, todo, wizard,
                     home, calls>>
  BY DEF ConfirmSwitch, DismissDialog, Orphaned
<1>2. CASE ConfirmSwitch
  <2> DEFINE r == [op |-> "switch", id |-> m_confirm_dialog]
  <2>1. r \in Requests
    BY <1>1 DEF FlowTypeOK, Ids, Requests
  <2>2. queued' \in Seq(ListCalls) /\ \A i \in 1..Len(queued') : \E j \in 1..Len(queued) : queued'[i] = queued[j]
    BY <1>1 DEF FlowTypeOK
  <2>3. PostRequest(r)
    BY <1>2 DEF ConfirmSwitch
  <2> HIDE DEF r
  <2> QED
    BY <1>1, <2>1, <2>2, <2>3, PostKeepsInvariant
<1>3. CASE DismissDialog
  <2>1. UNCHANGED <<m_pending_request, waiting, wanted>>
    BY <1>3 DEF DismissDialog
  <2>2. FlowTypeOK'
    BY <1>1, <2>1 DEF FlowTypeOK, store, link, wizard, waiting, Ids
  <2>3. StoreInv' /\ RestartInv' /\ RecoveryInv' /\ LatestInv'
    BY <1>1, <2>1 DEF StoreInv, RestartInv, RecoveryInv, LatestInv, Target, store, link, wizard, waiting
  <2>4. SessionInv'
    BY <1>1, <2>1 DEF SessionInv, store, link, waiting
  <2> QED
    BY <2>2, <2>3, <2>4
<1> QED
  BY <1>2, <1>3

\* The wizard is cancelled: the config is restored now, its restart waits.
LEMMA CancelKeepsInvariant ==
    ASSUME FlowInv, CancelWizard
    PROVE  FlowInv'
<1> USE DEF FlowInv
<1>1. /\ Idle
      /\ m_wizard_previous_printer_id \in config.printers \ {config.active}
      /\ m_wizard_previous_printer_id' = NoPrinter /\ m_pending_request' = NoRequest
      /\ m_cancel_restart_pending' = TRUE /\ m_restart_tick_armed' = TRUE
      /\ UNCHANGED <<link, m_confirm_dialog, queued, restart, todo, wizard, home, calls>>
  BY DEF CancelWizard, RecoveryInv
<1>2. PICK c \in RemovePrinter(config, config.active) :
         /\ SavedOrNot(SetActive(c, m_wizard_previous_printer_id))
         /\ wanted' = SetActive(c, m_wizard_previous_printer_id).active
  BY DEF CancelWizard
<1>3. /\ c \in Configs /\ Tidy(c) /\ m_wizard_previous_printer_id \in c.printers
      /\ c.active \in c.printers
  BY <1>1, Removal DEF StoreInv, FlowTypeOK
<1> DEFINE d == SetActive(c, m_wizard_previous_printer_id)
<1>4. d \in Configs /\ Tidy(d) /\ d.active \in d.printers /\ d.active \in Printers
  BY <1>3, Configurations DEF SetActive, Configs
<1> HIDE DEF d
<1>5. /\ config' = d /\ wanted' = d.active
      /\ (disk' = d /\ unsaved' = unsaved) \/ (disk' = disk /\ unsaved' = TRUE)
  BY <1>2 DEF d, SavedOrNot, Saved, NotSaved
<1>6. FlowTypeOK'
  <2>1. disk' \in Configs /\ disk'.active \in disk'.printers /\ unsaved' \in BOOLEAN
    BY <1>4, <1>5 DEF FlowTypeOK
  <2> QED
    BY <1>1, <1>4, <1>5, <2>1 DEF FlowTypeOK, link, wizard, Ids
<1>7. StoreInv'
  BY <1>4, <1>5 DEF StoreInv
<1>8. RestartInv' /\ SessionInv' /\ RecoveryInv'
  BY <1>1 DEF RestartInv, SessionInv, RecoveryInv, Idle, NoRestart
<1>9. LatestInv'
  BY <1>1, <1>5 DEF LatestInv, Target, Idle
<1> QED
  BY <1>6, <1>7, <1>8, <1>9

\* The wizard is finished.
LEMMA CompleteKeepsInvariant ==
    ASSUME FlowInv, CompleteWizard
    PROVE  FlowInv'
<1> USE DEF FlowInv
<1> DEFINE d == [config EXCEPT !.done = @ \cup {config.active}]
<1>1. d \in Configs /\ Tidy(d) /\ d.active = config.active /\ d.printers = config.printers
  BY Configurations DEF FlowTypeOK, StoreInv
<1>2. SavedOrNot(d)
  BY DEF CompleteWizard
<1> HIDE DEF d
<1>3. /\ config' = d
      /\ (disk' = d /\ unsaved' = unsaved) \/ (disk' = disk /\ unsaved' = TRUE)
  BY <1>2 DEF SavedOrNot, Saved, NotSaved
<1>4. /\ Idle /\ wizard_container /\ wizard_container' = FALSE /\ m_wizard_active' = FALSE
      /\ m_wizard_previous_printer_id' = NoPrinter /\ home' = "built"
      /\ UNCHANGED <<link, m_confirm_dialog, m_pending_request, waiting, queued, restart, todo,
                     cancel_callback, calls, wanted>>
  BY DEF CompleteWizard
<1>5. FlowTypeOK'
  <2>1. disk' \in Configs /\ disk'.active \in disk'.printers /\ unsaved' \in BOOLEAN
    BY <1>1, <1>3 DEF FlowTypeOK
  <2>2. /\ wizard_container' \in BOOLEAN /\ m_wizard_active' \in BOOLEAN
        /\ m_wizard_previous_printer_id' \in Ids /\ home' \in {"none", "built", "error"}
    BY <1>4 DEF Ids
  <2>3. config' \in Configs /\ config'.active \in config'.printers
    BY <1>1, <1>3 DEF FlowTypeOK
  <2> QED
    BY <1>4, <2>1, <2>2, <2>3 DEF FlowTypeOK, link, waiting
<1>6. StoreInv'
  BY <1>1, <1>3 DEF StoreInv
<1>7. RestartInv' /\ RecoveryInv' /\ LatestInv'
  BY <1>1, <1>3, <1>4 DEF RestartInv, RecoveryInv, LatestInv, Target, link, waiting
<1>8. SessionInv'
  BY <1>1, <1>3, <1>4 DEF SessionInv, Orphaned, Idle, link, waiting
<1> QED
  BY <1>5, <1>6, <1>7, <1>8

\* Removing the connected printer leaves the call that replaces it.
LEMMA DeleteKeepsInvariant ==
    ASSUME FlowInv, NEW p \in Printers, DeletePrinter(p)
    PROVE  FlowInv'
<1> USE DEF FlowInv
<1>1. /\ Idle /\ home # "error" /\ m_confirm_dialog = NoPrinter /\ ~wizard_container
      /\ queued = <<>> /\ m_pending_request = NoRequest /\ ~m_cancel_restart_pending
      /\ p \in config.printers /\ Cardinality(config.printers) > 1
      /\ wanted' = NoPrinter
      /\ UNCHANGED <<link, m_confirm_dialog, m_wizard_previous_printer_id, m_pending_request,
                     waiting, restart, todo, wizard, home, calls>>
  BY DEF DeletePrinter, ControlsShown
<1>2. PICK d \in RemovePrinter(config, p) :
         /\ SavedOrNot(d)
         /\ queued' = IF p = config.active THEN <<ListCall([op |-> "request", id |-> d.active])>> ELSE <<>>
  BY DEF DeletePrinter
<1>3. Cardinality(config.printers) # 1
  BY <1>1
<1>4. /\ d \in Configs /\ Tidy(d) /\ d.active \in d.printers /\ p \notin d.printers
      /\ config.active # p => d.active = config.active
  BY <1>3, Removal DEF StoreInv, FlowTypeOK
<1>5. /\ config' = d
      /\ (disk' = d /\ unsaved' = unsaved) \/ (disk' = disk /\ unsaved' = TRUE)
  BY <1>2 DEF SavedOrNot, Saved, NotSaved
<1>6. ListCall([op |-> "request", id |-> d.active]) \in ListCalls
  BY <1>4 DEF Requests, Configs, ListCall, ListCalls
<1>7. FlowTypeOK'
  <2>1. disk' \in Configs /\ disk'.active \in disk'.printers /\ unsaved' \in BOOLEAN
    BY <1>4, <1>5 DEF FlowTypeOK
  <2>2. queued' \in Seq(ListCalls)
    BY <1>2, <1>6
  <2> QED
    BY <1>1, <1>4, <1>5, <2>1, <2>2 DEF FlowTypeOK, link, waiting, wizard, Ids
<1>8. StoreInv'
  BY <1>4, <1>5 DEF StoreInv
<1>9. m_wizard_previous_printer_id = NoPrinter
  BY <1>1 DEF RecoveryInv, Idle
<1>10. RestartInv' /\ RecoveryInv' /\ LatestInv'
  BY <1>1, <1>9 DEF RestartInv, RecoveryInv, LatestInv, Idle, NoRestart, waiting
<1>11. SessionInv'
  <2>1. CASE p # config.active
    BY <1>1, <1>4, <1>5, <2>1 DEF SessionInv, Orphaned, Idle, link, waiting
  <2>2. CASE p = config.active
    <3> SUFFICES ASSUME ~unsaved', m_connected_printer_id' # config'.active PROVE Orphaned'
      BY DEF SessionInv
    <3>1. m_connected_printer_id = config.active
      BY <1>1, <1>5 DEF SessionInv, Orphaned, Idle
    <3>2. m_connected_printer_id' = p /\ p \notin config'.printers
      BY <1>1, <1>4, <1>5, <2>2, <3>1 DEF link
    <3>3. /\ queued' = <<ListCall([op |-> "request", id |-> d.active])>> /\ Len(queued') = 1
          /\ queued' # <<>> /\ queued'[1].call.id = d.active
      BY <1>2, <2>2 DEF ListCall
    <3>4. \A i \in 1..Len(queued') : Known(queued'[i].call, config')
      BY <1>4, <1>5, <3>3 DEF Known
    <3>5. m_pending_request' = NoRequest /\ m_confirm_dialog' = NoPrinter /\ ~wizard_container'
      BY <1>1 DEF wizard
    <3> QED
      BY <3>2, <3>3, <3>4, <3>5 DEF Orphaned
  <2> QED
    BY <2>1, <2>2
<1> QED
  BY <1>7, <1>8, <1>10, <1>11

\* The printer goes its own way.
LEMMA PrinterChangeKeepsInvariant ==
    ASSUME FlowInv, PrinterChanges
    PROVE  FlowInv'
<1> USE DEF FlowInv
<1>1. /\ live' \in BOOLEAN /\ printing' \in BOOLEAN
      /\ UNCHANGED <<store, m_connected_printer_id, m_confirm_dialog,
                     m_wizard_previous_printer_id, m_pending_request, waiting, queued, restart,
                     todo, wizard, home, calls, wanted>>
  BY DEF PrinterChanges
<1>2. FlowTypeOK'
  BY <1>1 DEF FlowTypeOK, store, waiting, wizard
<1>3. StoreInv' /\ RestartInv' /\ RecoveryInv' /\ LatestInv'
  BY <1>1 DEF StoreInv, RestartInv, RecoveryInv, LatestInv, Target, store, waiting, wizard
<1>4. SessionInv'
  BY <1>1 DEF SessionInv, Orphaned, Known, store, waiting, wizard
<1> QED
  BY <1>2, <1>3, <1>4

\* The process dies and starts again.
LEMMA BootKeepsInvariant ==
    ASSUME FlowInv, Boot
    PROVE  FlowInv'
<1> USE DEF FlowInv
<1>1. disk \in Configs /\ disk.active \in disk.printers /\ Tidy(disk)
  BY DEF FlowTypeOK, StoreInv
<1>2. /\ config' \in Configs /\ config'.active \in config'.printers /\ Tidy(config')
      /\ (disk' = config' /\ unsaved' = FALSE) \/ (disk' = disk /\ unsaved' = TRUE)
  <2>1. CASE \E c \in RemovePrinter(disk, disk.active), f \in disk.done \ {disk.active} :
                \/ Saved(SetActive(c, f)) /\ unsaved' = FALSE
                \/ NotSaved(SetActive(c, f))
    <3>1. PICK c \in RemovePrinter(disk, disk.active), f \in disk.done \ {disk.active} :
                \/ Saved(SetActive(c, f)) /\ unsaved' = FALSE
                \/ NotSaved(SetActive(c, f))
      BY <2>1
    <3>2. c \in Configs /\ c.active \in c.printers /\ Tidy(c)
      BY <1>1, Removal
    <3> DEFINE d == SetActive(c, f)
    <3>3. d \in Configs /\ d.active \in d.printers /\ Tidy(d)
      BY <3>2, Configurations DEF SetActive
    <3> HIDE DEF d
    <3>4. config' = d /\ ((disk' = d /\ unsaved' = FALSE) \/ (disk' = disk /\ unsaved' = TRUE))
      BY <3>1 DEF d, Saved, NotSaved
    <3> QED
      BY <3>3, <3>4
  <2>2. CASE Saved(disk) /\ unsaved' = FALSE
    BY <1>1, <2>2 DEF Saved
  <2> QED
    BY <2>1, <2>2 DEF Boot
<1>3. /\ m_connected_printer_id' = config'.active
      /\ live' \in BOOLEAN /\ printing' = FALSE
      /\ wizard_container' = (config'.active \notin config'.done)
      /\ m_wizard_active' = wizard_container'
      /\ home' = IF m_wizard_active' THEN "none" ELSE "built"
      /\ m_confirm_dialog' = NoPrinter /\ m_wizard_previous_printer_id' = NoPrinter
      /\ m_pending_request' = NoRequest
      /\ m_cancel_restart_pending' = FALSE /\ m_restart_tick_armed' = FALSE
      /\ queued' = <<>> /\ restart' = NoRestart /\ todo' = NoRequest
      /\ cancel_callback' = FALSE /\ wanted' = NoPrinter /\ UNCHANGED calls
  BY DEF Boot
<1>4. FlowTypeOK'
  <2>1. disk' \in Configs /\ disk'.active \in disk'.printers /\ unsaved' \in BOOLEAN
    BY <1>1, <1>2
  <2>2. m_connected_printer_id' \in Printers
    BY <1>2, <1>3 DEF Configs
  <2>3. wizard_container' \in BOOLEAN /\ m_wizard_active' \in BOOLEAN
    BY <1>3
  <2>4. home' \in {"none", "built", "error"}
    BY <1>3
  <2>5. restart' \in [kind : {"none", "switch", "wizard", "restore"}, id : Ids] /\ NoPrinter \in Ids
    BY <1>3 DEF NoRestart, Ids
  <2>6. queued' \in Seq(ListCalls) /\ calls' \in 0..MaxCalls
    BY <1>3 DEF FlowTypeOK
  <2> QED
    BY <1>2, <1>3, <2>1, <2>2, <2>3, <2>4, <2>5, <2>6 DEF FlowTypeOK
<1>5. StoreInv'
  BY <1>1, <1>2 DEF StoreInv
<1>6. RestartInv' /\ SessionInv' /\ RecoveryInv' /\ LatestInv'
  BY <1>3 DEF RestartInv, SessionInv, RecoveryInv, LatestInv, NoRestart
<1> QED
  BY <1>4, <1>5, <1>6

-----------------------------------------------------------------------------
(* The switch flow: the theorems.                                          *)

\* What the flow remembers, waits for and goes on with fits its config and its
\* session, for every set of printers and every number of calls.
THEOREM FlowInvariance == FlowSpec => []FlowInv
<1>1. FlowInit => FlowInv
  <2> SUFFICES ASSUME FlowInit PROVE FlowInv
    OBVIOUS
  <2>1. PICK S \in SUBSET Printers : \E p \in S :
           config = [printers |-> S, done |-> S, active |-> p]
    BY DEF FlowInit
  <2>2. PICK p \in S : config = [printers |-> S, done |-> S, active |-> p]
    BY <2>1
  <2>3. /\ config \in Configs /\ config.active \in config.printers /\ Tidy(config)
        /\ disk = config
    BY <2>2 DEF FlowInit, Configs, Tidy
  <2>4. m_connected_printer_id \in Printers /\ calls \in 0..MaxCalls /\ NoPrinter \in Ids
        /\ queued \in Seq(ListCalls)
    BY <2>3, SwitchAssumption DEF FlowInit, Configs, Ids
  <2>5. restart \in [kind : {"none", "switch", "wizard", "restore"}, id : Ids]
    BY <2>4 DEF FlowInit, NoRestart
  <2>6. FlowTypeOK
    BY <2>3, <2>4, <2>5 DEF FlowInit, FlowTypeOK
  <2> QED
    BY <2>3, <2>6 DEF FlowInit, FlowInv, StoreInv, RestartInv, SessionInv, RecoveryInv, LatestInv,
                      NoRestart
<1>2. FlowInv /\ [FlowNext]_flowVars => FlowInv'
  <2> SUFFICES ASSUME FlowInv, [FlowNext]_flowVars PROVE FlowInv'
    OBVIOUS
  <2>1. ASSUME NEW r \in Requests, CallInPlace(r) PROVE FlowInv'
    BY <2>1, CallKeepsInvariant
  <2>2. ASSUME NEW r \in Requests, QueueCall(r) PROVE FlowInv'
    BY <2>2, QueueCallKeepsInvariant
  <2>3. CASE Drain
    BY <2>3, DrainKeepsInvariant
  <2>4. CASE Tick
    BY <2>4, TickKeepsInvariant
  <2>5. CASE Resume
    BY <2>5, ResumeKeepsInvariant
  <2>6. CASE FinishRestart
    BY <2>6, FinishKeepsInvariant
  <2>7. CASE ConfirmSwitch \/ DismissDialog
    BY <2>7, DialogKeepsInvariant
  <2>8. CASE CancelWizard
    BY <2>8, CancelKeepsInvariant
  <2>9. CASE CompleteWizard
    BY <2>9, CompleteKeepsInvariant
  <2>10. ASSUME NEW p \in Printers, DeletePrinter(p) PROVE FlowInv'
    BY <2>10, DeleteKeepsInvariant
  <2>11. CASE PrinterChanges
    BY <2>11, PrinterChangeKeepsInvariant
  <2>12. CASE Boot
    BY <2>12, BootKeepsInvariant
  <2>13. CASE UNCHANGED flowVars
    <3>1. UNCHANGED <<config, disk, unsaved, m_connected_printer_id, live, printing,
                      m_confirm_dialog, m_wizard_previous_printer_id, m_pending_request,
                      m_cancel_restart_pending, m_restart_tick_armed, queued, restart, todo,
                      cancel_callback, wizard_container, m_wizard_active, home, calls, wanted>>
      BY <2>13 DEF flowVars, store, link, wizard, waiting
    <3>2. FlowTypeOK'
      BY <3>1 DEF FlowInv, FlowTypeOK
    <3>3. StoreInv' /\ RestartInv' /\ SessionInv'
      BY <3>1 DEF FlowInv, StoreInv, RestartInv, SessionInv, Orphaned, Known
    <3>4. RecoveryInv' /\ LatestInv'
      BY <3>1 DEF FlowInv, RecoveryInv, LatestInv, Target
    <3> QED
      BY <3>2, <3>3, <3>4 DEF FlowInv
  <2> QED
    BY <2>1, <2>2, <2>3, <2>4, <2>5, <2>6, <2>7, <2>8, <2>9, <2>10, <2>11, <2>12, <2>13
       DEF FlowNext
<1> QED
  BY <1>1, <1>2, PTL DEF FlowSpec

\* The config stays well formed whatever is removed, cancelled, saved or lost,
\* and a wizard can be backed out of exactly while it has somewhere to go.
THEOREM FlowStaysSound == FlowSpec => []FlowIsSound
<1>1. FlowInv => FlowIsSound
  BY DEF FlowInv, FlowIsSound, RecoveryInv, RecoveryBelongsToAWizard, Idle
<1> QED
  BY <1>1, FlowInvariance, PTL

\* The panel at rest serves the printer its config names, and a crash finds the
\* same one in the file, unless a save failed: removals, cancelled wizards and
\* picks that a restart drops included.
THEOREM SessionIsConfigured == FlowSpec => []SessionMatchesConfig
<1>1. FlowInv => SessionMatchesConfig
  BY DEF FlowInv, SessionMatchesConfig, Settled, Idle, StoreInv, SessionInv, Orphaned
<1> QED
  BY <1>1, FlowInvariance, PTL

\* Of several picks, confirmations and cancels the latest one to reach the flow
\* decides where the panel comes to rest.
THEOREM LatestCallDecides == FlowSpec => []LatestCallWins
<1>1. FlowInv => LatestCallWins
  BY SwitchAssumption DEF FlowInv, LatestCallWins, Settled, Idle, LatestInv, Target
<1> QED
  BY <1>1, FlowInvariance, PTL
=============================================================================
