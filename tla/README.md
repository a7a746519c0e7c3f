# TLA+ models of HelixScreen's core

HelixScreen is a touchscreen front end for Klipper printers. One process draws
the UI with LVGL on its main thread and talks to the printer's Moonraker server
over a WebSocket that belongs to another thread. Most of what can go wrong in
its core happens between those threads, between a request and its answer,
between a timer and the event it was waiting for, or between a save and the
crash after it. These modules model that core, check it with TLC on small
instances, and prove its safety properties with TLAPS for every size.

## 1. Inventory

### Threads and how parts interact

- The **main thread** runs LVGL, every panel, the abort manager, the recovery
  chain, the printer switch, and a loop that also calls
  `MoonrakerManager::process_timeouts()`.
- The **libhv event loop** owns the WebSocket. It calls the client's
  open/message/close callbacks and its health timer.
- **HTTP workers** (`HttpExecutor::fast()` and `slow()`) run blocking transfers
  and the local recovery script.
- Any other thread reaches the UI only by posting to the **update queue**, or,
  for status frames, to the Moonraker manager's **notification queue**.

A typical path crosses all of them: a panel calls the API, `MoonrakerClient`
checks `ready_to_send()`, the **request tracker** registers the request and
sends it, the event loop routes the reply to a callback on its own thread, the
callback wrapped by `bg_cb` posts to the **update queue**, the main thread runs
it if its owner still exists.

### Components

| Component | State | Operations | What is hard | Correct when |
|---|---|---|---|---|
| Request tracker | table of pending requests, id counter | send, fire-and-forget, route response, cancel, timeout sweep, cleanup | callbacks are copied under a lock and invoked after it; five operations race for one entry | one outcome per request, cancel is final, no request of a lost connection waits on the next one |
| Update queue and lifetime guard | queue, freeze buffer, nested batches, generation counters | post, defer, tick, drain, freeze, shutdown, init, invalidate | drains and freezes nest, owners die between post and run, shutdown under a live freeze | order kept, nothing lost, no body on a dead owner, no callback crosses a session |
| Abort manager | abort state, five timers, two observers, suppression flag | start, e-stop, replies, timeouts, observers, complete | late replies, one-shot timers forgotten while armed, print and Klipper events in every order | no unasked M112, recovery called for every M112, the modal goes away, no silent fault |
| Connection lifecycle | connection state, suppression window, socket, destruction guard | connect, disconnect, force_reconnect, open, close, tick, destroy | state read early and written late by another thread; destruction against callbacks | CONNECTED and RECONNECTING always have something that ends them |
| HTTP executor | per start cycle: queue, stopping flag, counter, workers | start, stop, submit, run_sync, worker loop | submit holds a handle that stop is tearing down; detached workers live into the next cycle | no promise is stranded, counter exact, stop leaves no joinable thread |
| Klippy state and its freshness guard | shown state, eventtime watermark, live flag, epoch, poll | notifications, status frames, printer.info seed, snapshot, poll | five roads and two queues that are not ordered against each other; clocks that start again | the newest Klipper state wins and a current frame is never called stale |
| Discovery sequence | sequence number, stage | chain of requests with a gate | answers of an older connection, a Klipper that is not ready | modelled as far as the klippy state goes |
| Moonraker manager | notification queue | queue, process | frames applied after the session they belong to | modelled as far as the klippy state goes |
| Printer recovery service | single-flight latch, verification window, deadline | restart, poll, escalate, script, service restart, abandon | the chain lives only in its continuations; a printer switch tears its session down | one chain, one script run, one verdict, and the chain ends |
| Printer switch flow and session | pending request, wizard to go back from, restart tick, config | switch, confirm, add through the wizard, cancel, finish, remove, boot | calls a restart overtakes, saves that fail, the process dying | the panel is on the configured printer, the latest call to reach the flow decides, the flow comes to rest |
| Boot crash guard (K-Touch) | crash streak, restart streak, hold, previous printer | boot, crash, pick, watchdog, stall, healthy session | counters live in a file whose save can fail or be cut off; two printers that both crash | boot and restart loops end, a hold is kept |
| Configuration | file and memory copy | save, load | a save that fails, a crash before it | as far as switch flow and boot guard use it |
| E-stop overlay and recovery dialog | shown/suppressed | show, suppress, recheck | see the abort manager | a Klipper fault is shown |
| RPC error correlation, error routing | recent errors | report, merge | one failure, several reports | each failure shown once; not modelled |
| WiFi manager | breaker, scan schedule | scan, connect, back off | retry against late results | the breaker closes again; not modelled |
| Print start collector | phase | responses, timeouts | lines out of order | phases only advance; not modelled |
| LAN client authorization, power-loss recovery, update checker | per feature | prompts, offers, download | expiry, crash between steps | not modelled |
| Telemetry, crash handler, display sleep, AMS backends, thumbnails and history, remote screen, start-up, rendering, panels, Bluetooth, Lua plugins, sensors/LEDs/calibration, splash and watchdog, Moonraker plugin, servers and the rest of the ESP32 firmware | - | - | - | not modelled, `PROJECT.json` gives the reason for each |

The hazards these properties are aimed at are listed one by one, each at its
source line, in `PROJECT.json`.

## 2. Modules

Each component has one module; `MC<Module>.tla` instantiates it for TLC, and
`<Module>Proofs.tla` holds its theorems. `SessionProofs.tla` holds those of
`MoonrakerConnection` and of `PrinterSwitchFlow`.

### OneShot (abstract)

What a callback interface promises its callers: an operation is begun at most
once, is then open, and ends once, by telling one outcome or by being withdrawn
with nothing told. `RequestTracker` implements it with one operation per request
id, `PrinterRecovery` with one per accepted chain and `Exclusive`, `HttpExecutor`
with one per accepted item, each through `INSTANCE OneShot WITH` and the property
`ImplementsOneShot`.

### RequestTracker (`src/src/api/moonraker_request_tracker.cpp`)

One critical section, one `ws.send()` and one callback invocation are one step.
`send()` is therefore four steps (`BeginSend`, `Register`, `Transmit`,
`SendFailed`), and `route_response()`, `check_timeouts()` and `cleanup_all()`
are a locked step that moves entries from `pending_requests_` to the thread's
`batch`, followed by one `Invoke` per callback. `check_timeouts()` has the
unlocked log block (`LogPending`) between its two halves. A callback may call
`send()`, so `BeginSend` is allowed in the middle of a batch. Which of its two
callbacks a caller supplied is chosen at `BeginSend`; message contents are
reduced to success or error. The socket and the printer (`Reply`,
`SocketClose`, `SocketOpen`) are external: a printer may never answer, and a close
loses what is in transit.

`ready_to_send()` looks at the connection state before the tracker is called, so
`Transmit` may find the socket closed, and libhv may accept the frame all the same:
it asks only for a channel (`moonraker_client.cpp:1210`). `frame` says whether the
connection now open `carried` a request's frame or whether it went `adrift`; nobody
answers an adrift one, and its entry waits for its timeout. `BeginSend` has no guard
on the connection, which allows more sends than the client does. A close is cleaned
up by `on_ws_close()` or, when `disconnect()` turned its trampoline away, by
`disconnect()` itself (`OnClose`).

### UpdateQueue (`src/include/ui_update_queue.h`, `async_lifetime_guard.h`)

`batches` is the stack of local `to_process` queues of nested
`process_pending()` calls; `running` says that the head of the innermost one is
executing. A running callback may post, drain, freeze, and destroy owners.
`freezes` records at which drain depth each `ScopedFreeze` began, so that scopes
end inside the callback that opened them. `LifetimeToken::defer()` is three
steps on a background thread (take the token, check it, enqueue); the check is
made again when the callback is about to run. `shutdown()` is two steps (final
drain, then gate and discard); `epoch` counts sessions.

### AbortManager (`src/src/abort/abort_manager.cpp`)

Everything is on the main thread, so a step is one reply, timer, observer, user
action or printer event with all it triggers. `inflight` holds the requests
whose reply has not run yet, each with the `lifetime_` generation it was sent
under. `guard` holds the armed timers `LvglTimerGuard` knows, `orphans` the ones
it has released while armed. `complete_abort()`'s deferred badge is in `inflight`
too, because a new sequence can overtake it. `recover()` may take an M112's recovery
on or refuse it (`Answers`: a chain is running, spools are on the bed, no API); a
refusal is an error reply, which moves the abort on.

The recovery dialog of `EmergencyStopOverlay` is modelled from what asks for it, the
overlay's observer (`OverlayHears`) and the end of an abort (`SurfaceRecovery`), to
the dialog. `RequestDialog` is `show_recovery_for()`: outside a suppression window the
main-thread half is `posted`, inside one the reason is `latched` and a `recheck` armed.
`ShowRecovery` and `Recheck` run into the guards of `show_recovery_for_main()`: the
setup wizard, a restart the user sent, or the abort itself decline. A declined live
request is dropped, a declined re-check goes back into the latch until its retries
are spent. The windows open and close at any time, so each read of one may find
either (`Reads`); the constant `Windows` says which exist. `fate` records how a fault
ended: `told` to the user, `waived` by the overlay (wizard or the user's restart
declined it and nobody kept it, or a READY's deferred half dropped it), or `misled`
by the verdict of an earlier M112's recovery.

### MoonrakerConnection (`src/src/api/moonraker_client.cpp`)

The main thread is `main`, the event loop `loop`; each is a program counter
through the calls that let the other thread in. The trampolines are split where
the code is: the liveness check, the try-lock of `callback_lifecycle_mutex_`
(`Enter` or `TurnAway`), the handler's reads, the handler's writes. libhv
(`socket`, `closes`, `Redial`) is external. `muffled`, `overran` and
`lost_close` are history variables: they name the situations in which the code
knowingly leaves the state alone.

### HttpExecutor (`src/src/system/http_executor.cpp`)

A start cycle is an index; `queue`, `stopping` and `inflight` are per cycle,
because a detached worker or a slow `submit()` keeps its old `SharedState`
alive. `submit()` is load, lock-and-enqueue (or reject), notify. A worker sleeps
on the condition variable, takes the front item, settles its future and only
then releases its slot. `stop()` is one step per worker it joins or detaches.

### KlippyState (`printer_network_state.cpp`, `moonraker_client.cpp`, `moonraker_discovery_sequence.cpp`, `moonraker_manager.cpp`)

Klipper and Moonraker are external: `klippy` is what Moonraker would answer now,
`now` Klipper's eventtime, which starts again when its host reboots. A request
to Klipper is answered in two steps (`Evaluate`, then `Reply`), so an answer can
be old when it arrives; `wire` delivers in order. On the event loop, frames are
stamped with the epoch and put into `notes`, notifications, seeds and poll answers
into `updates`. The main thread takes from either queue; `apply_webhooks()` is
split at the place where a close can come in between (`TakeNote`, `Commit`).
The guard is `watermark`, `live` and `epoch`. Discovery is its four requests that
matter here: the gate, `printer.info`, the subscription and its snapshot. One
assumption about time is explicit: a Klipper start takes longer than delivering a
frame and one pass of the main loop (`EarlierFramesRead`).

### PrinterRecovery (`src/src/printer/printer_recovery_service.cpp`)

The chain has no object of its own; it is wherever its next step waits: a request
(`requests`), a posted task (`pending_`, `frozen_buffer_`), a poll timer
(`timers`) or a script on the slow lane (`jobs`). `recover()` captures the raw
API of its session (`born`). A printer switch takes the session through
`running`, `frozen`, `disconnected`, `shut`, `destroyed` and back to `running`
with a new client, in the order of `teardown_printer_scope()`; the chain's steps
can fall between any two. The polls ask whether the client still lives; the last
resort, `services.restart`, does not (`RestartService`). Its call through a destroyed
API is undefined behaviour and modelled as a choice of outcomes: it is refused, never
heard of again, or lands as a request in the client built in the old one's place.

### PrinterSwitchFlow (`printer_switch_flow.cpp`, `printer_session.cpp`, `config.cpp`, wizard, `application.cpp`)

`config` is the copy in memory, `disk` the saved file; every save may fail. A call
made in place runs at once, a call made inside a drain goes to
`m_pending_request` and waits for the restart tick. The printer list's calls come
through the update queue in two hops: `close_list_then()` queues a callback that
closes the list and queues the call behind it (`ListCall`). A restart is two steps
(teardown, then rebuild). Its drain runs what is queued, but the navigation's
callbacks are nulled by then and the queue is frozen, so a list call that a restart
overtakes, at either hop, is lost (`Drain`); `todo` is the frame below the restart. `Boot` is a
process that died at any step and reads `disk`. The `P` key of the desktop test
build calls `switch_printer()` whatever is on screen (`KeyRequests`). `wanted`
records the printer the latest call should lead to, `unsaved` that a save has
failed since.

### BootCrashGuard (`boot_crash_guard.h`, `firmware/helixscreen-esp32/.../app_boot.cpp`)

A boot reads `disk`, counts the crash that led to it, falls back to the previous
printer or holds the connection. Picks, additions, removals, the switch watchdog,
the transport stall and the end of a healthy session write the file; a save can
fail. Between the reset and that boot's `save()` (`app_boot.cpp:321`) another reset may
come (`Crash` and `PowerCycle` while `reset` is not "none"): `esp_reset_reason()` knows
only the last one, so a crash it replaces is never counted, or counted as the one
after it. `strikes`, `uncounted`, `loops` and `failures` are history variables that
count crashes, crashes so replaced, restarts and failed saves across resets, which the
code's own counters do not.

### How they fit together

The modules assume of each other what the other one shows:

- `AbortManager`'s fairness on replies is `RequestTracker!EveryRequestSettles`
  plus `UpdateQueue!EveryCallbackFinishes`; the generation check of its replies
  is `UpdateQueue!NoBodyOnDeadOwner`; the verdict it awaits after an M112 is
  `PrinterRecovery`'s one-shot.
- `RequestTracker`'s `OnClose` is the cleanup `MoonrakerConnection` reaches when a
  trampoline is let in.
- `PrinterRecovery` takes its requests' single outcome from `RequestTracker` and
  its job's end from `HttpExecutor!EveryFutureSettles`. Its queue is
  `UpdateQueue`'s with what a switch does to it (freeze, shutdown, discard).
- `KlippyState` takes a close as handled; `MoonrakerConnection` says when it is not.
- `PrinterSwitchFlow` and `BootCrashGuard` share the config keys of printers and
  active printer: the first is the desktop's switch in process, the second the
  K-Touch's, which restarts the panel.

## 3. Runs

| Run | Instance | Checks |
|---|---|---|
| `tracker` | 3 threads, 2 ids, capacity 1, fair | `TableIsSound`, `AtMostOneOutcome`, `CancelIsFinal`, `NoStrandedRequest`, `EveryRequestSettles`, `ImplementsOneShot` |
| `queue` | 1 producer, 1 owner, 3 callbacks, 2 nested drains, 2 nested freezes, 1 invalidation, 1 shutdown, fair | `QueueIsIntact`, `NoStaleSession`, `NoBodyOnDeadOwner`, `FreezeHolds`, `EveryCallbackFinishes` |
| `abort_safety` | 2 sequences, 1 M112 each, no windows | `AbortIsSound`, `NoUnaskedEstop`, `RepliesStayInTheirSequence` |
| `abort_estop` | 1 sequence, 2 M112s, suppression windows and excuses, fair | `EveryEstopIsRecovered`, `NoSilentFault`, `EveryAbortEnds` |
| `connection` | 3 sockets, 1 foreign suppression window, fair | `SessionsAreWatched`, `CallbacksRunInALiveClient`, `ReconnectEnds` |
| `executor` | 2 workers, 1 submitter, 2 cycles, 2 items, fair | `CyclesAreIntact`, `NoStrandedPromise`, `StopLeavesOnlyDetached`, `EveryFutureSettles` |
| `klippy` | Klipper ready at first, 4 changes, 1 close, fair | `TypeOK`, `NewFramesAreAccepted`, `QuietIsTrue`, `StateIsShown` |
| `recovery` | 2 chains, 3 sessions, fair | `ChainIsSafe`, `NoScriptPastDeadline`, `ImplementsOneShot`, `ChainEnds` |
| `switch` | 3 printers, 4 calls, 2 queued, fair | `FlowIsSound`, `SessionMatchesConfig`, `LatestCallWins`, `FlowSettles` |
| `boot_guard` | 3 symmetric printers, threshold 3, 2 restarts, 1 failed save, 2 uncounted crashes | `TypeOK`, `CrashLoopEnds`, `RestartsEnd`, `HoldSurvivesBoots` |
| `recovery_slot` | 1 chain, 2 sessions, fair | `SlotComesFree`, expected violation, section 6 |
| `klippy_error` | Klipper in any state at first, 3 changes, 1 close, fair | `FaultIsShown`, expected violation, section 6 |

Where one invariant joins several named parts, the parts are:
`TableIsSound` = types, `Bounded`, `InvalidIdMeansOver`; `QueueIsIntact` = types,
`OrderKept`, `NothingLost`; `AbortIsSound` = types, `SuppressionEnds`;
`SessionsAreWatched` = types, `NoDeadSession`, `ReconnectIsWatched`;
`CyclesAreIntact` = types, `InflightIsExact`, `StartsInOrder`, `FuturesAreHeld`;
`ChainIsSafe` = types, `OneContinuation`, `ScriptRunsOnce`, `RequestsHaveAClient`;
`FlowIsSound` = types, `RecoveryBelongsToAWizard`. Every checked property has a mutant, a
plausible slip in the code under which TLC reports it violated.

### Why the bounds are enough

- *Tracker.* A race for one entry needs two threads, and a third for the sender
  it is taken from. The second id collides with the first at capacity 1, which
  is what makes rejection happen. Several entries at once do not interact except
  through the capacity; the theorems of section 5 hold for any capacity.
- *Queue.* Three callbacks are one running, one behind it in its batch and one
  posted meanwhile. Depth two is the first nesting. One shutdown and the init
  after it give two sessions.
- *Abort.* Two sequences are needed for a late reply or an orphan to meet a new
  sequence; a second M112 for one recovery to overtake another or to be refused
  because of it. Both at once exceed what one run can hold, hence two runs: the
  dialog's windows matter only to the second one's properties and are empty in the
  first. About 4.8 and 1 million states.
- *Connection.* Three sockets are a session, its redial and a fresh `connect()`.
  The window of `disconnect()` itself is always there; the foreign one is
  `begin_expected_klippy_restart()`.
- *Executor.* Two workers let one be joined and one detached, two cycles let a
  submitter and a detached worker survive a restart. Two submitters at once are
  covered by the theorems, which hold for any number.
- *Klippy state.* Four changes are a shutdown, a restart through its two stages
  and one more change on top; one close gives two sessions, which is what an epoch
  tells apart, and `HostReboots` resets the clock between them. About 1.1 million
  states.
- *Recovery.* Two chains are needed for one to meet the remains of another; three
  sessions let a chain outlive two switches, so that its raw pointer is older
  than the client before the current one. About 215,000 states.
- *Switch.* Three printers are one connected, one picked and one for the wizard
  to add. Four calls are what it takes to add a printer, be interrupted, go back
  and pick again. About 740,000 states. `MaxQueued` 2 lets one queued call overtake
  another.
- *Boot guard.* The code's own constants (threshold 3, cap 2); three printers are
  enough for a fallback, for removing it, and for one more. `MaxUncounted` 2 lets a
  run of crashes lose two of its counts. The theorems hold for
  every set of printers and every value of the constants.

Deadlock is checked except for `connection`, `executor` and the two `klippy`
runs: a destroyed client and a stopped executor may stop for good, and a Klipper
whose changes are used up has nothing left to say.

## 4. Fairness

- *RequestTracker*: a thread inside the tracker runs on, time passes
  (`Expire`), the main loop keeps calling `process_timeouts()`. Neither the printer
  nor `onclose` owes anything.
- *UpdateQueue*: the main thread's own steps happen (weak). `Return`,
  `TimerTick` and the end of an outermost freeze are strong: code may open and
  close inner scopes, which disables them for a while, but a C++ scope ends.
  Nobody is obliged to post, drain or freeze.
- *AbortManager*: replies arrive and LVGL fires armed timers. User and printer
  owe nothing.
- *MoonrakerConnection*: the loop dispatches closes and finishes callbacks, a
  `disconnect()` finishes, ticks recur (strong, because other callbacks occupy
  the loop in between), and a stalled reconnection is at some tick older than
  `kMaxReconnectStallMs`. No redial is assumed to succeed.
- *HttpExecutor*: a thread that can go on does; an item returns at last, since
  transfers have timeouts. No spurious wake-up is counted on and nobody is
  obliged to submit, start or stop.
- *KlippyState*: the socket delivers, Moonraker answers what it was asked, the
  main loop serves both queues, the health timer ticks, and libhv reopens a lost
  socket. Klipper owes nothing: it need neither come up nor announce anything.
- *PrinterRecovery*: a request is answered or timed out by the tracker, a script
  ends (it has its own timeout), the main loop drains the queue and fires poll
  timers, the chain's deadline elapses, and a teardown that has begun goes on.
  Nobody is obliged to switch printers or to start a recovery.
- *PrinterSwitchFlow*: the main loop drains the queue and runs LVGL's timers, a
  restart that has begun ends, and the frame below it goes on. The user owes
  nothing, and the process may die at any step.
- *BootCrashGuard*: none; its properties are safety properties.

## 5. Proofs

Every safety property the runs check is also a theorem, the two refinements
included, for every value of the constants the modules' assumptions allow; the
runs check them on small instances first, and TLC finds the inductive invariants
below to hold on the same instances. A proofs module states its invariant first
(`IInv`, unless said otherwise), then one lemma per action or group of actions,
and its theorems last.

### RequestTrackerProofs

From `ThreadAssumption`, `BoundAssumption` and `NoIdAssumption`, for every set of
threads, number of ids and capacity: `TypeCorrect`, `OneOutcome`
(`AtMostOneOutcome`), `CancelWins` (`CancelIsFinal`), `NothingStranded`
(`NoStrandedRequest`), `TableStaysSound` (`TableIsSound`) and
`OneAnswerPerRequest` (`ImplementsOneShot`).

`AtMostOneOutcome` alone is not inductive: a state in which an entry is still in
the table and its callback already copied satisfies it, and the next sweep breaks
it. `IInv` adds who owns an id's callbacks at each moment: nobody before it is
registered (`FreshInv`), the table while it is pending (`PendingInv`), one
thread's batch afterwards (`HeldInv`), and it says that two threads never send
the same id (`SendersInv`), which is the atomic counter. `Invariance` has one
step per action and below it one per conjunct that action disturbs.
`NothingStranded` is inductive once types and `SendersInv` are known: with the
close handled, only a running `send()` adds an entry, and it leaves one behind only
when its frame was carried or went adrift.

What an invalid id means needs `SentInv`: an id inside its own `send()` has not
reached the printer, so no answer to it exists when `send()` gives it up. The
refinement maps each step of the tracker to one of `OneShot`: `BeginSend` begins,
`Invoke` settles, every other step that takes requests out of all hands withdraws
them as one set, and the rest stutter. `BeyondIsFree` (an id not handed out is in
nobody's hands) makes the mapping well defined.

### UpdateQueueProofs

From `BoundsAssumption`, `NoOwnerAssumption` and `NoTokenAssumption`, for every set
of producers and owners and every depth of nested drains and freezes:
`QueueStaysIntact` (`QueueIsIntact`: order kept, nothing lost), `SessionsStayApart`
(`NoStaleSession`), `BodiesRunOnLivingOwners` (`NoBodyOnDeadOwner`) and `FreezesHold`
(`FreezeHolds`).

The first part is about sequences only: what popping, appending, merging and
pushing a batch does to the order (`InOrder`) and to the set (`Members`) of what
the batches, the queue and the freeze buffer hold. `LaneInv` then says that
exactly the unfinished callbacks are in a lane or at the head of a running batch
(`WaitingAre`), each numbered, of this session, and with a generation its owner's
guard covers (`HeldAreSound`), and that the freeze buffer is empty without a freeze.
`TokenInv` says the same of the tokens producers still hold, which is what the two
action properties need: a producer may have passed its check long before the post.

### AbortManagerProofs

From `BoundsAssumption`, for every number of aborts and M112s: `AbortStaysSound`
(`AbortIsSound`), `EstopIsAskedFor` (`NoUnaskedEstop`), `EstopIsRecovered`
(`EveryEstopIsRecovered`), `FaultIsNeverSilent` (`NoSilentFault`) and
`LateRepliesAreIgnored` (`RepliesStayInTheirSequence`).

`Halves` ties the escalation level and the recovery flag to the state; the heart is
`RecoveryTimersFit`: the timers that complete an abort whatever state it is in are
armed only in the recovery, and those two are never forgotten while armed, unlike
the probe's and the cancel's (section 6). With it no orphan can end a sequence
before `recover()` was called for it (`RecoverySent`). `Stamps` says that a reply
carries the generation of the sequence that asked.

The fault and its dialog have a second invariant on top of the first (`RInv`).
`Verdicts` says that a verdict in flight which answers the sequence's last M112
belongs to a recovery that was taken on, so a refusal can end no abort as if Klipper
were READY. `FaultIsShown` says that a fault the abort does not suppress is on one of
the dialog's roads; every step either keeps it there, suppresses it or ends it
(`SettledIsShown`).

### SessionProofs: MoonrakerConnection

From `BoundsAssumption`, for every number of sockets and suppression windows:
`SessionsStayWatched` (`SessionsAreWatched`) and `NoCallbackOutlivesTheClient`
(`CallbacksRunInALiveClient`).

`NoDeadSession` is about the states in which no thread is in the middle of an
operation. In between, `ConnectedIsLive` and `ConnectedIsRemembered` have to hold
instead, a close being handled has read the state and the window it will use
(`QuietDisconnect`), and a remembered session without its health timer is one that
is just starting it or whose close is kept quiet (`UnwatchedIsQuiet`). `ClosesFit`
bounds the closes still to come by the sockets dialled. `Dying` says how far the
destructor is, and that nobody holds the guard past its wait.

### SessionProofs: PrinterSwitchFlow

From `SwitchAssumption`, for every set of printers and number of calls:
`FlowStaysSound` (`FlowIsSound`), `SessionIsConfigured` (`SessionMatchesConfig`) and
`LatestCallDecides` (`LatestCallWins`). The module holds both components' proofs, as
the two ends of a session; the flow's names carry a `Flow` where they would be
the connection's too, and its invariant is `FlowInv`.

Both end-to-end properties are about a flow at rest; their invariants are about
every moment of it. `LatestInv` says that the printer the latest call wants is where
the flow is going (`Target`): the waiting request's, else the interrupted frame's,
else the restored config's, else the restart's, else the connected one.
`SessionInv` says that the connected printer is the configured one or was removed
(`Orphaned`), and then a call waits that replaces it, and whichever call runs first
does so, since no dialog and no wizard can be up and every waiting request names a
printer that exists. `RecoveryInv` says where the way back from a wizard may exist,
`RestartInv` what a restart and the frame below it lead to. `RunOutcome` reduces
every call, from whatever frame, to four outcomes. The proof needs `NoRequest` to
differ from the frame of the tick, which `SwitchAssumption` now says.

### HttpExecutorProofs

From `WorkerCountAssumption` and `BoundsAssumption`, for every number of workers,
submitters, cycles and items: `NothingStranded` (`NoStrandedPromise`), `StopIsClean`
(`StopLeavesOnlyDetached`), `SlotsStayIntact` (`CyclesAreIntact`) and
`OneOutcomePerFuture` (`ImplementsOneShot`, which no run of section 3 lists). The
strengthening is `HandleInv`, which says that a cycle has `stopping` set exactly when
it is not the running one; with it, a submitter's second look at `stopping` under
the lock excludes every stale handle. `JoinInv` says that the loop of `stop()` has
joined or detached each worker it has passed.

The counter is exact only while the executor holds the cycle: `stop()` sweeps the
queue and a detached worker releases its slot later. `SlotInv` therefore says of
*every* cycle that the counter covers what is queued and what its workers own
(`SlotsAreHeld`), so that a late release never takes it below zero, that a cycle not
started yet is empty (`FreshIsEmpty`), and that items are numbered as they are
accepted (`NumberedInOrder`).

`FuturesAreHeld` says where the item of an unsettled future is: in one queue while
the future is queued, in the hands of one worker while it runs. It is not inductive
alone: two workers could hold what is still one item, or a worker past its run an
item whose future is open. `FutureInv` adds that what a worker holds after its run is
settled and that an item not yet accepted has no future; `QueuedOnce`, from
`StartsInOrder` and `NoStrandedPromise`, that an item has one place in one queue.
The refinement then follows from how a step changes the futures: `SubmitEnqueue`
begins an operation, `Settle` ends it with the run's outcome, `DropLeftover`
withdraws the items it sweeps, `Take` and all the others stutter.

### PrinterRecoveryProofs

From `RecoveryBounds`, for every number of chains and of printer switches:
`ChainsAreSafe` (`ChainIsSafe`), `NoLateScript` (`NoScriptPastDeadline`) and
`OneVerdictPerChain` (`ImplementsOneShot`).

A chain is nothing but its next continuation, so the invariant says where that can
be: `LiveIsLast`, that whatever waits to run belongs to the chain which holds the
latch, and `InOnePlace`, that at most one of the request, the job, the timer, the
queue and the freeze buffer holds something. `ScriptBudget` says at which of these
places the script may still be started, `NothingToldYet` that a chain under way has
told its caller nothing. A step of the service begins a chain, settles it,
withdraws it (`abandon`, or the freeze buffer discarded), or stutters.

### BootCrashGuardProofs

From `GuardAssumption` (a positive threshold, a cap, an empty id that is no
printer), for every set of printers and every value of the constants:
`TypeCorrect`, `CrashLoopsEnd` (`CrashLoopEnds`), `RestartLoopsEnd`
(`RestartsEnd`) and `HoldIsKept` (`HoldSurvivesBoots`).

The bounds are not inductive by themselves, since nothing in them says how the
history counts relate to what the file holds. `Accounts(c)` says it, for the copy
in memory and for the file: while the connection is not held, the crashes so far
are covered by the streak, plus a full run if there is no printer left to fall
back to, plus the failed saves; likewise the restarts by the restart streak. A
failed save leaves the two copies different, which is why both have to satisfy
it. The crash a boot has still to count (`Pending`) is on the history's side of the
account and not yet on the file's; a reset that replaces it moves it to `uncounted`.
`connects => ~config.hold /\ ~disk.hold` is what the action property
`HoldSurvivesBoots` needs.

### KlippyStateProofs

From `BoundsAssumption`, for every bound: `TypeCorrect`, `FramesAccepted`
(`NewFramesAreAccepted`) and `ServingIsShown` (`QuietIsTrue`).

The watermark can only be kept behind Klipper's clock if everything that may still
move it is: `WireInv` says so of the frames on the wire (and that a closed socket
has none), `NotesInv` of the frames that are queued or half applied, and that a
frame of the current epoch exists only while the socket is open, and `GuardInv`
that the watermark is zero while it is closed, which is when a reboot may set the
clock back.

`QuietIsTrue` speaks of a moment at which nothing is on its way; its invariant
`LastWord` says, at every moment, where the last word about a serving Klipper is:
its notification is on the wire with nothing behind it that notifies; or it was
delivered, and what waits in the update queue behind it is minor; or nothing was
notified since the socket opened, and discovery is on its way with its answer, at
the gate, in its questions, in the snapshot or in the notification queue behind it,
in a session that nothing has made live. The other parts of `WInv` exclude what
could overwrite it: a frame left over from before READY (`FramesRead`), anything of
an earlier session (`EpochsInv`, `ClosedInv`), the answer of a poll that is over
(`TagsInv`) or that asked before Klipper came back (`PollInv`).

### Only model-checked

Liveness: `EveryRequestSettles`, `EveryCallbackFinishes`, `EveryAbortEnds`,
`ReconnectEnds`, `EveryFutureSettles`, `StateIsShown`, `ChainEnds`, `FlowSettles`.
Fairness and ENABLED are outside what TLAPS supports here. The two expected
violations have nothing to prove.

## 6. What the models found

Each expected violation is a sentence of the code's own comments or tests that
the code does not keep; the trace is what TLC prints for the run.

- `recovery_slot`: `recover()` says that "the chain always ends". A printer switch
  freezes the update queue before it disconnects; the step that would have ended
  the chain, posted now, is discarded with the freeze buffer. Nothing of the chain
  is left to run, the single-flight latch stays set, and every later recovery, for
  any printer, is refused until the program restarts. A chain whose timer is
  armed at the switch is not affected: the timer fires in the new session and
  finds its client gone.
- `klippy_error`: discovery means to recognise an error or a missing Klipper when
  it connects, but the gate before that step lets only "ready" and "shutdown"
  pass. If the socket drops while READY is shown and Klipper fails or leaves
  meanwhile, nothing looks again after the reconnect and READY stays, with its
  G-code guards open, until Klipper changes.

Smaller observations, found while modelling, that no run states:

- `AbortManager`: `on_probe_timeout()` and `on_cancel_timeout()` release their
  timer as "already auto-deleted by LVGL" (`abort_manager.cpp:577`, `:611`), also
  when an error *reply* called them (`:293`, `:346`) with the timer armed. The
  forgotten timer fires later and can escalate the next abort before its own
  timeout has passed. `NoUnaskedEstop` still holds: it escalates only if the
  setting allows it.
- If the print is over when the cancel observer is registered, the observer
  completes the abort at once and `send_cancel_print()` goes on to arm a timer
  and keep the observer after COMPLETE (`abort_manager.cpp:703`).
- A second M112 asks for a second recovery while the chain of the first runs; the
  single-flight latch refuses it, its error moves the abort on, and the first
  chain's own verdict is still accepted afterwards (`abort_manager.cpp:633`). If that
  chain polled READY before the second M112, the abort completes as recovered with
  Klipper in SHUTDOWN. `EveryEstopIsRecovered` and `NoSilentFault` except it (`misled`);
  without the exception TLC finds exactly that.
- `EmergencyStopOverlay`: a live request that the wizard or a restart window declines
  is dropped, because "the latch is empty" (`ui_emergency_stop.cpp:580`), and the
  deferred half of a READY drops a reason latched after it. `NoSilentFault` excepts
  both (`waived`): the abort did not cause them.
- `RequestTracker`: a frame that libhv accepts with no connection open leaves an entry
  that its close has missed and no reply removes. It waits for its timeout, as the
  comment on `ready_to_send()` says of #909.
- The documentation of `is_handling_shutdown()` (`abort_manager.h:157`) says that
  the flag persists until Klipper is READY, whereas `complete_abort()` clears it
  always, deliberately.
- `MoonrakerClient`: a close in a suppression window leaves CONNECTED in place
  (`moonraker_client.cpp:889`), which the comment on `ready_to_send()` (`:1220`)
  excludes.
- The destructor's "no callbacks can be mid-execution" (`moonraker_client.cpp:254`)
  does not cover a callback between its liveness check and its lock (`:563`), nor
  the health timer (`:118`).
- `on_ws_close()` calls itself "the one point every close funnels through"
  (`moonraker_client.cpp:870`), whereas the try-lock in front of it may turn a close
  away (`:604`). The `disconnect()` that held the lock cleans up most of it, but
  not the klippy-state freshness.
- `RequestTracker`: the log-throttle members are called "timer thread only"
  (`moonraker_request_tracker.h:165`) and are used by the event loop and the main
  thread (`moonraker_request_tracker.cpp:410`).
- `KlippyState` needs `EarlierFramesRead`: without it, a shutdown frame delivered in
  one burst with the `notify_klippy_ready` after it can be applied last and stay,
  since the notification carries no eventtime.
- `PrinterRecovery`: the header says that a chain cut off by a switch "stops without
  calling either callback" (`printer_recovery_service.h:76`); a script that fails
  after the switch goes on to `services.restart` through the raw pointer
  (`printer_recovery_service.cpp:331`), and its caller is told the outcome.
  `RequestsHaveAClient` names that call as its exception; without it TLC finds the
  request with a client of another printer.
- `PrinterSwitchFlow`: a pick in the printer list that is still queued when a restart
  begins is dropped with a warning (`ui_nav_printer_badge.cpp:58`) or with the freeze
  buffer, and the user who made it is told nothing.
- `PrinterSwitchFlow`: a switch that leaves the wizard rebuilds without
  `finalize_setup()` (`printer_session.cpp:611`), which the comment above it
  (`:606`) says leaves the home panel blank; a second "Add printer" in the same
  drain nests one wizard in another.
- `BootCrashGuard`: a power cut, or a second crash, before the save of a crash's boot
  (`app_boot.cpp:321`) loses that crash's count; a panel whose power is cut that early
  each time never trips. `uncounted` in the bound of `CrashLoopEnds` says by how much.
- `BootCrashGuard`: removing a printer leaves `/switch_previous_printer_id`
  pointing at it, and a new printer may be given the same id;
  `restart_into_active_printer()` ignores the result of its save
  (`app_boot.cpp:266`), which is why `failures` appears in the bounds.

`ReconnectIsWatched` and `ReconnectEnds` except `overran` and `lost_close`: a
close that a `disconnect()` did not wait for, or whose window has expired, may
write RECONNECTING after the health timer was cancelled. Without the exceptions
TLC finds exactly that. The comment in `on_ws_close()` calls the suppression
best-effort and accepts one stray notification.

## 7. What is left out

- In the modelled parts: message contents and JSON parsing, texts, logging, crash
  tags; `pause_timer()`/`resume_timer()`, which only tests call; in
  `MoonrakerConnection` message dispatch, subscriptions and the callbacks stored
  by `connect()`; in `KlippyState` state messages, network status and what
  discovery learns about the hardware; in `PrinterSwitchFlow` the interstitial
  card, the home-panel rebuild and `add_printer(host, port)`, which appears in
  `BootCrashGuard`; in `BootCrashGuard` the panel's wiring and hardware.
- A switch of printers during an abort: the abort modal covers the printer list,
  and `DeinitSubjects` of `AbortManager` is therefore limited to an idle one. Only
  the `P` key of the desktop test build could reach it.
- The components of the last rows of the table in section 1. Most are I/O,
  drawing or vendor dialects whose state is confined to one thread. By lines,
  most of the repository is generated fonts, vendored code, translations, layouts
  and per-device panels.
- Hazards no property covers have a note in `PROJECT.json`.

## 8. Plan

What is done: the core (sections 2 to 5), the abstract one-shot and its three
refinements, proved, the klippy state, the recovery chain, the switch flow and the boot
guard. What is left, in this order:

1. **Proofs**: every safety property is proved; what an added operation or
   component brings is proved with it.
2. **Compositions**: an abort with the recovery chain it starts, a switch during an
   abort, `add_printer()` in the switch flow.
3. **WiFi**: control breaker and scan scheduler.
4. **RPC error correlation**, **print start collector**, **LAN authorization**,
   **power-loss recovery**.
