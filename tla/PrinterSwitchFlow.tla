-------------------------- MODULE PrinterSwitchFlow --------------------------
(***************************************************************************)
(* PrinterSwitchFlow on the desktop, with the session that owns it:        *)
(* switching to another printer, adding one through the setup wizard and   *)
(* backing out of it, what each of them leaves in the config file, and     *)
(* what the next start of the program makes of that file.                  *)
(*                                                                         *)
(* Everything runs on the main thread.  A call made inside an UpdateQueue  *)
(* drain waits for the next LVGL tick.  The printer list's calls come      *)
(* through that queue in two hops, and a restart (teardown, then rebuild)  *)
(* drops the ones still on their way.  Any save may fail, and the process can die at every step: what it  *)
(* finds again is `disk`.                                                  *)
(***************************************************************************)
EXTENDS Naturals, Sequences, FiniteSets

CONSTANTS Printers,     \* ids next_printer_id() can hand out
          NoPrinter,    \* the empty id
          NoRequest,    \* an empty m_pending_request
          MaxCalls,     \* bound: calls the user makes
          MaxQueued     \* bound: list calls waiting in the update queue

\* "request" is request_switch(), "switch" the switch_printer() of a confirmed
\* request, "wizard" add_printer_via_wizard().
Requests == [op : {"request", "switch"}, id : Printers]
                \cup [op : {"wizard"}, id : {NoPrinter}]

\* A call of the printer list in the update queue: first the callback that
\* closes the list, then the one that makes the call.
ListCalls == [hop : {"close", "call"}, call : Requests]

TickFrame == [op |-> "tick", id |-> NoPrinter]   \* run_waiting_restarts()

ASSUME SwitchAssumption ==
    /\ MaxCalls \in Nat /\ MaxQueued \in Nat
    /\ NoPrinter \notin Printers /\ NoRequest \notin Requests \cup {TickFrame}

Ids == Printers \cup {NoPrinter}

Configs == [printers : SUBSET Printers,  \* /printers
            done : SUBSET Printers,      \* ... whose wizard_completed is true
            active : Printers]           \* /active_printer_id

VARIABLES
    config,                    \* Config in memory
    disk,                      \* the saved file
    unsaved,                   \* a save failed since the last switch or start
    m_connected_printer_id,
    live,                      \* printer_connection_live()
    printing,                  \* the connected printer has an active job
    m_confirm_dialog,          \* the printer asked about, if the dialog is up
    m_wizard_previous_printer_id,
    m_pending_request,
    m_cancel_restart_pending,
    m_restart_tick_armed,
    queued,                    \* the printer list's calls in the update queue
    restart,                   \* the restart under way, if any
    todo,                      \* what the frame below a restart goes on with
    cancel_callback,           \* get_wizard_cancel_callback() is set
    wizard_container,          \* the wizard is on screen
    m_wizard_active,           \* Application::m_wizard_active; is_wizard_active()
                               \* is set and cleared together with it
    home,                      \* "none" | "built" | "error"
    calls,                     \* calls the user made, up to MaxCalls
    wanted                     \* the printer the latest call that reached the flow
                               \* should lead to

store == <<config, disk, unsaved>>
link == <<m_connected_printer_id, live, printing>>
wizard == <<cancel_callback, wizard_container, m_wizard_active>>
waiting == <<m_cancel_restart_pending, m_restart_tick_armed>>
flowVars == <<store, link, m_confirm_dialog, m_wizard_previous_printer_id, m_pending_request,
          waiting, queued, restart, todo, wizard, home, calls, wanted>>

NoRestart == [kind |-> "none", id |-> NoPrinter]

FlowTypeOK ==
    /\ config \in Configs /\ config.active \in config.printers
    /\ disk \in Configs /\ disk.active \in disk.printers
    /\ unsaved \in BOOLEAN
    /\ m_connected_printer_id \in Printers
    /\ live \in BOOLEAN /\ printing \in BOOLEAN
    /\ m_confirm_dialog \in Ids
    /\ m_wizard_previous_printer_id \in Ids
    /\ m_pending_request \in Requests \cup {NoRequest}
    /\ m_cancel_restart_pending \in BOOLEAN
    /\ m_restart_tick_armed \in BOOLEAN
    /\ queued \in Seq(ListCalls)
    /\ restart \in [kind : {"none", "switch", "wizard", "restore"}, id : Ids]
    /\ todo \in Requests \cup {NoRequest, TickFrame}
    /\ cancel_callback \in BOOLEAN /\ wizard_container \in BOOLEAN
    /\ m_wizard_active \in BOOLEAN
    /\ home \in {"none", "built", "error"}
    /\ calls \in 0..MaxCalls
    /\ wanted \in Ids

\* A panel set up with some printers, connected to one of them.
FlowInit ==
    /\ \E S \in SUBSET Printers : \E p \in S :
           config = [printers |-> S, done |-> S, active |-> p]
    /\ disk = config
    /\ unsaved = FALSE
    /\ m_connected_printer_id = config.active
    /\ live = TRUE /\ printing = FALSE
    /\ m_confirm_dialog = NoPrinter
    /\ m_wizard_previous_printer_id = NoPrinter
    /\ m_pending_request = NoRequest
    /\ m_cancel_restart_pending = FALSE /\ m_restart_tick_armed = FALSE
    /\ queued = <<>>
    /\ restart = NoRestart
    /\ todo = NoRequest
    /\ cancel_callback = FALSE /\ wizard_container = FALSE /\ m_wizard_active = FALSE
    /\ home = "built"
    /\ calls = 0
    /\ wanted = NoPrinter

\* The main thread is in no flow call: timers, clicks and drains can run.
Idle == restart = NoRestart /\ todo = NoRequest

-----------------------------------------------------------------------------
(* The config file.                                                        *)

\* remove_printer(): refuses the last one; removing the active printer makes
\* the first remaining one active.  The set holds the configs it may leave.
RemovePrinter(c, p) ==
    IF p \notin c.printers \/ Cardinality(c.printers) = 1 THEN {c}
    ELSE LET rest == c.printers \ {p}
         IN  {[printers |-> rest, done |-> c.done \cap rest, active |-> q] :
                  q \in IF c.active = p THEN rest ELSE {c.active}}

\* set_active_printer(): an unknown id changes nothing.
SetActive(c, p) == IF p \in c.printers THEN [c EXCEPT !.active = p] ELSE c

Saved(c) == config' = c /\ disk' = c

\* The change stays in memory only.
NotSaved(c) == config' = c /\ unsaved' = TRUE /\ UNCHANGED disk

\* A save whose failure is reported and otherwise ignored.
SavedOrNot(c) == NotSaved(c) \/ (Saved(c) /\ UNCHANGED unsaved)

-----------------------------------------------------------------------------
(* Restarts.                                                               *)

\* tear_down(): the old printer's UI goes, with its dialogs, the wizard
\* container and the wizard's cancel callback.
BeginRestart(kind, id) ==
    /\ restart' = [kind |-> kind, id |-> id]
    /\ m_confirm_dialog' = NoPrinter
    /\ cancel_callback' = FALSE
    /\ wizard_container' = FALSE
    /\ home' = "none"
    /\ UNCHANGED link

NoRestartBegins == UNCHANGED <<link, restart, cancel_callback, wizard_container, home>>

\* restart_onto_restored_printer(): clearing is_wizard_active() runs the
\* application's completion callback.
RestartOntoRestored ==
    /\ m_wizard_active' = FALSE
    /\ m_wizard_previous_printer_id' =
           IF m_wizard_active THEN NoPrinter ELSE m_wizard_previous_printer_id
    /\ m_cancel_restart_pending' = FALSE
    /\ BeginRestart("restore", NoPrinter)
    /\ UNCHANGED store

\* rebuild(), then what the flow does after it.  A rebuild whose setup fails
\* stops at the error label.  connect_moonraker() records the active printer
\* as the connected one, the flow the one it switched to.
FinishRestart ==
    /\ restart # NoRestart /\ queued = <<>>
    /\ restart' = NoRestart
    /\ m_connected_printer_id' = IF restart.kind = "restore" THEN config.active ELSE restart.id
    /\ printing' = FALSE
    /\ cancel_callback' = (restart.kind = "wizard")
    /\ \/ /\ wizard_container' = (config.active \notin config.done)
          /\ m_wizard_active' = (wizard_container' \/ m_wizard_active)
          /\ home' = IF m_wizard_active' THEN "none" ELSE "built"
          /\ live' \in BOOLEAN
       \/ /\ wizard_container' = FALSE /\ home' = "error" /\ live' = FALSE
          /\ UNCHANGED m_wizard_active
    /\ UNCHANGED <<store, m_confirm_dialog, m_wizard_previous_printer_id, m_pending_request,
                   waiting, queued, todo, calls, wanted>>

-----------------------------------------------------------------------------
(* The public entries.  f is the frame one runs in: the request it leaves  *)
(* waiting for the tick, and the printer the latest call wants when it     *)
(* goes through.                                                           *)

InPlace(r) == [keep |-> NoRequest, want |-> r.id]
AtTick == [keep |-> NoRequest, want |-> wanted]

Expect(id, f) == wanted' = IF f.keep = NoRequest THEN id ELSE wanted

Ignore(id, f) ==
    /\ m_pending_request' = f.keep
    /\ Expect(id, f)
    /\ NoRestartBegins
    /\ UNCHANGED <<m_confirm_dialog, m_wizard_previous_printer_id, m_wizard_active>>

\* Mutant: a switch keeps the wizard's recovery state.
BugSwitchKeepsRecovery(id, f) ==
    /\ m_confirm_dialog = NoPrinter /\ id \in config.printers
    /\ m_pending_request' = f.keep
    /\ Saved(SetActive(config, id)) /\ unsaved' = FALSE
    /\ BeginRestart("switch", id)
    /\ Expect(f.want, f)
    /\ UNCHANGED <<m_wizard_previous_printer_id, m_wizard_active>>

SwitchPrinter(id, f) ==
    \/ /\ m_confirm_dialog # NoPrinter \/ id \notin config.printers
       /\ Ignore(NoPrinter, f)
       /\ UNCHANGED store
    \/ /\ m_confirm_dialog = NoPrinter /\ id \in config.printers
       /\ Saved(SetActive(config, id)) /\ unsaved' = FALSE
       /\ m_wizard_previous_printer_id' = NoPrinter
       /\ BeginRestart("switch", id)
       /\ m_pending_request' = f.keep
       /\ Expect(f.want, f)
       /\ UNCHANGED m_wizard_active
    \/ /\ m_confirm_dialog = NoPrinter /\ id \in config.printers
       /\ NotSaved(config)                 \* rolled back
       /\ Ignore(NoPrinter, f)

\* Its switch_printer() drops a request that came in since.
RequestSwitch(id, f) ==
    \/ /\ m_confirm_dialog # NoPrinter
       /\ Ignore(NoPrinter, f)
       /\ UNCHANGED store
    \/ /\ m_confirm_dialog = NoPrinter
       /\ id = m_connected_printer_id /\ live
       /\ Ignore(f.want, f)
       /\ UNCHANGED store
    \/ /\ m_confirm_dialog = NoPrinter
       /\ IF id = m_connected_printer_id THEN ~live
          ELSE m_connected_printer_id \notin config.printers \/ ~printing
       /\ SwitchPrinter(id, [f EXCEPT !.keep = NoRequest])
    \/ /\ m_confirm_dialog = NoPrinter
       /\ id # m_connected_printer_id
       /\ m_connected_printer_id \in config.printers /\ printing
       /\ m_confirm_dialog' = id
       /\ Expect(NoPrinter, f)
       /\ m_pending_request' = f.keep
       /\ NoRestartBegins
       /\ UNCHANGED <<store, m_wizard_previous_printer_id, m_wizard_active>>

\* The set of ids is the model's bound: with none left nothing is added.
AddPrinterViaWizard(f) ==
    \/ /\ config.printers = Printers
       /\ Ignore(NoPrinter, f)
       /\ UNCHANGED store
    \/ \E new \in Printers \ config.printers :
          /\ Saved([config EXCEPT !.printers = @ \cup {new}, !.active = new])
          /\ unsaved' = FALSE
          /\ m_wizard_previous_printer_id' = config.active
          /\ BeginRestart("wizard", new)
          /\ m_pending_request' = f.keep
          /\ Expect(new, f)
          /\ UNCHANGED m_wizard_active
    \/ /\ config.printers # Printers
       /\ NotSaved(config)                 \* rolled back
       /\ Ignore(NoPrinter, f)

Run(r, f) ==
    \/ r.op = "request" /\ RequestSwitch(r.id, f)
    \/ r.op = "switch" /\ SwitchPrinter(r.id, f)
    \/ r.op = "wizard" /\ AddPrinterViaWizard(f)

-----------------------------------------------------------------------------
(* Calls, and the tick they may have to wait for.                          *)

\* Mutant: the request waits, but no tick is armed.
BugPostNotArmed(r) ==
    /\ m_pending_request' = r
    /\ wanted' = r.id
    /\ UNCHANGED waiting

\* Mutant: the request that waits first stays.
BugPostKeepsFirst(r) ==
    /\ m_pending_request' = IF m_pending_request = NoRequest THEN r ELSE m_pending_request
    /\ m_restart_tick_armed' = TRUE
    /\ wanted' = r.id
    /\ UNCHANGED m_cancel_restart_pending

\* post_request() and arm_restart_tick(): the newer request replaces the one
\* waiting.
PostRequest(r) ==
    /\ m_pending_request' = r
    /\ m_restart_tick_armed' = TRUE
    /\ wanted' = r.id
    /\ UNCHANGED m_cancel_restart_pending

\* The printer menu and the printer list are on screen: no dialog, wizard or
\* error page covers them.
ControlsShown ==
    Idle /\ home # "error" /\ m_confirm_dialog = NoPrinter /\ ~wizard_container

UserRequests == {r \in Requests : r.op # "switch" /\ r.id \in config.printers \cup {NoPrinter}}

\* The P key of a desktop build switches to another printer, whatever is shown.
KeyRequests == {r \in Requests : r.op = "switch" /\ r.id \in config.printers \ {config.active}}

\* A call in place: newer than anything waiting, but a cancel's restart runs
\* first.
CallInPlace(r) ==
    /\ \/ ControlsShown /\ r \in UserRequests
       \/ Idle /\ r \in KeyRequests
    /\ calls < MaxCalls /\ calls' = calls + 1
    /\ \/ /\ m_cancel_restart_pending
          /\ RestartOntoRestored
          /\ todo' = r
          /\ m_pending_request' = NoRequest
          /\ wanted' = r.id
       \/ /\ ~m_cancel_restart_pending
          /\ Run(r, InPlace(r))
          /\ UNCHANGED <<todo, m_cancel_restart_pending>>
    /\ UNCHANGED <<m_restart_tick_armed, queued>>

\* close_list_then(): the list closes from one queued callback, which queues
\* the call as another.
ListCall(r) == [hop |-> "close", call |-> r]

QueueCall(r) ==
    /\ ControlsShown /\ r \in UserRequests
    /\ calls < MaxCalls /\ calls' = calls + 1
    /\ Len(queued) < MaxQueued
    /\ queued' = Append(queued, ListCall(r))
    /\ UNCHANGED <<store, link, m_confirm_dialog, m_wizard_previous_printer_id,
                   m_pending_request, waiting, restart, todo, wizard, home, wanted>>

\* process_pending(), from the main loop or from a teardown.  The teardown has
\* frozen the queue and nav::shutdown() has nulled the navigation's printer
\* callbacks: what a first hop queues is discarded with the freeze buffer, and
\* a second one calls nothing.
Drain ==
    /\ queued # <<>>
    /\ LET first == Head(queued)
       IN  \/ /\ Idle /\ first.hop = "close"
              /\ queued' = Append(Tail(queued), [first EXCEPT !.hop = "call"])
              /\ UNCHANGED <<m_pending_request, waiting, wanted>>
           \/ /\ Idle /\ first.hop = "call"
              /\ queued' = Tail(queued)
              /\ PostRequest(first.call)
           \/ /\ restart # NoRestart
              /\ queued' = Tail(queued)
              /\ UNCHANGED <<m_pending_request, waiting, wanted>>
    /\ UNCHANGED <<store, link, m_confirm_dialog, m_wizard_previous_printer_id, restart, todo,
                   wizard, home, calls>>

RunPending ==
    \/ /\ m_pending_request = NoRequest
       /\ UNCHANGED <<store, link, m_confirm_dialog, m_wizard_previous_printer_id,
                      m_pending_request, restart, wizard, home, wanted>>
    \/ /\ m_pending_request # NoRequest
       /\ Run(m_pending_request, AtTick)

\* run_waiting_restarts()
Tick ==
    /\ Idle /\ m_restart_tick_armed
    /\ m_restart_tick_armed' = FALSE
    /\ \/ /\ m_cancel_restart_pending
          /\ RestartOntoRestored
          /\ todo' = TickFrame
          /\ UNCHANGED <<m_pending_request, wanted>>
       \/ /\ ~m_cancel_restart_pending
          /\ RunPending
          /\ UNCHANGED <<m_cancel_restart_pending, todo>>
    /\ UNCHANGED <<queued, calls>>

\* The restored printer is up: the frame that restarted onto it goes on.
Resume ==
    /\ todo # NoRequest /\ restart = NoRestart
    /\ todo' = NoRequest
    /\ \/ todo = TickFrame /\ RunPending
       \/ todo # TickFrame /\ Run(todo, [InPlace(todo) EXCEPT !.keep = m_pending_request])
    /\ UNCHANGED <<waiting, queued, calls>>

-----------------------------------------------------------------------------
(* The user's other actions.                                               *)

ConfirmSwitch ==
    /\ Idle /\ m_confirm_dialog # NoPrinter
    /\ m_confirm_dialog' = NoPrinter
    /\ PostRequest([op |-> "switch", id |-> m_confirm_dialog])
    /\ UNCHANGED <<store, link, m_wizard_previous_printer_id, queued, restart, todo, wizard,
                   home, calls>>

DismissDialog ==
    /\ Idle /\ m_confirm_dialog # NoPrinter
    /\ m_confirm_dialog' = NoPrinter
    /\ UNCHANGED <<store, link, m_wizard_previous_printer_id, m_pending_request, waiting,
                   queued, restart, todo, wizard, home, calls, wanted>>

\* cancel_add_printer_wizard(): the config is restored now, the restart onto it
\* waits for the tick.  Unsaved, the restore still runs.
CancelWizard ==
    /\ Idle /\ wizard_container /\ cancel_callback
    /\ m_wizard_previous_printer_id # NoPrinter
    /\ \E c \in RemovePrinter(config, config.active) :
           LET r == SetActive(c, m_wizard_previous_printer_id)
           IN  SavedOrNot(r) /\ wanted' = r.active
    /\ m_wizard_previous_printer_id' = NoPrinter
    /\ m_pending_request' = NoRequest
    /\ m_cancel_restart_pending' = TRUE
    /\ m_restart_tick_armed' = TRUE
    /\ UNCHANGED <<link, m_confirm_dialog, queued, restart, todo, wizard, home, calls>>

\* ui_wizard_complete(), with the application's completion callback.
CompleteWizard ==
    /\ Idle /\ wizard_container
    /\ LET c == [config EXCEPT !.done = @ \cup {config.active}]
       IN  SavedOrNot(c)
    /\ wizard_container' = FALSE
    /\ m_wizard_active' = FALSE
    /\ m_wizard_previous_printer_id' = NoPrinter
    /\ home' = "built"
    /\ UNCHANGED <<link, m_confirm_dialog, m_pending_request, waiting, queued, restart, todo,
                   cancel_callback, calls, wanted>>

\* Mutant: whether the printer was active is asked after its removal.
BugDeleteAsksLate(p) ==
    /\ ControlsShown
    /\ queued = <<>> /\ m_pending_request = NoRequest /\ ~m_cancel_restart_pending
    /\ p \in config.printers /\ Cardinality(config.printers) > 1
    /\ \E c \in RemovePrinter(config, p) :
           /\ SavedOrNot(c)
           /\ queued' = IF p = c.active
                        THEN <<ListCall([op |-> "request", id |-> c.active])>>
                        ELSE <<>>
    /\ wanted' = NoPrinter
    /\ UNCHANGED <<link, m_confirm_dialog, m_wizard_previous_printer_id, m_pending_request,
                   waiting, restart, todo, wizard, home, calls>>

\* handle_delete_printer(): removing the active printer queues a switch to the
\* one that is active now.  Its question was up before the tap on Remove, so
\* what was queued before has run.
DeletePrinter(p) ==
    /\ ControlsShown
    /\ queued = <<>> /\ m_pending_request = NoRequest /\ ~m_cancel_restart_pending
    /\ p \in config.printers /\ Cardinality(config.printers) > 1
    /\ \E c \in RemovePrinter(config, p) :
           /\ SavedOrNot(c)
           /\ queued' = IF p = config.active
                        THEN <<ListCall([op |-> "request", id |-> c.active])>>
                        ELSE <<>>
    /\ wanted' = NoPrinter
    /\ UNCHANGED <<link, m_confirm_dialog, m_wizard_previous_printer_id, m_pending_request,
                   waiting, restart, todo, wizard, home, calls>>

-----------------------------------------------------------------------------
(* The printer, and the death of the process.                              *)

PrinterChanges ==
    /\ Idle
    /\ live' \in BOOLEAN /\ printing' \in BOOLEAN
    /\ UNCHANGED <<store, m_connected_printer_id, m_confirm_dialog,
                   m_wizard_previous_printer_id, m_pending_request, waiting, queued, restart,
                   todo, wizard, home, calls, wanted>>

\* The process dies and starts again: an active printer whose wizard never
\* finished is archived when a finished one can take its place.
Boot ==
    /\ LET finished == disk.done \ {disk.active}
       IN  \/ /\ disk.active \notin disk.done /\ finished # {}
             /\ \E c \in RemovePrinter(disk, disk.active), f \in finished :
                    \/ Saved(SetActive(c, f)) /\ unsaved' = FALSE
                    \/ NotSaved(SetActive(c, f))
          \/ /\ disk.active \in disk.done \/ finished = {}
             /\ Saved(disk) /\ unsaved' = FALSE
    /\ m_connected_printer_id' = config'.active
    /\ live' \in BOOLEAN /\ printing' = FALSE
    /\ wizard_container' = (config'.active \notin config'.done)
    /\ m_wizard_active' = wizard_container'
    /\ home' = IF m_wizard_active' THEN "none" ELSE "built"
    /\ m_confirm_dialog' = NoPrinter
    /\ m_wizard_previous_printer_id' = NoPrinter
    /\ m_pending_request' = NoRequest
    /\ m_cancel_restart_pending' = FALSE /\ m_restart_tick_armed' = FALSE
    /\ queued' = <<>>
    /\ restart' = NoRestart /\ todo' = NoRequest
    /\ cancel_callback' = FALSE
    /\ wanted' = NoPrinter
    /\ UNCHANGED calls

FlowNext ==
    \/ \E r \in Requests : CallInPlace(r) \/ QueueCall(r)
    \/ Drain \/ Tick \/ Resume \/ FinishRestart
    \/ ConfirmSwitch \/ DismissDialog \/ CancelWizard \/ CompleteWizard
    \/ \E p \in Printers : DeletePrinter(p)
    \/ PrinterChanges \/ Boot

FlowSpec == FlowInit /\ [][FlowNext]_flowVars

\* The main loop keeps draining the queue and running LVGL's timers, and a
\* call that began a restart goes on; users, printers and crashes owe nothing.
Fairness == WF_flowVars(Drain) /\ WF_flowVars(Tick) /\ WF_flowVars(Resume) /\ WF_flowVars(FinishRestart)
FairFlowSpec == FlowSpec /\ Fairness

-----------------------------------------------------------------------------
(* Properties.                                                             *)

\* Nothing waits and nothing runs.
Settled == Idle /\ m_pending_request = NoRequest /\ ~m_cancel_restart_pending

\* Once nothing waits, the panel is connected to the printer the config names,
\* and a crash comes back to it: through removals, cancelled wizards, picks
\* that a restart drops.  Only a save that failed excuses a difference.
SessionMatchesConfig ==
    Settled /\ queued = <<>> /\ ~unsaved
        => m_connected_printer_id = config.active /\ disk = config

\* Of several picks, confirmations and cancels the latest one to reach the flow
\* decides: the panel ends on its printer, unless the pick was refused or its
\* save failed.  A pick of the printer list that a restart drops reaches it
\* never, and the call that began the restart still decides.
LatestCallWins ==
    Settled /\ wanted # NoPrinter => m_connected_printer_id = wanted

\* The flow remembers a printer to go back to exactly as long as the wizard it
\* belongs to can still be cancelled, and that printer is still there.
RecoveryBelongsToAWizard ==
    Idle /\ home # "error" /\ m_wizard_previous_printer_id # NoPrinter
        => /\ wizard_container /\ cancel_callback
           /\ m_wizard_previous_printer_id \in config.printers \ {config.active}

\* The config stays well formed (the active printer is always a known one) and
\* the wizard's way back stays valid, whatever is removed, cancelled or saved.
FlowIsSound == FlowTypeOK /\ RecoveryBelongsToAWizard

\* Whatever was called, in whatever order, the flow comes to rest: no request
\* and no cancelled wizard waits for ever for its tick.
FlowSettles == []<>(Settled /\ queued = <<>>)
=============================================================================
