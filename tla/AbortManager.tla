----------------------------- MODULE AbortManager -----------------------------
(***************************************************************************)
(* helix::AbortManager: the progressive print abort.  Soft interrupt, probe *)
(* the G-code queue (M115), printer.print.cancel, and, when the printer     *)
(* does not answer, M112 followed by a recovery and a wait for Klipper.     *)
(* Everything runs on the main thread, one callback at a time; what races   *)
(* is the order of the replies, the one-shot LVGL timers, the observers of  *)
(* the klippy and print-state subjects, and the user.                       *)
(*                                                                         *)
(* A reply is guarded by lifetime_'s generation (bg_cb).  A timer is not:   *)
(* its LvglTimerGuard either cancels it (reset) or forgets it (release),    *)
(* and a forgotten timer that has not fired is an orphan that still will.   *)
(* EmergencyStopOverlay's recovery dialog is modelled from the request to   *)
(* the dialog: the suppression window that latches a request, the re-check  *)
(* that takes it up again, and the guards that decline to show it.          *)
(***************************************************************************)
EXTENDS Naturals, FiniteSets

CONSTANTS MaxAborts,      \* bound: sequences started
          MaxEscalations, \* bound: M112s in one sequence
          Windows         \* bound: what may keep the overlay from showing a fault:
                          \* "suppression" (is_recovery_suppressed()), "excuse" (the
                          \* setup wizard, or a restart the user sent)

ASSUME BoundsAssumption == MaxAborts \in Nat /\ MaxEscalations \in Nat \ {0}
ASSUME WindowsAssumption == Windows \subseteq {"suppression", "excuse"}

States == {"IDLE", "TRY_HEATER_INTERRUPT", "PROBE_QUEUE", "SENT_CANCEL",
           "SENT_ESTOP", "SENT_RESTART", "WAITING_RECONNECT", "COMPLETE"}
Support == {"UNKNOWN", "SUPPORTED", "UNSUPPORTED"}
KlippyStates == {"READY", "STARTUP", "SHUTDOWN", "ERROR"}
Faulted == {"SHUTDOWN", "ERROR"}
Timers == {"heater_interrupt", "probe", "cancel", "restart", "reconnect"}
Commands == {"heater_interrupt", "probe", "cancel", "estop", "restart", "refusal",
             "print_outcome"}
Answers == {"restart", "refusal"}    \* of recover(): taken on, or refused
Requests == [cmd : Commands, level : 0..MaxEscalations,
             started : 0..MaxAborts, generation : 0..MaxAborts]

\* A fault is still to be shown; was shown; was given up by the overlay; or was
\* left behind by an abort that ended on an earlier M112's verdict.
Fates == {"none", "told", "waived", "misled"}

VARIABLES
    abort_state_,
    heater_interrupt_support_,
    escalation_level_,
    shutdown_recovery_in_progress_,
    seen_shutdown_during_reconnect_,
    guard,                 \* guard[k]: the sequence that armed the timer k's guard holds, 0 if none
    orphans,               \* armed timers no guard holds, as <<k, sequence>>
    klippy_observer_,
    cancel_state_observer_,
    generation,            \* lifetime_'s generation counter
    inflight,              \* requests whose reply has not run on the main thread yet
    print_outcome,         \* the outcome badge says CANCELLED
    \* The rest of the program.
    klippy,                \* the klippy_state subject
    ready_in_flight,       \* the subject has yet to hear of a READY recovery verified
    print_ended,           \* the print_state_enum subject is STANDBY/CANCELLED/COMPLETE/ERROR
    escalation_enabled,    \* the user's cancel-escalation setting
    \* EmergencyStopOverlay.
    posted,                \* show_recovery_for() has queued its main-thread half
    latched,               \* pending_recovery_reason_ holds a reason
    recheck,               \* the re-check of the latch is queued or its timer is armed
    fate,                  \* what became of the last request to show this fault
    \* History, read by no action.
    started,               \* sequences started
    asked,                 \* the user asked for an emergency stop in this sequence
    recovery               \* <<sequence, level, answer>> of the last call of recover()

machine == <<abort_state_, escalation_level_, shutdown_recovery_in_progress_>>
observers == <<klippy_observer_, cancel_state_observer_, seen_shutdown_during_reconnect_>>
timers == <<guard, orphans>>
sequence == <<generation, started, asked>>
setting == escalation_enabled
dialog == <<posted, latched, recheck, fate>>
environment == <<klippy, ready_in_flight, print_ended, setting>>
vars == <<machine, heater_interrupt_support_, observers, timers, sequence, inflight,
          print_outcome, environment, dialog, recovery>>

TypeOK ==
    /\ abort_state_ \in States
    /\ heater_interrupt_support_ \in Support
    /\ escalation_level_ \in 0..MaxEscalations
    /\ shutdown_recovery_in_progress_ \in BOOLEAN
    /\ seen_shutdown_during_reconnect_ \in BOOLEAN
    /\ guard \in [Timers -> 0..MaxAborts]
    /\ orphans \subseteq Timers \X (1..MaxAborts)
    /\ klippy_observer_ \in BOOLEAN
    /\ cancel_state_observer_ \in BOOLEAN
    /\ generation \in 0..MaxAborts
    /\ inflight \subseteq Requests
    /\ print_outcome \in BOOLEAN
    /\ klippy \in KlippyStates
    /\ ready_in_flight \in BOOLEAN
    /\ print_ended \in BOOLEAN
    /\ escalation_enabled \in BOOLEAN
    /\ posted \in BOOLEAN
    /\ latched \in BOOLEAN
    /\ recheck \in BOOLEAN
    /\ fate \in Fates
    /\ started \in 0..MaxAborts
    /\ asked \in BOOLEAN
    /\ recovery \in (0..MaxAborts) \X (0..MaxEscalations) \X Answers

NoTimers == [k \in Timers |-> 0]

\* The overlay ignores its first klippy notification, so the story begins with
\* a printer that has reported itself.
Init ==
    /\ abort_state_ = "IDLE"
    /\ heater_interrupt_support_ = "UNKNOWN"
    /\ escalation_level_ = 0
    /\ shutdown_recovery_in_progress_ = FALSE
    /\ seen_shutdown_during_reconnect_ = FALSE
    /\ guard = NoTimers
    /\ orphans = {}
    /\ klippy_observer_ = FALSE
    /\ cancel_state_observer_ = FALSE
    /\ generation = 0
    /\ inflight = {}
    /\ print_outcome = FALSE
    /\ klippy = "READY"
    /\ ready_in_flight = FALSE
    /\ print_ended = FALSE
    /\ escalation_enabled \in BOOLEAN
    /\ posted = FALSE
    /\ latched = FALSE
    /\ recheck = FALSE
    /\ fate = "none"
    /\ started = 0
    /\ asked = FALSE
    /\ recovery = <<0, 0, "restart">>

is_aborting == abort_state_ \notin {"IDLE", "COMPLETE"}

is_handling_shutdown ==
    \/ shutdown_recovery_in_progress_
    \/ abort_state_ \in {"SENT_ESTOP", "SENT_RESTART", "WAITING_RECONNECT"}

\* A request stamped with the sequence it belongs to and the guard generation
\* its callbacks captured.
Sent(c) == [cmd |-> c, level |-> escalation_level_', started |-> started',
            generation |-> generation']

-----------------------------------------------------------------------------
(* Transitions.  Each says what becomes of the machine, the guards, the    *)
(* observers and the requests; g and rest are the guards and the requests  *)
(* the caller leaves.  Counters, orphans and the dialog stay with it.      *)

TryHeaterInterrupt(g, rest) ==
    /\ abort_state_' = "TRY_HEATER_INTERRUPT"
    /\ guard' = [g EXCEPT !["heater_interrupt"] = started']
    /\ inflight' = rest \cup {Sent("heater_interrupt")}
    /\ UNCHANGED <<shutdown_recovery_in_progress_, observers, recovery>>

StartProbe(g, rest) ==
    /\ abort_state_' = "PROBE_QUEUE"
    /\ guard' = [g EXCEPT !["probe"] = started']
    /\ inflight' = rest \cup {Sent("probe")}
    /\ UNCHANGED <<shutdown_recovery_in_progress_, observers, recovery>>

\* Mutant: the suppression flag is left to a READY that may never come.
BugCompleteAbortKeepsFlag(rest) ==
    /\ abort_state_' = "COMPLETE"
    /\ guard' = NoTimers
    /\ cancel_state_observer_' = FALSE
    /\ klippy_observer_' = FALSE
    /\ inflight' = rest \cup {Sent("print_outcome")}
    /\ UNCHANGED <<shutdown_recovery_in_progress_, seen_shutdown_during_reconnect_, recovery>>

\* cancel_all_timers() and the observers, the suppression flag cleared, the
\* outcome badge deferred through lifetime_.
CompleteAbort(rest) ==
    /\ abort_state_' = "COMPLETE"
    /\ guard' = NoTimers
    /\ cancel_state_observer_' = FALSE
    /\ klippy_observer_' = FALSE
    /\ shutdown_recovery_in_progress_' = FALSE
    /\ inflight' = rest \cup {Sent("print_outcome")}
    /\ UNCHANGED <<seen_shutdown_during_reconnect_, recovery>>

\* The observer is told the current print state while it is being registered:
\* with the print already over, complete_abort() runs first, and arming the
\* timer, storing the observer and sending the RPC come after it.
SendCancelPrint(g, rest) ==
    /\ cancel_state_observer_' = TRUE
    /\ UNCHANGED <<seen_shutdown_during_reconnect_, recovery>>
    /\ \/ /\ print_ended
          /\ abort_state_' = "COMPLETE"
          /\ guard' = [NoTimers EXCEPT !["cancel"] = started']
          /\ klippy_observer_' = FALSE
          /\ shutdown_recovery_in_progress_' = FALSE
          /\ inflight' = rest \cup {Sent("print_outcome"), Sent("cancel")}
       \/ /\ ~print_ended
          /\ abort_state_' = "SENT_CANCEL"
          /\ guard' = [g EXCEPT !["cancel"] = started']
          /\ inflight' = rest \cup {Sent("cancel")}
          /\ UNCHANGED <<klippy_observer_, shutdown_recovery_in_progress_>>

\* Mutant: cancels the timers of the soft phases only.
BugEscalateKeepsRestartTimers(l, rest) ==
    /\ escalation_level_' = l + 1
    /\ shutdown_recovery_in_progress_' = TRUE
    /\ guard' = [k \in Timers |-> IF k \in {"restart", "reconnect"} THEN guard[k] ELSE 0]
    /\ cancel_state_observer_' = FALSE
    /\ abort_state_' = "SENT_ESTOP"
    /\ inflight' = rest \cup {Sent("estop")}
    /\ UNCHANGED <<klippy_observer_, seen_shutdown_during_reconnect_, recovery>>

\* escalate_to_estop() at escalation level l.
EscalateToEstop(l, rest) ==
    /\ escalation_level_' = l + 1
    /\ shutdown_recovery_in_progress_' = TRUE
    /\ guard' = NoTimers
    /\ cancel_state_observer_' = FALSE
    /\ abort_state_' = "SENT_ESTOP"
    /\ inflight' = rest \cup {Sent("estop")}
    /\ UNCHANGED <<klippy_observer_, seen_shutdown_during_reconnect_, recovery>>

\* recover() takes the M112 on, or refuses it through the error callback: a
\* chain is running already, spools are on the bed, or there is no API.
SendFirmwareRestart(rest) ==
    /\ abort_state_' = "SENT_RESTART"
    /\ guard' = [guard EXCEPT !["restart"] = started]
    /\ \E answer \in Answers :
           /\ inflight' = rest \cup {Sent(answer)}
           /\ recovery' = <<started, escalation_level_, answer>>
    /\ UNCHANGED <<shutdown_recovery_in_progress_, observers>>

\* The observer hears the current klippy state at once: a SHUTDOWN counts as
\* seen, anything else has no effect.
WaitForReconnect(rest) ==
    /\ abort_state_' = "WAITING_RECONNECT"
    /\ guard' = [guard EXCEPT !["restart"] = 0, !["reconnect"] = started]
    /\ klippy_observer_' = TRUE
    /\ seen_shutdown_during_reconnect_' = (klippy = "SHUTDOWN")
    /\ inflight' = rest
    /\ UNCHANGED <<shutdown_recovery_in_progress_, cancel_state_observer_, recovery>>

\* The windows open and close at any time, so a read of one may find either.
Reads(window) == IF window \in Windows THEN BOOLEAN ELSE {FALSE}

\* show_recovery_for(): under a suppression window the reason is latched and a
\* re-check of the latch arranged; otherwise the main-thread half is queued.
RequestDialog ==
    \E suppressed \in Reads("suppression") :
        /\ posted' = (posted \/ ~suppressed)
        /\ latched' = (latched \/ suppressed)
        /\ recheck' = (recheck \/ suppressed)
        /\ fate' = "none"

\* complete_abort()'s last step: a fault that outlived the recovery is shown.
SurfaceRecovery(was_handling_shutdown) ==
    LET outlived == was_handling_shutdown /\ klippy \in Faulted
    IN  \/ outlived /\ RequestDialog
        \/ ~outlived /\ UNCHANGED dialog

-----------------------------------------------------------------------------
(* start_abort().                                                          *)

\* Mutant: replies of the sequence before stay valid.
BugBeginSequenceNoInvalidate(estop) ==
    /\ ~is_aborting
    /\ started < MaxAborts
    /\ started' = started + 1
    /\ asked' = estop
    /\ UNCHANGED generation

\* The part every entry shares: a new generation drops the replies of the
\* sequence before.
BeginSequence(estop) ==
    /\ ~is_aborting
    /\ started < MaxAborts
    /\ started' = started + 1
    /\ generation' = generation + 1
    /\ asked' = estop

StartAbortCancel ==
    /\ BeginSequence(FALSE)
    /\ escalation_level_' = 0
    /\ SendCancelPrint(guard, inflight)
    /\ SurfaceRecovery(print_ended /\ shutdown_recovery_in_progress_)
    /\ UNCHANGED <<heater_interrupt_support_, orphans, print_outcome, environment>>

StartAbortEstop ==
    /\ BeginSequence(TRUE)
    /\ EscalateToEstop(0, inflight)
    /\ UNCHANGED <<heater_interrupt_support_, orphans, print_outcome, environment, dialog>>

\* Entry::Probe.  An UNKNOWN capability is resolved from discovery first.
StartAbortProbe ==
    /\ BeginSequence(FALSE)
    /\ escalation_level_' = 0
    /\ heater_interrupt_support_' \in
           IF heater_interrupt_support_ = "UNKNOWN" THEN {"SUPPORTED", "UNSUPPORTED"}
                                                    ELSE {heater_interrupt_support_}
    /\ \/ heater_interrupt_support_' = "SUPPORTED" /\ TryHeaterInterrupt(guard, inflight)
       \/ heater_interrupt_support_' # "SUPPORTED" /\ StartProbe(guard, inflight)
    /\ UNCHANGED <<orphans, print_outcome, environment, dialog>>

\* The E-Stop button of the progress modal, visible while is_aborting.
PressEstop ==
    /\ is_aborting
    /\ escalation_level_ < MaxEscalations
    /\ asked' = TRUE
    /\ UNCHANGED <<generation, started>>
    /\ EscalateToEstop(escalation_level_, inflight)
    /\ UNCHANGED <<heater_interrupt_support_, orphans, print_outcome, environment, dialog>>

-----------------------------------------------------------------------------
(* Replies.  bg_cb runs the body on the main thread unless the guard's     *)
(* generation has moved on; the body returns if the state is not the one   *)
(* the reply is for.                                                       *)

AwaitedIn == [heater_interrupt |-> "TRY_HEATER_INTERRUPT", probe |-> "PROBE_QUEUE",
              cancel |-> "SENT_CANCEL", estop |-> "SENT_ESTOP", restart |-> "SENT_RESTART",
              refusal |-> "SENT_RESTART"]

Awaited(r, c) ==
    /\ r.cmd = c
    /\ r.generation = generation
    /\ abort_state_ = AwaitedIn[c]

IgnoreReply(r) ==
    /\ r.cmd # "print_outcome"
    /\ r.generation # generation \/ abort_state_ # AwaitedIn[r.cmd]
    /\ inflight' = inflight \ {r}
    /\ UNCHANGED <<machine, heater_interrupt_support_, observers, timers, sequence,
                   print_outcome, environment, dialog, recovery>>

SetPrintOutcome(r) ==
    /\ r.cmd = "print_outcome"
    /\ inflight' = inflight \ {r}
    /\ print_outcome' = (print_outcome \/ r.generation = generation)
    /\ UNCHANGED <<machine, heater_interrupt_support_, observers, timers, sequence,
                   environment, dialog, recovery>>

OnHeaterInterruptReply(r) ==
    /\ Awaited(r, "heater_interrupt")
    /\ heater_interrupt_support_' \in {"SUPPORTED", "UNSUPPORTED"}
    /\ UNCHANGED <<sequence, escalation_level_, orphans, print_outcome, environment, dialog>>
    /\ StartProbe([guard EXCEPT !["heater_interrupt"] = 0], inflight \ {r})

OnProbeResponse(r) ==
    /\ Awaited(r, "probe")
    /\ UNCHANGED <<sequence, escalation_level_>>
    /\ SendCancelPrint([guard EXCEPT !["probe"] = 0], inflight \ {r})
    /\ SurfaceRecovery(print_ended /\ shutdown_recovery_in_progress_)
    /\ UNCHANGED <<heater_interrupt_support_, orphans, print_outcome, environment>>

\* The guard's timer of kind k is forgotten while it is still armed.
Forget(k) == orphans \cup ({k} \X ({guard[k]} \ {0}))

\* Mutant: escalates whatever the setting says.
BugOnProbeTimeoutAlwaysEscalates(g, rest) ==
    /\ UNCHANGED sequence
    /\ EscalateToEstop(escalation_level_, rest)
    /\ UNCHANGED dialog
    /\ UNCHANGED <<heater_interrupt_support_, print_outcome, environment>>

\* on_probe_timeout()'s decision, with the guards g and the requests rest.
OnProbeTimeout(g, rest) ==
    /\ UNCHANGED sequence
    /\ \/ /\ escalation_enabled
          /\ EscalateToEstop(escalation_level_, rest)
          /\ UNCHANGED dialog
       \/ /\ ~escalation_enabled
          /\ UNCHANGED escalation_level_
          /\ SendCancelPrint(g, rest)
          /\ SurfaceRecovery(print_ended /\ shutdown_recovery_in_progress_)
    /\ UNCHANGED <<heater_interrupt_support_, print_outcome, environment>>

\* probe_err calls on_probe_timeout(), which releases probe_timer_ as if it
\* had fired.
OnProbeError(r) ==
    /\ Awaited(r, "probe")
    /\ orphans' = Forget("probe")
    /\ OnProbeTimeout([guard EXCEPT !["probe"] = 0], inflight \ {r})

OnCancelSuccess(r) ==
    /\ Awaited(r, "cancel")
    /\ UNCHANGED <<sequence, escalation_level_>>
    /\ CompleteAbort(inflight \ {r})
    /\ SurfaceRecovery(shutdown_recovery_in_progress_)
    /\ UNCHANGED <<heater_interrupt_support_, orphans, print_outcome, environment>>

\* Mutant: only logs when escalation is off.
BugOnCancelErrorSilent(r) ==
    /\ Awaited(r, "cancel")
    /\ UNCHANGED sequence
    /\ \/ /\ escalation_enabled
          /\ orphans' = Forget("cancel")
          /\ EscalateToEstop(escalation_level_, inflight \ {r})
          /\ UNCHANGED dialog
       \/ /\ ~escalation_enabled
          /\ inflight' = inflight \ {r}
          /\ UNCHANGED <<machine, observers, timers, dialog, recovery>>
    /\ UNCHANGED <<heater_interrupt_support_, print_outcome, environment>>

\* cancel_err: escalate through on_cancel_timeout(), which releases the still
\* armed cancel_timer_, or give up.
OnCancelError(r) ==
    /\ Awaited(r, "cancel")
    /\ UNCHANGED sequence
    /\ \/ /\ escalation_enabled
          /\ orphans' = Forget("cancel")
          /\ EscalateToEstop(escalation_level_, inflight \ {r})
          /\ UNCHANGED dialog
       \/ /\ ~escalation_enabled
          /\ UNCHANGED <<escalation_level_, orphans>>
          /\ CompleteAbort(inflight \ {r})
          /\ SurfaceRecovery(shutdown_recovery_in_progress_)
    /\ UNCHANGED <<heater_interrupt_support_, print_outcome, environment>>

\* M112's reply, or its error: either way the recovery follows.
OnEstopSent(r) ==
    /\ Awaited(r, "estop")
    /\ UNCHANGED <<sequence, escalation_level_>>
    /\ SendFirmwareRestart(inflight \ {r})
    /\ UNCHANGED <<heater_interrupt_support_, orphans, print_outcome, environment, dialog>>

\* on_restart_sent(RESTART_ISSUED), and restart_err: a failure or a refusal.
OnRestartIssued(r) ==
    /\ Awaited(r, "restart") \/ Awaited(r, "refusal")
    /\ UNCHANGED <<sequence, escalation_level_>>
    /\ WaitForReconnect(inflight \ {r})
    /\ UNCHANGED <<heater_interrupt_support_, orphans, print_outcome, environment, dialog>>

\* on_restart_sent(KLIPPY_READY): the recovery polled Klipper READY itself; the
\* subject has heard of it already, or will.  The flag is cleared before
\* complete_abort(), so no dialog is raised for a subject that lags.  Nothing
\* tells the verdict of an earlier M112's recovery apart: its READY may have
\* been polled before this M112.
OnRestartVerified(r) ==
    /\ Awaited(r, "restart")
    /\ UNCHANGED <<sequence, escalation_level_>>
    /\ CompleteAbort(inflight \ {r})
    /\ \/ /\ r.level = escalation_level_
          /\ ready_in_flight' = (klippy # "READY")
          /\ UNCHANGED fate
       \/ /\ r.level < escalation_level_
          /\ ready_in_flight' \in {FALSE, klippy # "READY"}
          /\ fate' = "misled"
    /\ UNCHANGED <<heater_interrupt_support_, orphans, print_outcome, klippy, print_ended,
                   setting, posted, latched, recheck>>

-----------------------------------------------------------------------------
(* One-shot timers.                                                        *)

\* Timer k armed by sequence n fires; its callback first releases whatever
\* timer the guard of its kind holds now.
Fires(k, n) ==
    \/ n # 0 /\ guard[k] = n /\ UNCHANGED orphans
    \/ <<k, n>> \in orphans /\ orphans' = Forget(k) \ {<<k, n>>}

Released(k) == [guard EXCEPT ![k] = 0]

TimerState == [heater_interrupt |-> "TRY_HEATER_INTERRUPT", probe |-> "PROBE_QUEUE",
               cancel |-> "SENT_CANCEL"]

\* The callback finds another state and returns; with escalation off, a cancel
\* that takes long only changes the message.
StaleTimeout(k, n) ==
    /\ k \in DOMAIN TimerState
    /\ Fires(k, n)
    /\ abort_state_ # TimerState[k] \/ (k = "cancel" /\ ~escalation_enabled)
    /\ guard' = Released(k)
    /\ UNCHANGED <<machine, heater_interrupt_support_, observers, sequence, inflight,
                   print_outcome, environment, dialog, recovery>>

HeaterInterruptTimeout(n) ==
    /\ Fires("heater_interrupt", n)
    /\ abort_state_ = "TRY_HEATER_INTERRUPT"
    /\ heater_interrupt_support_' = "UNSUPPORTED"
    /\ UNCHANGED <<sequence, escalation_level_, print_outcome, environment, dialog>>
    /\ StartProbe(Released("heater_interrupt"), inflight)

ProbeTimeout(n) ==
    /\ Fires("probe", n)
    /\ abort_state_ = "PROBE_QUEUE"
    /\ OnProbeTimeout(Released("probe"), inflight)

CancelTimeout(n) ==
    /\ Fires("cancel", n)
    /\ abort_state_ = "SENT_CANCEL"
    /\ escalation_enabled
    /\ UNCHANGED sequence
    /\ EscalateToEstop(escalation_level_, inflight)
    /\ UNCHANGED <<heater_interrupt_support_, print_outcome, environment, dialog>>

\* Mutant: leaves a fault that outlived the recovery to the overlay's observer.
BugRecoveryTimeoutSilent(k, n) ==
    /\ k \in {"restart", "reconnect"}
    /\ Fires(k, n)
    /\ UNCHANGED <<sequence, escalation_level_>>
    /\ CompleteAbort(inflight)
    /\ UNCHANGED <<heater_interrupt_support_, print_outcome, environment, dialog>>

\* restart_timer_cb and reconnect_timer_cb complete whatever the state is.
RecoveryTimeout(k, n) ==
    /\ k \in {"restart", "reconnect"}
    /\ Fires(k, n)
    /\ UNCHANGED <<sequence, escalation_level_>>
    /\ CompleteAbort(inflight)
    /\ SurfaceRecovery(shutdown_recovery_in_progress_)
    /\ UNCHANGED <<heater_interrupt_support_, print_outcome, environment>>

-----------------------------------------------------------------------------
(* Subjects, the recovery dialog, settings and the printer switch.         *)

\* The overlay's observer.  A fault asks for the dialog.  A READY dismisses it
\* and drops what was asked for or latched; that half of it runs later on the
\* main thread, and may so drop a reason latched for the next fault.
OverlayHears(s) ==
    \/ s \in Faulted /\ RequestDialog
    \/ /\ s \in Faulted /\ klippy \notin Faulted /\ "suppression" \in Windows
       /\ latched' = FALSE /\ recheck' = TRUE /\ fate' = "waived"
       /\ UNCHANGED posted
    \/ /\ s = "READY"
       /\ posted' = FALSE /\ latched' = FALSE /\ fate' = "none"
       /\ UNCHANGED recheck
    \/ /\ s = "STARTUP"
       /\ fate' = "none"
       /\ UNCHANGED <<posted, latched, recheck>>

\* klippy_state changes: on_klippy_state_changed() accepts a READY only after a
\* SHUTDOWN.
KlippyChanges(s) ==
    /\ s # klippy
    /\ ready_in_flight => s = "READY"
    /\ klippy' = s
    /\ ready_in_flight' = FALSE
    /\ OverlayHears(s)
    /\ UNCHANGED <<sequence, escalation_level_, heater_interrupt_support_, orphans,
                   print_outcome, print_ended, setting>>
    /\ LET waiting == klippy_observer_ /\ abort_state_ = "WAITING_RECONNECT"
           back == s = "READY" /\ seen_shutdown_during_reconnect_
       IN  \/ waiting /\ back /\ CompleteAbort(inflight)
           \/ /\ ~(waiting /\ back)
              /\ seen_shutdown_during_reconnect_' =
                     (seen_shutdown_during_reconnect_ \/ (waiting /\ s = "SHUTDOWN"))
              /\ UNCHANGED <<abort_state_, shutdown_recovery_in_progress_, guard, inflight,
                             klippy_observer_, cancel_state_observer_, recovery>>

\* print_state_enum reaches a terminal state: during SENT_CANCEL the abort is done.
PrintEnds ==
    /\ ~print_ended
    /\ print_ended' = TRUE
    /\ UNCHANGED <<sequence, escalation_level_, heater_interrupt_support_, orphans,
                   print_outcome, klippy, ready_in_flight, setting>>
    /\ \/ /\ cancel_state_observer_ /\ abort_state_ = "SENT_CANCEL"
          /\ CompleteAbort(inflight)
          /\ SurfaceRecovery(shutdown_recovery_in_progress_)
       \/ /\ ~(cancel_state_observer_ /\ abort_state_ = "SENT_CANCEL")
          /\ UNCHANGED <<abort_state_, shutdown_recovery_in_progress_, guard, inflight,
                         observers, recovery, dialog>>

\* A new job starts and clears the badge.
PrintStarts ==
    /\ print_ended
    /\ print_ended' = FALSE
    /\ print_outcome' = FALSE
    /\ UNCHANGED <<machine, heater_interrupt_support_, observers, timers, sequence, inflight,
                   klippy, ready_in_flight, setting, dialog, recovery>>

\* The dialog is shown; or declined, and then given up if it was the wizard or
\* a restart the user sent that declined it and nobody keeps the reason.
Answer(shown, given_up) ==
    fate' = IF shown THEN "told" ELSE IF given_up /\ fate # "told" THEN "waived" ELSE fate

\* show_recovery_for_main() for a live request: nobody keeps a declined one.
\* The latch is cleared, unless the dialog is still up.
ShowRecovery ==
    /\ posted
    /\ posted' = FALSE
    /\ \E excused \in Reads("excuse") :
           LET declined == excused \/ is_handling_shutdown
           IN  /\ Answer(~declined, excused)
               /\ latched' \in {latched /\ (declined \/ fate = "told"), latched /\ declined}
    /\ UNCHANGED <<machine, heater_interrupt_support_, observers, timers, sequence, inflight,
                   print_outcome, environment, recheck, recovery>>

\* recovery_recheck_cb() past the suppression window (under it, the timer is
\* armed again).  A reason declined goes back into the latch, to be tried again
\* until kRecoveryRecheckMaxRetries re-checks are spent.
Recheck ==
    /\ recheck
    /\ \E excused \in Reads("excuse") :
           LET declined == excused \/ is_handling_shutdown
           IN  /\ latched' = (latched /\ declined)
               /\ recheck' \in {FALSE, latched'}
               /\ Answer(latched /\ ~declined, latched' /\ ~recheck' /\ excused)
    /\ UNCHANGED <<machine, heater_interrupt_support_, observers, timers, sequence, inflight,
                   print_outcome, environment, posted, recovery>>

\* The settings screen is under the modal while an abort runs.
ChangeSetting ==
    /\ ~is_aborting
    /\ escalation_enabled' = ~escalation_enabled
    /\ UNCHANGED <<machine, heater_interrupt_support_, observers, timers, sequence, inflight,
                   print_outcome, klippy, ready_in_flight, print_ended, dialog,
                   recovery>>

\* deinit_subjects() when the user switches printers, with the UpdateQueue shut
\* down around it: queued replies and dialog requests are discarded, and the
\* overlay forgets the session.  The printer list is under the modal while an
\* abort runs.  The next printer reports itself READY first, as in Init.
DeinitSubjects ==
    /\ ~is_aborting
    /\ guard' = NoTimers
    /\ klippy_observer_' = FALSE
    /\ cancel_state_observer_' = FALSE
    /\ inflight' = {}
    /\ klippy' = "READY"
    /\ ready_in_flight' = FALSE
    /\ posted' = FALSE /\ latched' = FALSE /\ recheck' = FALSE /\ fate' = "none"
    /\ UNCHANGED <<machine, heater_interrupt_support_, seen_shutdown_during_reconnect_, orphans,
                   sequence, print_outcome, print_ended, setting, recovery>>

-----------------------------------------------------------------------------
Reply ==
    \E r \in inflight :
        \/ IgnoreReply(r) \/ SetPrintOutcome(r)
        \/ OnHeaterInterruptReply(r)
        \/ OnProbeResponse(r) \/ OnProbeError(r)
        \/ OnCancelSuccess(r) \/ OnCancelError(r)
        \/ OnEstopSent(r)
        \/ OnRestartIssued(r) \/ OnRestartVerified(r)

TimerFires ==
    \E n \in 1..MaxAborts :
        \/ \E k \in Timers : StaleTimeout(k, n) \/ RecoveryTimeout(k, n)
        \/ HeaterInterruptTimeout(n) \/ ProbeTimeout(n) \/ CancelTimeout(n)

User == StartAbortProbe \/ StartAbortCancel \/ StartAbortEstop \/ PressEstop
            \/ ChangeSetting \/ DeinitSubjects

Printer == (\E s \in KlippyStates : KlippyChanges(s)) \/ PrintEnds \/ PrintStarts

Next == Reply \/ TimerFires \/ User \/ Printer \/ ShowRecovery \/ Recheck

Spec == Init /\ [][Next]_vars

\* Every request is answered (RequestTracker!EveryRequestSettles) and its
\* callback reaches the main thread (UpdateQueue!EveryCallbackFinishes); LVGL
\* fires an armed timer.  The user and the printer owe nothing.
FairSpec == Spec /\ WF_vars(Reply) /\ WF_vars(TimerFires)

-----------------------------------------------------------------------------
(* Properties.                                                             *)

\* The printer is never emergency-stopped behind the user's back: within an
\* abort, M112 has been sent only if the user pressed or chose an emergency
\* stop, or allows a cancel to escalate.
NoUnaskedEstop ==
    is_aborting /\ escalation_level_ > 0 => asked \/ escalation_enabled

\* A fault has been, or is about to be, shown to the user; or the overlay gave
\* it up, for the wizard, for a restart the user sent, or behind a READY.
Shown == posted \/ (latched /\ recheck) \/ fate \in {"told", "waived"}

\* M112 leaves Klipper in SHUTDOWN, so no sequence ends before recover() has been
\* called for its last M112, whichever timer, reply or press came in between.
\* If recover() refused it, a Klipper still down is put before the user, who
\* alone can recover it; only the verdict of an earlier M112's recovery, which the
\* code cannot tell apart, passes for this one's.
EveryEstopIsRecovered ==
    abort_state_ = "COMPLETE" /\ escalation_level_ > 0
        => \/ recovery = <<started, escalation_level_, "restart">>
           \/ /\ recovery = <<started, escalation_level_, "refusal">>
              /\ klippy \in Faulted => Shown \/ fate = "misled"

\* Outside an abort the recovery dialog is not suppressed (complete_abort():
\* a latched flag "silently suppressed every future recovery dialog").
SuppressionEnds == ~is_aborting => ~is_handling_shutdown

\* The abort's own state and the flag it sets for others agree: a sequence's
\* escalation level stays within its bound, and no flag outlives its sequence.
AbortIsSound == TypeOK /\ SuppressionEnds

\* The abort never silences a fault it outlives: outside an abort a Klipper fault
\* has been, or is about to be, put before the user, also when it began while
\* the abort was suppressing the dialog, and also through a suppression window
\* (latched, the re-check arranged).  Three exceptions, none of the abort's own
\* choosing: a READY the subject has yet to hear of, a fault the overlay itself
\* gave up, and the verdict of an earlier M112's recovery.
NoSilentFault ==
    ~is_aborting /\ klippy \in Faulted => Shown \/ ready_in_flight \/ fate = "misled"

\* A reply to a request of an earlier sequence never moves the current one.
RepliesStayInTheirSequence ==
    [][\A r \in inflight \ inflight' :
           r.started < started /\ started' = started =>
               UNCHANGED <<machine, print_outcome>>]_vars

\* Every abort ends: no order of replies, timeouts, presses and printer events
\* leaves the progress modal up for good.
EveryAbortEnds == is_aborting ~> ~is_aborting
=============================================================================
