------------------------- MODULE AbortManagerProofs -------------------------
(***************************************************************************)
(* Proofs about AbortManager for every number of aborts and escalations.   *)
(***************************************************************************)
EXTENDS AbortManager, TLAPS

-----------------------------------------------------------------------------
(* The inductive invariant.                                                *)

\* Before and after the M112 of a sequence.
Soft == {"TRY_HEATER_INTERRUPT", "PROBE_QUEUE", "SENT_CANCEL"}
Hard == {"SENT_ESTOP", "SENT_RESTART", "WAITING_RECONNECT"}
Recovering == {"SENT_RESTART", "WAITING_RECONNECT"}
RecoveryTimers == {"restart", "reconnect"}

\* The escalation level and the suppression flag say which half of the
\* sequence the machine is in.
Halves ==
    /\ abort_state_ \in Soft => escalation_level_ = 0
    /\ abort_state_ \in Hard => escalation_level_ > 0
    /\ shutdown_recovery_in_progress_ <=> abort_state_ \in Hard

\* The timers that complete an abort whatever its state is are armed only while
\* the recovery is under way, and are never orphaned.
RecoveryTimersFit ==
    /\ \A k \in RecoveryTimers : guard[k] # 0 => abort_state_ \in Recovering
    /\ \A x \in orphans : x[1] \notin RecoveryTimers

\* recover() has been called for the last M112 once the machine is past it.
RecoverySent ==
    abort_state_ \in Recovering \/ (abort_state_ = "COMPLETE" /\ escalation_level_ > 0)
        => recovery \in {<<started, escalation_level_, a>> : a \in Answers}

\* A reply's generation is that of the sequence that asked.
Stamped(S) == S \subseteq Requests /\ \A r \in S : r.started = r.generation

Stamps == generation = started /\ Stamped(inflight)

\* The recovery dialog's part of TypeOK.
DialogOK == posted \in BOOLEAN /\ latched \in BOOLEAN /\ recheck \in BOOLEAN /\ fate \in Fates

IInv == TypeOK /\ Halves /\ NoUnaskedEstop /\ RecoveryTimersFit /\ RecoverySent /\ Stamps

-----------------------------------------------------------------------------
(* What the transitions do to the requests and the guards.                 *)

\* A request sent by an action that keeps the generation in step with the
\* sequence is well-formed and stamped with both.
LEMMA SentIsStamped ==
    ASSUME NEW c \in Commands, NEW rest, Stamped(rest),
           escalation_level_' \in 0..MaxEscalations,
           started' \in 0..MaxAborts, generation' = started'
    PROVE  Stamped(rest \cup {Sent(c)})
<1>1. Sent(c) \in Requests
  BY DEF Sent, Requests
<1>2. Sent(c).started = Sent(c).generation
  BY DEF Sent
<1> QED
  BY <1>1, <1>2 DEF Stamped

\* No guard is left holding a timer.
LEMMA NoTimersType == NoTimers \in [Timers -> 0..MaxAborts] /\ \A k \in Timers : NoTimers[k] = 0
BY BoundsAssumption DEF NoTimers

\* Arming a timer for sequence n, or releasing it (n = 0), disturbs no other guard.
LEMMA ArmType ==
    ASSUME NEW g \in [Timers -> 0..MaxAborts], NEW k \in Timers, NEW n \in 0..MaxAborts
    PROVE  /\ [g EXCEPT ![k] = n] \in [Timers -> 0..MaxAborts]
           /\ \A j \in Timers : [g EXCEPT ![k] = n][j] = IF j = k THEN n ELSE g[j]
OBVIOUS

\* Timers that fire or are forgotten are orphaned only in their own kind.
LEMMA FiresType ==
    ASSUME TypeOK, NEW k \in Timers, NEW n, Fires(k, n)
    PROVE  /\ orphans' \subseteq Timers \X (1..MaxAborts)
           /\ \A x \in orphans' : x \in orphans \/ x[1] = k
<1>1. Forget(k) \subseteq Timers \X (1..MaxAborts) /\ \A x \in Forget(k) : x \in orphans \/ x[1] = k
  BY DEF Forget, TypeOK
<1> QED
  BY <1>1 DEF Fires, TypeOK

\* What every action has to leave behind for the requests it sends to be
\* stamped: counters in range, the generation in step with the sequence.
Counters ==
    /\ escalation_level_' \in 0..MaxEscalations
    /\ started' \in 0..MaxAborts
    /\ generation' = started'

\* Trying the interrupt or probing the queue arms one timer of a soft phase.
LEMMA SoftPhaseEffect ==
    ASSUME NEW g \in [Timers -> 0..MaxAborts], NEW rest, Stamped(rest), Counters,
           TryHeaterInterrupt(g, rest) \/ StartProbe(g, rest)
    PROVE  /\ abort_state_' \in {"TRY_HEATER_INTERRUPT", "PROBE_QUEUE"}
           /\ guard' \in [Timers -> 0..MaxAborts]
           /\ \A k \in RecoveryTimers : guard'[k] = g[k]
           /\ Stamped(inflight)'
           /\ UNCHANGED <<shutdown_recovery_in_progress_, observers, recovery>>
<1>1. CASE TryHeaterInterrupt(g, rest)
  <2>1. Stamped(rest \cup {Sent("heater_interrupt")})
    BY SentIsStamped DEF Counters, Commands
  <2> QED
    BY <1>1, <2>1 DEF TryHeaterInterrupt, Stamped, Requests, Counters, Timers, RecoveryTimers
<1>2. CASE StartProbe(g, rest)
  <2>1. Stamped(rest \cup {Sent("probe")})
    BY SentIsStamped DEF Counters, Commands
  <2> QED
    BY <1>2, <2>1 DEF StartProbe, Stamped, Requests, Counters, Timers, RecoveryTimers
<1> QED
  BY <1>1, <1>2

\* Completing the abort leaves no timer, observer or suppression.
LEMMA CompleteEffect ==
    ASSUME NEW rest, Stamped(rest), Counters, CompleteAbort(rest)
    PROVE  /\ abort_state_' = "COMPLETE" /\ shutdown_recovery_in_progress_' = FALSE
           /\ guard' \in [Timers -> 0..MaxAborts] /\ \A k \in Timers : guard'[k] = 0
           /\ klippy_observer_' = FALSE /\ cancel_state_observer_' = FALSE
           /\ Stamped(inflight)'
           /\ UNCHANGED <<seen_shutdown_during_reconnect_, recovery>>
<1>1. Stamped(rest \cup {Sent("print_outcome")})
  BY SentIsStamped DEF Counters, Commands
<1> QED
  BY <1>1, NoTimersType DEF CompleteAbort, Stamped, Requests

\* Sending the cancel ends in SENT_CANCEL or, with the print over, in COMPLETE
\* without suppression; the recovery timers are not touched or are cancelled.
LEMMA CancelEffect ==
    ASSUME NEW g \in [Timers -> 0..MaxAborts], NEW rest, Stamped(rest), Counters,
           SendCancelPrint(g, rest), klippy_observer_ \in BOOLEAN
    PROVE  /\ guard' \in [Timers -> 0..MaxAborts]
           /\ \A k \in RecoveryTimers : guard'[k] \in {0, g[k]}
           /\ cancel_state_observer_' = TRUE /\ klippy_observer_' \in BOOLEAN
           /\ Stamped(inflight)'
           /\ UNCHANGED <<seen_shutdown_during_reconnect_, recovery>>
           /\ \/ /\ print_ended /\ abort_state_' = "COMPLETE"
                 /\ shutdown_recovery_in_progress_' = FALSE
              \/ /\ ~print_ended /\ abort_state_' = "SENT_CANCEL"
                 /\ UNCHANGED shutdown_recovery_in_progress_
<1>1. Stamped(rest \cup {Sent("cancel")}) /\ Stamped(rest \cup {Sent("print_outcome")})
  BY SentIsStamped DEF Counters, Commands
<1>2. Stamped(rest \cup {Sent("print_outcome"), Sent("cancel")})
  BY <1>1 DEF Stamped
<1>3. started' \in 0..MaxAborts /\ "cancel" \in Timers
  BY DEF Counters, Timers
<1>4. Stamped(inflight)'
  BY <1>1, <1>2 DEF SendCancelPrint, Stamped, Requests
<1>5. CASE print_ended
  <2>1. /\ [NoTimers EXCEPT !["cancel"] = started'] \in [Timers -> 0..MaxAborts]
        /\ \A j \in Timers : [NoTimers EXCEPT !["cancel"] = started'][j]
                                = IF j = "cancel" THEN started' ELSE NoTimers[j]
    BY <1>3, NoTimersType, ArmType
  <2> QED
    BY <1>4, <1>5, <2>1, NoTimersType DEF SendCancelPrint, Timers, RecoveryTimers
<1>6. CASE ~print_ended
  <2>1. /\ [g EXCEPT !["cancel"] = started'] \in [Timers -> 0..MaxAborts]
        /\ \A j \in Timers : [g EXCEPT !["cancel"] = started'][j]
                                = IF j = "cancel" THEN started' ELSE g[j]
    BY <1>3, ArmType
  <2> QED
    BY <1>4, <1>6, <2>1 DEF SendCancelPrint, Timers, RecoveryTimers
<1> QED
  BY <1>5, <1>6

\* Escalating cancels every timer and raises the suppression.
LEMMA EscalateEffect ==
    ASSUME NEW l \in 0..(MaxEscalations - 1), NEW rest, Stamped(rest), EscalateToEstop(l, rest),
           started' \in 0..MaxAborts, generation' = started'
    PROVE  /\ escalation_level_' = l + 1 /\ escalation_level_' \in 0..MaxEscalations
           /\ abort_state_' = "SENT_ESTOP" /\ shutdown_recovery_in_progress_' = TRUE
           /\ guard' \in [Timers -> 0..MaxAborts] /\ \A k \in Timers : guard'[k] = 0
           /\ cancel_state_observer_' = FALSE
           /\ Stamped(inflight)'
           /\ UNCHANGED <<klippy_observer_, seen_shutdown_during_reconnect_, recovery>>
<1>1. escalation_level_' = l + 1 /\ escalation_level_' \in 0..MaxEscalations
  BY BoundsAssumption DEF EscalateToEstop
<1>2. Stamped(rest \cup {Sent("estop")})
  BY <1>1, SentIsStamped DEF Commands
<1> QED
  BY <1>1, <1>2, NoTimersType DEF EscalateToEstop, Stamped, Requests

\* Sending the recovery records it for the escalation it answers.
LEMMA RestartEffect ==
    ASSUME TypeOK, NEW rest, Stamped(rest), Counters, SendFirmwareRestart(rest)
    PROVE  /\ abort_state_' = "SENT_RESTART"
           /\ guard' \in [Timers -> 0..MaxAborts]
           /\ Stamped(inflight)'
           /\ recovery' \in {<<started, escalation_level_, a>> : a \in Answers}
           /\ UNCHANGED <<shutdown_recovery_in_progress_, observers>>
<1>1. Stamped(rest \cup {Sent("restart")}) /\ Stamped(rest \cup {Sent("refusal")})
  BY SentIsStamped DEF Counters, Commands
<1>2. PICK answer \in Answers : /\ inflight' = rest \cup {Sent(answer)}
                                /\ recovery' = <<started, escalation_level_, answer>>
  BY DEF SendFirmwareRestart
<1>3. Stamped(inflight)'
  BY <1>1, <1>2 DEF Stamped, Requests, Answers
<1> QED
  BY <1>2, <1>3, ArmType DEF SendFirmwareRestart, TypeOK, Timers

\* Waiting for Klipper swaps one recovery timer for the other.
LEMMA ReconnectEffect ==
    ASSUME TypeOK, NEW rest, Stamped(rest), WaitForReconnect(rest)
    PROVE  /\ abort_state_' = "WAITING_RECONNECT"
           /\ guard' \in [Timers -> 0..MaxAborts]
           /\ klippy_observer_' = TRUE /\ seen_shutdown_during_reconnect_' \in BOOLEAN
           /\ Stamped(inflight)'
           /\ UNCHANGED <<shutdown_recovery_in_progress_, cancel_state_observer_, recovery>>
<1>1. [guard EXCEPT !["restart"] = 0, !["reconnect"] = started] \in [Timers -> 0..MaxAborts]
  <2>1. 0 \in 0..MaxAborts /\ {"restart", "reconnect"} \subseteq Timers
    BY BoundsAssumption DEF Timers
  <2>2. [guard EXCEPT !["restart"] = 0] \in [Timers -> 0..MaxAborts]
    BY <2>1, ArmType DEF TypeOK
  <2> QED
    BY <2>1, <2>2, ArmType DEF TypeOK
<1>2. seen_shutdown_during_reconnect_' \in BOOLEAN
  BY DEF WaitForReconnect
<1>3. Stamped(inflight)'
  BY DEF WaitForReconnect, Stamped, Requests
<1> QED
  BY <1>1, <1>2, <1>3 DEF WaitForReconnect

-----------------------------------------------------------------------------
(* The invariant, one action at a time.                                    *)

\* The machine starts idle, with nothing armed, sent or suppressed.
LEMMA InitHolds == Init => IInv
<1> SUFFICES ASSUME Init PROVE IInv
  OBVIOUS
<1>1. TypeOK
  <2>1. recovery \in (0..MaxAborts) \X (0..MaxEscalations) \X Answers /\ 0 \in 0..MaxAborts /\ 0 \in 0..MaxEscalations
    BY BoundsAssumption DEF Init, Answers
  <2>2. orphans \subseteq Timers \X (1..MaxAborts) /\ inflight \subseteq Requests
    BY DEF Init
  <2> QED
    BY <2>1, <2>2, NoTimersType DEF Init, TypeOK, States, Support, KlippyStates, Fates
<1>2. Stamped({})
  BY DEF Stamped
<1> QED
  BY <1>1, <1>2, NoTimersType, BoundsAssumption
     DEF Init, IInv, Halves, NoUnaskedEstop, is_aborting, RecoveryTimersFit, RecoveryTimers, Timers,
         RecoverySent, Recovering, Soft, Hard, Stamps

\* Removing a request leaves the others stamped.
LEMMA FewerStamped == ASSUME Stamps, NEW S \in SUBSET inflight PROVE Stamped(S)
BY DEF Stamps, Stamped

\* A new sequence takes a new number and, with it, a new generation.
LEMMA BeginCounts ==
    ASSUME TypeOK, Stamps, NEW e, BeginSequence(e)
    PROVE  /\ started' = started + 1 /\ started' \in 0..MaxAborts /\ generation' = started'
           /\ asked' = e /\ abort_state_ \in {"IDLE", "COMPLETE"}
BY BoundsAssumption DEF BeginSequence, TypeOK, Stamps, is_aborting

\* Asking for the dialog, or not, keeps the dialog's state well-formed.
LEMMA DialogType ==
    ASSUME TypeOK, NEW b, SurfaceRecovery(b) \/ RequestDialog \/ UNCHANGED dialog
    PROVE  DialogOK'
<1>1. CASE UNCHANGED dialog
  BY <1>1 DEF dialog, DialogOK, TypeOK
<1>2. CASE RequestDialog
  <2>1. PICK suppressed \in BOOLEAN :
            /\ posted' = (posted \/ ~suppressed) /\ latched' = (latched \/ suppressed)
            /\ recheck' = (recheck \/ suppressed) /\ fate' = "none"
    BY <1>2 DEF RequestDialog, Reads
  <2> QED
    BY <2>1 DEF DialogOK, TypeOK, Fates
<1> QED
  BY <1>1, <1>2 DEF SurfaceRecovery

\* start_abort(), all three entries.
LEMMA StartHolds ==
    ASSUME IInv, StartAbortProbe \/ StartAbortCancel \/ StartAbortEstop
    PROVE  IInv'
<1> USE DEF IInv
<1>0. Stamped(inflight)
  BY DEF Stamps
<1>1. CASE StartAbortProbe
  <2>1. /\ started' = started + 1 /\ started' \in 0..MaxAborts /\ generation' = started'
        /\ asked' = FALSE /\ abort_state_ \in {"IDLE", "COMPLETE"}
    BY <1>1, BeginCounts DEF StartAbortProbe
  <2>2. Counters
    BY <1>1, <2>1, BoundsAssumption DEF Counters, StartAbortProbe
  <2>3. /\ abort_state_' \in {"TRY_HEATER_INTERRUPT", "PROBE_QUEUE"}
        /\ guard' \in [Timers -> 0..MaxAborts]
        /\ \A k \in RecoveryTimers : guard'[k] = guard[k]
        /\ Stamped(inflight)'
        /\ UNCHANGED <<shutdown_recovery_in_progress_, observers, recovery>>
    BY <1>0, <1>1, <2>2, SoftPhaseEffect DEF StartAbortProbe, TypeOK
  <2>4. TypeOK'
    <3>1. heater_interrupt_support_' \in Support
      BY <1>1 DEF StartAbortProbe, TypeOK, Support
    <3>2. UNCHANGED <<orphans, print_outcome, environment, dialog>>
      BY <1>1 DEF StartAbortProbe
    <3>3. TypeOK
      BY DEF IInv
    <3> HIDE DEF IInv
    <3>4. /\ abort_state_' \in States /\ inflight' \subseteq Requests
          /\ asked' \in BOOLEAN /\ generation' \in 0..MaxAborts
      BY <2>1, <2>3 DEF States, Stamped
    <3>5. /\ shutdown_recovery_in_progress_' \in BOOLEAN
          /\ seen_shutdown_during_reconnect_' \in BOOLEAN
          /\ klippy_observer_' \in BOOLEAN /\ cancel_state_observer_' \in BOOLEAN
          /\ recovery' \in (0..MaxAborts) \X (0..MaxEscalations) \X Answers
      BY <2>3, <3>3 DEF TypeOK, observers
    <3>6. /\ orphans' \subseteq Timers \X (1..MaxAborts) /\ print_outcome' \in BOOLEAN
          /\ klippy' \in KlippyStates /\ ready_in_flight' \in BOOLEAN /\ print_ended' \in BOOLEAN
          /\ escalation_enabled' \in BOOLEAN /\ DialogOK'
      BY <3>2, <3>3, DialogType DEF TypeOK, environment, setting
    <3> QED
      BY <2>1, <2>2, <2>3, <3>1, <3>4, <3>5, <3>6 DEF TypeOK, Counters, DialogOK
  <2>5. (Halves /\ NoUnaskedEstop /\ RecoverySent)'
    BY <1>1, <2>1, <2>3 DEF StartAbortProbe, Halves, NoUnaskedEstop, is_aborting, RecoverySent, Soft, Hard,
       Recovering
  <2>6. RecoveryTimersFit'
    BY <1>1, <2>1, <2>3 DEF StartAbortProbe, RecoveryTimersFit, Recovering
  <2> QED
    BY <2>1, <2>3, <2>4, <2>5, <2>6 DEF Stamps
<1>2. CASE StartAbortCancel
  <2>1. /\ started' = started + 1 /\ started' \in 0..MaxAborts /\ generation' = started'
        /\ asked' = FALSE /\ abort_state_ \in {"IDLE", "COMPLETE"}
    BY <1>2, BeginCounts DEF StartAbortCancel
  <2>2. Counters /\ escalation_level_' = 0
    BY <1>2, <2>1, BoundsAssumption DEF Counters, StartAbortCancel
  <2>3. /\ guard' \in [Timers -> 0..MaxAborts]
        /\ \A k \in RecoveryTimers : guard'[k] \in {0, guard[k]}
        /\ cancel_state_observer_' = TRUE /\ klippy_observer_' \in BOOLEAN
        /\ Stamped(inflight)'
        /\ UNCHANGED <<seen_shutdown_during_reconnect_, recovery>>
        /\ \/ /\ print_ended /\ abort_state_' = "COMPLETE"
              /\ shutdown_recovery_in_progress_' = FALSE
           \/ /\ ~print_ended /\ abort_state_' = "SENT_CANCEL"
              /\ UNCHANGED shutdown_recovery_in_progress_
    BY <1>0, <1>2, <2>2, CancelEffect DEF StartAbortCancel, TypeOK
  <2>4. TypeOK'
    <3>1. DialogOK'
      BY <1>2, DialogType DEF StartAbortCancel, TypeOK
    <3> QED
      BY <1>2, <2>1, <2>2, <2>3, <3>1, BoundsAssumption
         DEF TypeOK, StartAbortCancel, Counters, States, Stamped, DialogOK, environment, setting
  <2>5. (Halves /\ NoUnaskedEstop /\ RecoverySent)'
    BY <2>1, <2>2, <2>3 DEF Halves, NoUnaskedEstop, is_aborting, RecoverySent, Soft, Hard, Recovering
  <2>6. RecoveryTimersFit'
    BY <1>2, <2>1, <2>3 DEF StartAbortCancel, RecoveryTimersFit, Recovering
  <2> QED
    BY <2>1, <2>3, <2>4, <2>5, <2>6 DEF Stamps
<1>3. CASE StartAbortEstop
  <2>1. /\ started' = started + 1 /\ started' \in 0..MaxAborts /\ generation' = started'
        /\ asked' = TRUE /\ abort_state_ \in {"IDLE", "COMPLETE"}
    BY <1>3, BeginCounts DEF StartAbortEstop
  <2>2. /\ escalation_level_' = 0 + 1 /\ escalation_level_' \in 0..MaxEscalations
        /\ abort_state_' = "SENT_ESTOP" /\ shutdown_recovery_in_progress_' = TRUE
        /\ guard' \in [Timers -> 0..MaxAborts] /\ \A k \in Timers : guard'[k] = 0
        /\ cancel_state_observer_' = FALSE
        /\ Stamped(inflight)'
        /\ UNCHANGED <<klippy_observer_, seen_shutdown_during_reconnect_, recovery>>
    <3>1. 0 \in 0..(MaxEscalations - 1)
      BY BoundsAssumption
    <3> QED
      BY <1>0, <1>3, <2>1, <3>1, EscalateEffect DEF StartAbortEstop
  <2>4. TypeOK'
    BY <1>3, <2>1, <2>2
       DEF TypeOK, StartAbortEstop, States, Stamped, environment, dialog, setting
  <2>5. (Halves /\ NoUnaskedEstop /\ RecoverySent)'
    BY <2>1, <2>2 DEF Halves, NoUnaskedEstop, is_aborting, RecoverySent, Soft, Hard, Recovering
  <2>6. RecoveryTimersFit'
    BY <1>3, <2>2 DEF StartAbortEstop, RecoveryTimersFit, RecoveryTimers, Timers
  <2> QED
    BY <2>1, <2>2, <2>4, <2>5, <2>6 DEF Stamps
<1> QED
  BY <1>1, <1>2, <1>3

\* The E-Stop button, from any state of a running abort.
LEMMA PressHolds == ASSUME IInv, PressEstop PROVE IInv'
<1> USE DEF IInv
<1>1. Stamped(inflight) /\ escalation_level_ \in 0..(MaxEscalations - 1)
  BY BoundsAssumption DEF Stamps, PressEstop, TypeOK
<1>2. started' \in 0..MaxAborts /\ generation' = started'
  BY DEF PressEstop, TypeOK, Stamps
<1>3. /\ escalation_level_' = escalation_level_ + 1 /\ escalation_level_' \in 0..MaxEscalations
      /\ abort_state_' = "SENT_ESTOP" /\ shutdown_recovery_in_progress_' = TRUE
      /\ guard' \in [Timers -> 0..MaxAborts] /\ \A k \in Timers : guard'[k] = 0
      /\ cancel_state_observer_' = FALSE
      /\ Stamped(inflight)'
      /\ UNCHANGED <<klippy_observer_, seen_shutdown_during_reconnect_, recovery>>
  BY <1>1, <1>2, EscalateEffect DEF PressEstop
<1>4. TypeOK'
  BY <1>2, <1>3 DEF TypeOK, PressEstop, States, Stamped, environment, dialog, setting
<1>5. (Halves /\ NoUnaskedEstop /\ RecoverySent)'
  BY <1>1, <1>3 DEF PressEstop, Halves, NoUnaskedEstop, is_aborting, RecoverySent, Soft, Hard, Recovering
<1>6. RecoveryTimersFit'
  BY <1>3 DEF PressEstop, RecoveryTimersFit, RecoveryTimers, Timers
<1> QED
  BY <1>2, <1>3, <1>4, <1>5, <1>6 DEF Stamps

\* A transition taken within a sequence keeps the counters.
LEMMA SameCounts ==
    ASSUME TypeOK, Stamps, UNCHANGED <<sequence, escalation_level_>>
    PROVE  Counters /\ UNCHANGED <<generation, started, asked>>
BY DEF TypeOK, Stamps, Counters, sequence

\* complete_abort() called within the sequence, whatever becomes of the dialog.
LEMMA CompleteHolds ==
    ASSUME IInv, NEW S \in SUBSET inflight, CompleteAbort(S),
           UNCHANGED <<sequence, escalation_level_>>,
           heater_interrupt_support_' \in Support, print_outcome' \in BOOLEAN,
           klippy' \in KlippyStates, ready_in_flight' \in BOOLEAN, print_ended' \in BOOLEAN,
           escalation_enabled' \in BOOLEAN, DialogOK',
           orphans' \subseteq Timers \X (1..MaxAborts),
           \A x \in orphans' : x[1] \notin RecoveryTimers,
           escalation_level_ > 0 => abort_state_ \in Recovering
    PROVE  IInv'
<1> USE DEF IInv
<1>1. Counters /\ UNCHANGED <<generation, started, asked>>
  BY SameCounts
<1>2. /\ abort_state_' = "COMPLETE" /\ shutdown_recovery_in_progress_' = FALSE
      /\ guard' \in [Timers -> 0..MaxAborts] /\ \A k \in Timers : guard'[k] = 0
      /\ klippy_observer_' = FALSE /\ cancel_state_observer_' = FALSE
      /\ Stamped(inflight)'
      /\ UNCHANGED <<seen_shutdown_during_reconnect_, recovery>>
  BY <1>1, FewerStamped, CompleteEffect
<1>3. TypeOK'
  BY <1>1, <1>2 DEF TypeOK, Counters, States, Stamped, DialogOK
<1>4. (Halves /\ NoUnaskedEstop)'
  BY <1>2 DEF Halves, NoUnaskedEstop, is_aborting, Soft, Hard
<1>5. RecoverySent'
  BY <1>1, <1>2 DEF RecoverySent, Recovering
<1>6. RecoveryTimersFit'
  BY <1>2 DEF RecoveryTimersFit, RecoveryTimers, Timers
<1>8. Stamps'
  BY <1>1, <1>2 DEF Stamps, Counters
<1> QED
  BY <1>3, <1>4, <1>5, <1>6, <1>8

\* The same with the dialog asked for by complete_abort() itself.
LEMMA SurfacedHolds ==
    ASSUME IInv, NEW S \in SUBSET inflight, CompleteAbort(S),
           SurfaceRecovery(shutdown_recovery_in_progress_),
           UNCHANGED <<sequence, escalation_level_, heater_interrupt_support_, print_outcome,
                       klippy, ready_in_flight, escalation_enabled>>,
           print_ended' \in BOOLEAN,
           orphans' \subseteq Timers \X (1..MaxAborts),
           \A x \in orphans' : x[1] \notin RecoveryTimers,
           escalation_level_ > 0 => abort_state_ \in Recovering
    PROVE  IInv'
<1>1. DialogOK'
  BY DialogType DEF IInv, TypeOK
<1>2. /\ heater_interrupt_support_' \in Support /\ print_outcome' \in BOOLEAN
      /\ klippy' \in KlippyStates /\ ready_in_flight' \in BOOLEAN
      /\ escalation_enabled' \in BOOLEAN
      /\ UNCHANGED <<sequence, escalation_level_>>
  BY DEF IInv, TypeOK
<1> QED
  BY <1>1, <1>2, CompleteHolds

\* Sending the cancel within a soft phase.
LEMMA SoftCancelHolds ==
    ASSUME IInv, NEW g \in [Timers -> 0..MaxAborts], NEW S \in SUBSET inflight,
           SendCancelPrint(g, S), abort_state_ \in Soft,
           \A k \in RecoveryTimers : g[k] = guard[k],
           SurfaceRecovery(print_ended /\ shutdown_recovery_in_progress_),
           UNCHANGED <<sequence, escalation_level_, heater_interrupt_support_, print_outcome,
                       environment>>,
           orphans' \subseteq Timers \X (1..MaxAborts),
           \A x \in orphans' : x[1] \notin RecoveryTimers
    PROVE  IInv'
<1> USE DEF IInv
<1>1. Counters /\ UNCHANGED <<generation, started, asked>>
  BY SameCounts
<1>2. /\ escalation_level_' = 0 /\ shutdown_recovery_in_progress_ = FALSE
      /\ \A k \in RecoveryTimers : g[k] = 0
  BY DEF Halves, Soft, Hard, RecoveryTimersFit, Recovering, TypeOK, Timers, RecoveryTimers
<1>3. /\ guard' \in [Timers -> 0..MaxAborts]
      /\ \A k \in RecoveryTimers : guard'[k] \in {0, g[k]}
      /\ cancel_state_observer_' = TRUE /\ klippy_observer_' \in BOOLEAN
      /\ Stamped(inflight)'
      /\ UNCHANGED <<seen_shutdown_during_reconnect_, recovery>>
      /\ \/ /\ print_ended /\ abort_state_' = "COMPLETE"
            /\ shutdown_recovery_in_progress_' = FALSE
         \/ /\ ~print_ended /\ abort_state_' = "SENT_CANCEL"
            /\ UNCHANGED shutdown_recovery_in_progress_
  <2>1. Stamped(S) /\ klippy_observer_ \in BOOLEAN
    BY FewerStamped DEF TypeOK
  <2> QED
    BY <1>1, <2>1, CancelEffect
<1>4. DialogOK'
  BY <1>2, DialogType
<1>5. TypeOK'
  BY <1>1, <1>3, <1>4 DEF TypeOK, Counters, States, Stamped, DialogOK, environment, setting
<1>6. (Halves /\ NoUnaskedEstop /\ RecoverySent)'
  BY <1>2, <1>3 DEF Halves, NoUnaskedEstop, RecoverySent, Recovering, Soft, Hard
<1>7. RecoveryTimersFit'
  BY <1>2, <1>3 DEF RecoveryTimersFit
<1>9. Stamps'
  BY <1>1, <1>3 DEF Stamps, Counters
<1> QED
  BY <1>5, <1>6, <1>7, <1>9

\* Escalating from a soft phase, which only the setting allows.
LEMMA SoftEscalateHolds ==
    ASSUME IInv, NEW S \in SUBSET inflight, EscalateToEstop(escalation_level_, S),
           abort_state_ \in Soft, escalation_enabled,
           UNCHANGED <<sequence, heater_interrupt_support_, print_outcome, environment, dialog>>,
           orphans' \subseteq Timers \X (1..MaxAborts),
           \A x \in orphans' : x[1] \notin RecoveryTimers
    PROVE  IInv'
<1> USE DEF IInv
<1>1. Stamped(S) /\ escalation_level_ \in 0..(MaxEscalations - 1)
  BY FewerStamped, BoundsAssumption DEF Halves
<1>2. started' \in 0..MaxAborts /\ generation' = started'
  BY DEF TypeOK, Stamps, sequence
<1>3. /\ escalation_level_' = escalation_level_ + 1 /\ escalation_level_' \in 0..MaxEscalations
      /\ abort_state_' = "SENT_ESTOP" /\ shutdown_recovery_in_progress_' = TRUE
      /\ guard' \in [Timers -> 0..MaxAborts] /\ \A k \in Timers : guard'[k] = 0
      /\ cancel_state_observer_' = FALSE
      /\ Stamped(inflight)'
      /\ UNCHANGED <<klippy_observer_, seen_shutdown_during_reconnect_, recovery>>
  BY <1>1, <1>2, EscalateEffect
<1>4. TypeOK'
  BY <1>2, <1>3 DEF TypeOK, States, Stamped, sequence, environment, dialog, setting
<1>5. (Halves /\ NoUnaskedEstop /\ RecoverySent)'
  BY <1>1, <1>3 DEF Halves, NoUnaskedEstop, RecoverySent, Soft, Hard, Recovering, environment, setting
<1>6. RecoveryTimersFit'
  BY <1>3 DEF RecoveryTimersFit, RecoveryTimers, Timers
<1> QED
  BY <1>2, <1>3, <1>4, <1>5, <1>6 DEF Stamps

\* Probing the queue after the interrupt, answered or not.
LEMMA SoftProbeHolds ==
    ASSUME IInv, NEW g \in [Timers -> 0..MaxAborts], NEW S \in SUBSET inflight,
           StartProbe(g, S), abort_state_ \in Soft,
           \A k \in RecoveryTimers : g[k] = guard[k],
           heater_interrupt_support_' \in Support,
           UNCHANGED <<sequence, escalation_level_, print_outcome, environment, dialog>>,
           orphans' \subseteq Timers \X (1..MaxAborts),
           \A x \in orphans' : x[1] \notin RecoveryTimers
    PROVE  IInv'
<1> USE DEF IInv
<1>1. Counters /\ UNCHANGED <<generation, started, asked>>
  BY SameCounts
<1>2. /\ abort_state_' \in {"TRY_HEATER_INTERRUPT", "PROBE_QUEUE"}
      /\ guard' \in [Timers -> 0..MaxAborts]
      /\ \A k \in RecoveryTimers : guard'[k] = g[k]
      /\ Stamped(inflight)'
      /\ UNCHANGED <<shutdown_recovery_in_progress_, observers, recovery>>
  BY <1>1, FewerStamped, SoftPhaseEffect
<1>3. TypeOK'
  <2>1. DialogOK' /\ TypeOK
    BY DialogType
  <2> HIDE DEF IInv
  <2>2. recovery' \in (0..MaxAborts) \X (0..MaxEscalations) \X Answers
    BY <1>2, <2>1 DEF TypeOK
  <2> QED
    BY <1>1, <1>2, <2>1, <2>2 DEF TypeOK, Counters, States, observers, Stamped, DialogOK, environment, setting
<1>4. (Halves /\ NoUnaskedEstop /\ RecoverySent)'
  BY <1>2 DEF Halves, NoUnaskedEstop, RecoverySent, Soft, Hard, Recovering
<1>5. RecoveryTimersFit'
  <2>1. \A k \in RecoveryTimers : g[k] = 0
    BY DEF RecoveryTimersFit, Soft, Recovering, TypeOK, Timers, RecoveryTimers
  <2> QED
    BY <1>2, <2>1 DEF RecoveryTimersFit
<1>7. Stamps'
  BY <1>1, <1>2 DEF Stamps, Counters
<1> QED
  BY <1>3, <1>4, <1>5, <1>7

\* Releasing a timer of a soft phase leaves the recovery timers alone.
LEMMA ReleaseType ==
    ASSUME TypeOK, NEW k \in Timers
    PROVE  /\ Released(k) \in [Timers -> 0..MaxAborts]
           /\ \A j \in Timers : Released(k)[j] = IF j = k THEN 0 ELSE guard[j]
<1>1. 0 \in 0..MaxAborts
  BY BoundsAssumption
<1> QED
  BY <1>1, ArmType DEF Released, TypeOK

\* The orphans of an action that forgets none.
LEMMA OrphansStay ==
    ASSUME IInv, UNCHANGED orphans
    PROVE  orphans' \subseteq Timers \X (1..MaxAborts) /\ \A x \in orphans' : x[1] \notin RecoveryTimers
BY DEF IInv, TypeOK, RecoveryTimersFit

\* The orphans of an action that forgets a timer of a soft phase.
LEMMA OrphansForgotten ==
    ASSUME IInv, NEW k \in Timers \ RecoveryTimers, orphans' = Forget(k)
    PROVE  orphans' \subseteq Timers \X (1..MaxAborts) /\ \A x \in orphans' : x[1] \notin RecoveryTimers
BY DEF IInv, TypeOK, RecoveryTimersFit, Forget

\* The orphans when a timer of a soft phase fires.
LEMMA OrphansFired ==
    ASSUME IInv, NEW k \in Timers \ RecoveryTimers, NEW n, Fires(k, n)
    PROVE  orphans' \subseteq Timers \X (1..MaxAborts) /\ \A x \in orphans' : x[1] \notin RecoveryTimers
BY FiresType DEF IInv, RecoveryTimersFit

\* A recovery timer fires only from its guard, while the recovery is under way.
LEMMA RecoveryTimerFires ==
    ASSUME IInv, NEW k \in RecoveryTimers, NEW n, Fires(k, n)
    PROVE  abort_state_ \in Recovering /\ UNCHANGED orphans
BY DEF IInv, RecoveryTimersFit, Fires

\* on_probe_timeout(), reached by a timer or by an error reply.
LEMMA ProbeTimeoutHolds ==
    ASSUME IInv, NEW g \in [Timers -> 0..MaxAborts], NEW S \in SUBSET inflight,
           OnProbeTimeout(g, S), abort_state_ \in Soft,
           \A k \in RecoveryTimers : g[k] = guard[k],
           orphans' \subseteq Timers \X (1..MaxAborts),
           \A x \in orphans' : x[1] \notin RecoveryTimers
    PROVE  IInv'
<1>1. CASE escalation_enabled /\ EscalateToEstop(escalation_level_, S) /\ UNCHANGED dialog
  <2>1. UNCHANGED <<sequence, heater_interrupt_support_, print_outcome, environment, dialog>>
    BY <1>1 DEF OnProbeTimeout
  <2> QED
    BY <1>1, <2>1, SoftEscalateHolds
<1>2. CASE /\ UNCHANGED escalation_level_ /\ SendCancelPrint(g, S)
           /\ SurfaceRecovery(print_ended /\ shutdown_recovery_in_progress_)
  <2>1. UNCHANGED <<sequence, escalation_level_, heater_interrupt_support_, print_outcome,
                    environment>>
    BY <1>2 DEF OnProbeTimeout
  <2> QED
    BY <1>2, <2>1, SoftCancelHolds
<1> QED
  BY <1>1, <1>2 DEF OnProbeTimeout

\* No reply breaks the invariant.
LEMMA ReplyHolds == ASSUME IInv, Reply PROVE IInv'
<1> PICK r \in inflight :
        \/ IgnoreReply(r) \/ SetPrintOutcome(r)
        \/ OnHeaterInterruptReply(r)
        \/ OnProbeResponse(r) \/ OnProbeError(r)
        \/ OnCancelSuccess(r) \/ OnCancelError(r)
        \/ OnEstopSent(r)
        \/ OnRestartIssued(r) \/ OnRestartVerified(r)
  BY DEF Reply
<1> DEFINE S == inflight \ {r}
<1>a. S \in SUBSET inflight /\ Stamped(S)
  BY FewerStamped DEF IInv
<1>b. TypeOK /\ Stamps
  BY DEF IInv
<1>c. /\ {"heater_interrupt", "probe", "cancel"} \subseteq Timers \ RecoveryTimers
      /\ RecoveryTimers \subseteq Timers
  BY DEF Timers, RecoveryTimers
<1> HIDE DEF S
<1>1. CASE IgnoreReply(r)
  <2>1. UNCHANGED <<machine, heater_interrupt_support_, observers, timers, sequence,
                    print_outcome, environment, dialog, recovery>> /\ inflight' = S
    BY <1>1 DEF IgnoreReply, S
  <2>2. TypeOK' /\ Stamps'
    BY <1>a, <1>b, <2>1 DEF TypeOK, Stamps, Stamped, machine, observers, timers, sequence, environment,
       dialog, setting
  <2> QED
    BY <2>1, <2>2 DEF IInv, Halves, NoUnaskedEstop, is_aborting, RecoveryTimersFit, RecoverySent,
       machine, observers, timers, sequence, environment, dialog, setting
<1>2. CASE SetPrintOutcome(r)
  <2>1. /\ UNCHANGED <<machine, heater_interrupt_support_, observers, timers, sequence,
                       environment, dialog, recovery>>
        /\ inflight' = S /\ print_outcome' \in BOOLEAN
    BY <1>2 DEF SetPrintOutcome, S
  <2>2. TypeOK' /\ Stamps'
    BY <1>a, <1>b, <2>1 DEF TypeOK, Stamps, Stamped, machine, observers, timers, sequence, environment,
       dialog, setting
  <2> QED
    BY <2>1, <2>2 DEF IInv, Halves, NoUnaskedEstop, is_aborting, RecoveryTimersFit, RecoverySent,
       machine, observers, timers, sequence, environment, dialog, setting
<1>3. CASE OnHeaterInterruptReply(r)
  <2>1. /\ abort_state_ \in Soft /\ heater_interrupt_support_' \in Support
        /\ UNCHANGED <<sequence, escalation_level_, orphans, print_outcome, environment, dialog>>
        /\ StartProbe(Released("heater_interrupt"), S)
    BY <1>3 DEF OnHeaterInterruptReply, Awaited, AwaitedIn, Soft, Support, Released, S
  <2>2. /\ Released("heater_interrupt") \in [Timers -> 0..MaxAborts]
        /\ \A k \in RecoveryTimers : Released("heater_interrupt")[k] = guard[k]
    BY <1>b, <1>c, ReleaseType
  <2> QED
    BY <1>a, <2>1, <2>2, OrphansStay, SoftProbeHolds
<1>4. CASE OnProbeResponse(r)
  <2>1. /\ abort_state_ \in Soft /\ SendCancelPrint(Released("probe"), S)
        /\ SurfaceRecovery(print_ended /\ shutdown_recovery_in_progress_)
        /\ UNCHANGED <<sequence, escalation_level_, heater_interrupt_support_, print_outcome,
                       environment>>
        /\ UNCHANGED orphans
    BY <1>4 DEF OnProbeResponse, Awaited, AwaitedIn, Soft, Released, S
  <2>2. /\ Released("probe") \in [Timers -> 0..MaxAborts]
        /\ \A k \in RecoveryTimers : Released("probe")[k] = guard[k]
    BY <1>b, <1>c, ReleaseType
  <2> QED
    BY <1>a, <2>1, <2>2, OrphansStay, SoftCancelHolds
<1>5. CASE OnProbeError(r)
  <2>1. /\ abort_state_ \in Soft /\ OnProbeTimeout(Released("probe"), S)
        /\ orphans' = Forget("probe")
    BY <1>5 DEF OnProbeError, Awaited, AwaitedIn, Soft, Released, S
  <2>2. /\ Released("probe") \in [Timers -> 0..MaxAborts]
        /\ \A k \in RecoveryTimers : Released("probe")[k] = guard[k]
    BY <1>b, <1>c, ReleaseType
  <2> QED
    BY <1>a, <1>c, <2>1, <2>2, OrphansForgotten, ProbeTimeoutHolds
<1>d. abort_state_ \in Soft => escalation_level_ = 0
  BY DEF IInv, Halves
<1>6. CASE OnCancelSuccess(r)
  <2>1. /\ abort_state_ \in Soft /\ CompleteAbort(S) /\ SurfaceRecovery(shutdown_recovery_in_progress_)
        /\ UNCHANGED <<sequence, escalation_level_, heater_interrupt_support_, print_outcome,
                       klippy, ready_in_flight, escalation_enabled, print_ended, orphans>>
    BY <1>6 DEF OnCancelSuccess, Awaited, AwaitedIn, Soft, environment, setting, S
  <2>2. print_ended' \in BOOLEAN
    BY <1>b, <2>1 DEF TypeOK
  <2> QED
    BY <1>a, <1>d, <2>1, <2>2, OrphansStay, SurfacedHolds
<1>7. CASE OnCancelError(r)
  <2>1. /\ abort_state_ \in Soft
        /\ UNCHANGED <<sequence, heater_interrupt_support_, print_outcome, environment>>
    BY <1>7 DEF OnCancelError, Awaited, AwaitedIn, Soft
  <2>2. CASE /\ escalation_enabled /\ orphans' = Forget("cancel")
             /\ EscalateToEstop(escalation_level_, S) /\ UNCHANGED dialog
    <3>1. UNCHANGED <<sequence, heater_interrupt_support_, print_outcome, environment, dialog>>
      BY <2>1, <2>2
    <3> QED
      BY <1>a, <1>c, <2>1, <2>2, <3>1, OrphansForgotten, SoftEscalateHolds
  <2>3. CASE /\ UNCHANGED <<escalation_level_, orphans>>
             /\ CompleteAbort(S) /\ SurfaceRecovery(shutdown_recovery_in_progress_)
    <3>1. /\ UNCHANGED <<sequence, escalation_level_, heater_interrupt_support_, print_outcome,
                         klippy, ready_in_flight, escalation_enabled, orphans>>
          /\ print_ended' \in BOOLEAN
      BY <1>b, <2>1, <2>3 DEF TypeOK, environment, setting
    <3> QED
      BY <1>a, <1>d, <2>1, <2>3, <3>1, OrphansStay, SurfacedHolds
  <2> QED
    BY <1>7, <2>2, <2>3 DEF OnCancelError, S
<1>8. CASE OnEstopSent(r)
  <2>1. /\ abort_state_ = "SENT_ESTOP" /\ SendFirmwareRestart(S)
        /\ UNCHANGED <<sequence, escalation_level_, heater_interrupt_support_, orphans,
                       print_outcome, environment, dialog>>
    BY <1>8 DEF OnEstopSent, Awaited, AwaitedIn, S
  <2>2. Counters /\ UNCHANGED <<generation, started, asked>>
    BY <1>b, <2>1, SameCounts
  <2>3. /\ abort_state_' = "SENT_RESTART"
        /\ guard' \in [Timers -> 0..MaxAborts]
        /\ Stamped(inflight)'
        /\ recovery' \in {<<started, escalation_level_, a>> : a \in Answers}
        /\ UNCHANGED <<shutdown_recovery_in_progress_, observers>>
    BY <1>a, <1>b, <2>1, <2>2, RestartEffect
  <2>4. TypeOK'
    <3>1. DialogOK'
      BY <1>b, <2>1, DialogType
    <3>2. recovery' \in (0..MaxAborts) \X (0..MaxEscalations) \X Answers
      BY <1>b, <2>3 DEF TypeOK
    <3> QED
      BY <1>b, <2>1, <2>2, <2>3, <3>1, <3>2
         DEF TypeOK, Counters, States, observers, Stamped, DialogOK, environment, setting
  <2>5. (Halves /\ NoUnaskedEstop /\ RecoverySent)'
    BY <2>1, <2>2, <2>3 DEF IInv, Halves, NoUnaskedEstop, is_aborting, RecoverySent, Soft, Hard, Recovering,
       environment, setting
  <2>6. RecoveryTimersFit'
    BY <2>1, <2>3 DEF IInv, RecoveryTimersFit, Recovering
  <2> QED
    BY <2>2, <2>3, <2>4, <2>5, <2>6 DEF IInv, Stamps, Counters
<1>9. CASE OnRestartIssued(r)
  <2>1. /\ abort_state_ = "SENT_RESTART" /\ WaitForReconnect(S)
        /\ UNCHANGED <<sequence, escalation_level_, heater_interrupt_support_, orphans,
                       print_outcome, environment, dialog>>
    BY <1>9 DEF OnRestartIssued, Awaited, AwaitedIn, S
  <2>2. Counters /\ UNCHANGED <<generation, started, asked>>
    BY <1>b, <2>1, SameCounts
  <2>3. /\ abort_state_' = "WAITING_RECONNECT"
        /\ guard' \in [Timers -> 0..MaxAborts]
        /\ klippy_observer_' = TRUE /\ seen_shutdown_during_reconnect_' \in BOOLEAN
        /\ Stamped(inflight)'
        /\ UNCHANGED <<shutdown_recovery_in_progress_, cancel_state_observer_, recovery>>
    BY <1>a, <1>b, <2>1, ReconnectEffect
  <2>4. TypeOK'
    BY <1>b, <2>1, <2>2, <2>3
       DEF TypeOK, Counters, States, Stamped, environment, dialog, setting
  <2>5. (Halves /\ NoUnaskedEstop /\ RecoverySent)'
    BY <2>1, <2>2, <2>3 DEF IInv, Halves, NoUnaskedEstop, is_aborting, RecoverySent, Soft, Hard, Recovering,
       environment, setting
  <2>6. RecoveryTimersFit'
    BY <2>1, <2>3 DEF IInv, RecoveryTimersFit, Recovering
  <2> QED
    BY <2>2, <2>3, <2>4, <2>5, <2>6 DEF IInv, Stamps, Counters
<1>10. CASE OnRestartVerified(r)
  <2>1. /\ abort_state_ \in Recovering /\ CompleteAbort(S)
        /\ UNCHANGED <<sequence, escalation_level_, heater_interrupt_support_, orphans, print_outcome,
                       klippy, print_ended, escalation_enabled, posted, latched, recheck>>
        /\ ready_in_flight' \in BOOLEAN /\ fate' \in {fate, "misled"}
    BY <1>10 DEF OnRestartVerified, Awaited, AwaitedIn, Recovering, setting, S
  <2>2. /\ heater_interrupt_support_' \in Support /\ print_outcome' \in BOOLEAN
        /\ klippy' \in KlippyStates /\ print_ended' \in BOOLEAN /\ escalation_enabled' \in BOOLEAN
    BY <1>b, <2>1 DEF TypeOK
  <2>3. DialogOK'
    BY <1>b, <2>1 DEF TypeOK, DialogOK, Fates
  <2> QED
    BY <1>a, <2>1, <2>2, <2>3, OrphansStay, CompleteHolds
<1> QED
  BY <1>1, <1>2, <1>3, <1>4, <1>5, <1>6, <1>7, <1>8, <1>9, <1>10

\* No timer breaks the invariant.
LEMMA TimerHolds == ASSUME IInv, TimerFires PROVE IInv'
<1>a. inflight \in SUBSET inflight /\ TypeOK
  BY DEF IInv
<1>b. /\ {"heater_interrupt", "probe", "cancel"} \subseteq Timers \ RecoveryTimers
      /\ RecoveryTimers \subseteq Timers
  BY DEF Timers, RecoveryTimers
<1>1. ASSUME NEW n, NEW k, StaleTimeout(k, n) PROVE IInv'
  <2>1. k \in Timers \ RecoveryTimers
    BY <1>1, <1>b DEF StaleTimeout, TimerState
  <2>2. /\ Fires(k, n) /\ guard' = Released(k)
        /\ UNCHANGED <<machine, heater_interrupt_support_, observers, sequence, inflight,
                       print_outcome, environment, dialog, recovery>>
    BY <1>1 DEF StaleTimeout
  <2>3. orphans' \subseteq Timers \X (1..MaxAborts) /\ \A x \in orphans' : x[1] \notin RecoveryTimers
    BY <2>1, <2>2, OrphansFired
  <2>4. /\ guard' \in [Timers -> 0..MaxAborts]
        /\ \A j \in RecoveryTimers : guard'[j] = guard[j]
    BY <1>a, <1>b, <2>1, <2>2, ReleaseType
  <2>5. TypeOK' /\ Stamps'
    BY <2>2, <2>3, <2>4 DEF IInv, TypeOK, Stamps, Stamped, machine, observers, sequence, environment,
       dialog, setting
  <2>6. RecoveryTimersFit'
    BY <2>2, <2>3, <2>4 DEF IInv, RecoveryTimersFit, machine
  <2> QED
    BY <2>2, <2>5, <2>6 DEF IInv, Halves, NoUnaskedEstop, is_aborting, RecoverySent,
       machine, observers, sequence, environment, dialog, setting
<1>2. ASSUME NEW n, NEW k, RecoveryTimeout(k, n) PROVE IInv'
  <2>1. /\ k \in RecoveryTimers /\ Fires(k, n) /\ CompleteAbort(inflight)
        /\ SurfaceRecovery(shutdown_recovery_in_progress_)
        /\ UNCHANGED <<sequence, escalation_level_, heater_interrupt_support_, print_outcome,
                       klippy, ready_in_flight, escalation_enabled, print_ended>>
    BY <1>2 DEF RecoveryTimeout, RecoveryTimers, environment, setting
  <2>2. abort_state_ \in Recovering /\ UNCHANGED orphans
    BY <2>1, RecoveryTimerFires
  <2>3. print_ended' \in BOOLEAN
    BY <1>a, <2>1 DEF TypeOK
  <2> QED
    BY <1>a, <2>1, <2>2, <2>3, OrphansStay, SurfacedHolds
<1>3. ASSUME NEW n, HeaterInterruptTimeout(n) PROVE IInv'
  <2>1. /\ Fires("heater_interrupt", n) /\ StartProbe(Released("heater_interrupt"), inflight)
        /\ abort_state_ \in Soft /\ heater_interrupt_support_' \in Support
        /\ UNCHANGED <<sequence, escalation_level_, print_outcome, environment, dialog>>
    BY <1>3 DEF HeaterInterruptTimeout, Soft, Support
  <2>2. /\ Released("heater_interrupt") \in [Timers -> 0..MaxAborts]
        /\ \A j \in RecoveryTimers : Released("heater_interrupt")[j] = guard[j]
    BY <1>a, <1>b, ReleaseType
  <2> QED
    BY <1>a, <1>b, <2>1, <2>2, OrphansFired, SoftProbeHolds
<1>4. ASSUME NEW n, ProbeTimeout(n) PROVE IInv'
  <2>1. Fires("probe", n) /\ abort_state_ \in Soft /\ OnProbeTimeout(Released("probe"), inflight)
    BY <1>4 DEF ProbeTimeout, Soft
  <2>2. /\ Released("probe") \in [Timers -> 0..MaxAborts]
        /\ \A j \in RecoveryTimers : Released("probe")[j] = guard[j]
    BY <1>a, <1>b, ReleaseType
  <2> QED
    BY <1>a, <1>b, <2>1, <2>2, OrphansFired, ProbeTimeoutHolds
<1>5. ASSUME NEW n, CancelTimeout(n) PROVE IInv'
  <2>1. /\ Fires("cancel", n) /\ abort_state_ \in Soft /\ escalation_enabled
        /\ EscalateToEstop(escalation_level_, inflight)
        /\ UNCHANGED <<sequence, heater_interrupt_support_, print_outcome, environment, dialog>>
    BY <1>5 DEF CancelTimeout, Soft
  <2> QED
    BY <1>a, <1>b, <2>1, OrphansFired, SoftEscalateHolds
<1> QED
  BY <1>1, <1>2, <1>3, <1>4, <1>5 DEF TimerFires

\* No klippy change breaks the invariant.
LEMMA KlippyHolds == ASSUME IInv, NEW s \in KlippyStates, KlippyChanges(s) PROVE IInv'
<1>a. TypeOK /\ Stamps
  BY DEF IInv
<1>1. /\ klippy' = s /\ ready_in_flight' = FALSE
      /\ UNCHANGED <<sequence, escalation_level_, heater_interrupt_support_, orphans,
                     print_outcome, print_ended, escalation_enabled>>
  BY DEF KlippyChanges, setting
<1>b. DialogOK'
  <2>1. OverlayHears(s)
    BY DEF KlippyChanges
  <2>2. CASE RequestDialog
    BY <1>a, <2>2, DialogType
  <2>3. CASE ~RequestDialog
    BY <1>a, <2>1, <2>3 DEF OverlayHears, DialogOK, TypeOK, Fates
  <2> QED
    BY <2>2, <2>3
<1>2. CASE abort_state_ = "WAITING_RECONNECT" /\ s = "READY" /\ CompleteAbort(inflight)
  <2>1. /\ heater_interrupt_support_' \in Support /\ print_outcome' \in BOOLEAN
        /\ klippy' \in KlippyStates /\ ready_in_flight' \in BOOLEAN /\ print_ended' \in BOOLEAN
        /\ escalation_enabled' \in BOOLEAN /\ inflight \in SUBSET inflight
        /\ UNCHANGED <<sequence, escalation_level_>>
    BY <1>1, <1>a DEF TypeOK
  <2>2. abort_state_ \in Recovering
    BY <1>2 DEF Recovering
  <2> QED
    BY <1>1, <1>2, <1>b, <2>1, <2>2, OrphansStay, CompleteHolds
<1>3. CASE /\ seen_shutdown_during_reconnect_' \in BOOLEAN
           /\ UNCHANGED <<abort_state_, shutdown_recovery_in_progress_, guard, inflight,
                          klippy_observer_, cancel_state_observer_, recovery>>
  <2>1. TypeOK' /\ Stamps'
    BY <1>1, <1>3, <1>a, <1>b DEF TypeOK, Stamps, Stamped, sequence, DialogOK
  <2>2. (Halves /\ NoUnaskedEstop /\ RecoverySent /\ RecoveryTimersFit)'
    BY <1>1, <1>3 DEF IInv, Halves, NoUnaskedEstop, is_aborting, RecoverySent, RecoveryTimersFit, sequence
  <2> QED
    BY <2>1, <2>2 DEF IInv
<1> QED
  BY <1>2, <1>3, <1>a DEF KlippyChanges, TypeOK

\* The print ending completes an abort that waits for it.
LEMMA PrintEndsHolds == ASSUME IInv, PrintEnds PROVE IInv'
<1>a. TypeOK /\ Stamps
  BY DEF IInv
<1>1. /\ print_ended' \in BOOLEAN
      /\ UNCHANGED <<sequence, escalation_level_, heater_interrupt_support_, orphans,
                     print_outcome, klippy, ready_in_flight, escalation_enabled>>
  BY DEF PrintEnds, setting
<1>2. CASE /\ abort_state_ = "SENT_CANCEL" /\ CompleteAbort(inflight)
           /\ SurfaceRecovery(shutdown_recovery_in_progress_)
  <2>1. inflight \in SUBSET inflight /\ escalation_level_ = 0
    BY <1>2 DEF IInv, Halves, Soft
  <2>2. escalation_level_ > 0 => abort_state_ \in Recovering
    BY <2>1
  <2> QED
    BY <1>1, <1>2, <2>1, <2>2, OrphansStay, SurfacedHolds
<1>3. CASE UNCHANGED <<abort_state_, shutdown_recovery_in_progress_, guard, inflight,
                       observers, recovery, dialog>>
  <2>1. TypeOK' /\ Stamps'
    BY <1>1, <1>3, <1>a DEF TypeOK, Stamps, Stamped, sequence, observers, dialog
  <2> QED
    BY <1>1, <1>3, <2>1 DEF IInv, Halves, NoUnaskedEstop, is_aborting, RecoverySent, RecoveryTimersFit,
       sequence
<1> QED
  BY <1>2, <1>3 DEF PrintEnds

\* The other steps of the user, the printer and the dialog.
LEMMA OthersHold ==
    ASSUME IInv, PrintStarts \/ ShowRecovery \/ Recheck \/ ChangeSetting \/ DeinitSubjects \/ UNCHANGED vars
    PROVE  IInv'
<1>a. TypeOK /\ Stamps
  BY DEF IInv
<1>1. CASE PrintStarts
  <2>a. /\ UNCHANGED <<machine, heater_interrupt_support_, observers, timers, sequence, inflight,
                       klippy, ready_in_flight, setting, dialog, recovery>>
        /\ print_ended' = FALSE /\ print_outcome' = FALSE
    BY <1>1 DEF PrintStarts
  <2>b. /\ UNCHANGED <<abort_state_, escalation_level_, shutdown_recovery_in_progress_,
                       seen_shutdown_during_reconnect_, guard, orphans, klippy_observer_,
                       cancel_state_observer_, generation, started, asked, escalation_enabled,
                       posted, latched, recheck, fate>>
    BY <2>a DEF machine, observers, timers, sequence, setting, dialog
  <2>c. TypeOK'
    <3>1. /\ UNCHANGED <<heater_interrupt_support_, inflight, klippy, ready_in_flight, recovery>>
          /\ print_ended' \in BOOLEAN /\ print_outcome' \in BOOLEAN /\ TypeOK
      BY <1>a, <2>a
    <3> QED
      BY <2>b, <3>1 DEF TypeOK
  <2>1. TypeOK' /\ Stamps'
    BY <1>a, <2>a, <2>b, <2>c DEF Stamps, Stamped
  <2> QED
    BY <1>1, <2>1 DEF PrintStarts, IInv, Halves, NoUnaskedEstop, is_aborting, RecoverySent,
       RecoveryTimersFit, machine, observers, timers, sequence,
       setting, dialog
<1>2. CASE ShowRecovery \/ Recheck
  <2>1. UNCHANGED <<machine, heater_interrupt_support_, observers, timers, sequence, inflight,
                    print_outcome, environment, recovery>>
    BY <1>2 DEF ShowRecovery, Recheck
  <2>2. DialogOK'
    BY <1>2, <1>a DEF ShowRecovery, Recheck, Answer, DialogOK, TypeOK, Fates
  <2>3. TypeOK' /\ Stamps'
    BY <2>1, <2>2, <1>a DEF TypeOK, DialogOK, Stamps, Stamped, machine, observers, timers, sequence,
       environment, setting
  <2> QED
    BY <2>1, <2>3 DEF IInv, Halves, NoUnaskedEstop, is_aborting, RecoverySent,
       RecoveryTimersFit, machine, observers, timers, sequence, environment, setting
<1>3. CASE ChangeSetting
  <2>1. TypeOK' /\ Stamps'
    BY <1>3, <1>a DEF ChangeSetting, TypeOK, Stamps, Stamped, machine, observers, timers, sequence, dialog
  <2> QED
    BY <1>3, <2>1 DEF ChangeSetting, IInv, Halves, NoUnaskedEstop, is_aborting, RecoverySent,
       RecoveryTimersFit, machine, observers, timers, sequence, dialog
<1>4. CASE DeinitSubjects
  <2>1. TypeOK' /\ Stamps'
    BY <1>4, <1>a, NoTimersType DEF DeinitSubjects, TypeOK, Stamps, Stamped, machine, sequence, setting,
       KlippyStates, Fates
  <2>2. RecoveryTimersFit'
    BY <1>4, NoTimersType DEF DeinitSubjects, IInv, RecoveryTimersFit, RecoveryTimers, Timers
  <2> QED
    BY <1>4, <2>1, <2>2 DEF DeinitSubjects, IInv, Halves, NoUnaskedEstop, is_aborting, RecoverySent,
       machine, sequence, environment, setting, dialog
<1>5. CASE UNCHANGED vars
  <2>1. TypeOK' /\ Stamps'
    BY <1>5, <1>a DEF vars, TypeOK, Stamps, Stamped, machine, observers, timers, sequence, environment,
       setting, dialog
  <2> QED
    BY <1>5, <2>1 DEF vars, IInv, Halves, NoUnaskedEstop, is_aborting, RecoverySent,
       RecoveryTimersFit, machine, observers, timers, sequence,
       environment, setting, dialog
<1> QED
  BY <1>1, <1>2, <1>3, <1>4, <1>5

-----------------------------------------------------------------------------
(* The recovery and its dialog.  IInv holds before and after every step.   *)

\* A verdict in flight for the sequence's last M112 finds its recovery taken on;
\* before recover() is called for it there is none.
Verdicts ==
    \A r \in inflight :
        /\ r.generation <= generation
        /\ r.cmd = "restart" /\ r.generation = generation => r.level <= escalation_level_
        /\ r.cmd = "restart" /\ r.generation = generation /\ r.level = escalation_level_ =>
               /\ abort_state_ # "SENT_ESTOP"
               /\ recovery = <<started, escalation_level_, "restart">>

\* The requests of a step that asks for no recovery.
NoVerdictSent == \A r \in inflight' : r \in inflight \/ (r.cmd # "restart" /\ r.generation = generation')

\* What a step does to the sequence: it stays within it, sends its next M112, or
\* begins the next sequence.
Steady ==
    /\ UNCHANGED <<generation, started, escalation_level_, recovery>>
    /\ abort_state_' = "SENT_ESTOP" => abort_state_ = "SENT_ESTOP"
Escalated == UNCHANGED <<generation, started>> /\ escalation_level_' = escalation_level_ + 1
Begun == generation' = generation + 1

\* The transitions send no recovery but through SendFirmwareRestart.
LEMMA TransitionsSendNoVerdict ==
    ASSUME NEW g, NEW S \in SUBSET inflight, NEW l,
           \/ TryHeaterInterrupt(g, S) \/ StartProbe(g, S) \/ SendCancelPrint(g, S)
           \/ CompleteAbort(S) \/ EscalateToEstop(l, S)
    PROVE  NoVerdictSent
<1>1. \A c \in Commands \ {"restart"} : Sent(c).cmd # "restart" /\ Sent(c).generation = generation'
  BY DEF Sent, Commands
<1>2. {"heater_interrupt", "probe", "cancel", "estop", "print_outcome"} \subseteq Commands \ {"restart"}
  BY DEF Commands
<1>3. \A r \in inflight' : r \in S \/ \E c \in {"heater_interrupt", "probe", "cancel", "estop",
                                                  "print_outcome"} : r = Sent(c)
  BY DEF TryHeaterInterrupt, StartProbe, SendCancelPrint, CompleteAbort, EscalateToEstop
<1> QED
  BY <1>1, <1>2, <1>3 DEF NoVerdictSent

\* on_probe_timeout() stays within the sequence or sends its next M112.
LEMMA ProbeTimeoutKind ==
    ASSUME NEW g, NEW S \in SUBSET inflight, OnProbeTimeout(g, S)
    PROVE  NoVerdictSent /\ (Steady \/ Escalated)
<1>1. CASE EscalateToEstop(escalation_level_, S)
  BY <1>1, TransitionsSendNoVerdict DEF OnProbeTimeout, EscalateToEstop, Escalated, sequence
<1>2. CASE UNCHANGED escalation_level_ /\ SendCancelPrint(g, S)
  BY <1>2, TransitionsSendNoVerdict DEF OnProbeTimeout, SendCancelPrint, Steady, sequence
<1> QED
  BY <1>1, <1>2 DEF OnProbeTimeout

\* Every step but the call of recover() is of one of the three kinds.
LEMMA StepKinds ==
    ASSUME Next
    PROVE  \/ NoVerdictSent /\ (Steady \/ Escalated \/ Begun)
           \/ \E r \in inflight : OnEstopSent(r)
<1>1. ASSUME NEW r \in inflight, ~OnEstopSent(r),
             \/ IgnoreReply(r) \/ SetPrintOutcome(r)
             \/ OnHeaterInterruptReply(r)
             \/ OnProbeResponse(r) \/ OnProbeError(r)
             \/ OnCancelSuccess(r) \/ OnCancelError(r)
             \/ OnEstopSent(r)
             \/ OnRestartIssued(r) \/ OnRestartVerified(r)
      PROVE  NoVerdictSent /\ (Steady \/ Escalated)
  <2> DEFINE S == inflight \ {r}
  <2>0. S \in SUBSET inflight
    OBVIOUS
  <2>1. CASE IgnoreReply(r) \/ SetPrintOutcome(r)
    BY <2>1 DEF IgnoreReply, SetPrintOutcome, NoVerdictSent, Steady, machine, sequence
  <2>2. CASE OnHeaterInterruptReply(r)
    BY <2>2, <2>0, TransitionsSendNoVerdict DEF OnHeaterInterruptReply, StartProbe, Steady, sequence
  <2>3. CASE OnProbeResponse(r)
    BY <2>3, <2>0, TransitionsSendNoVerdict DEF OnProbeResponse, SendCancelPrint, Steady, sequence
  <2>4. CASE OnProbeError(r)
    BY <2>4, <2>0, ProbeTimeoutKind DEF OnProbeError
  <2>5. CASE OnCancelSuccess(r)
    BY <2>5, <2>0, TransitionsSendNoVerdict DEF OnCancelSuccess, CompleteAbort, Steady, sequence
  <2>6. CASE OnCancelError(r)
    <3>1. CASE EscalateToEstop(escalation_level_, S)
      BY <2>6, <2>0, <3>1, TransitionsSendNoVerdict DEF OnCancelError, EscalateToEstop, Escalated, sequence
    <3>2. CASE UNCHANGED <<escalation_level_, orphans>> /\ CompleteAbort(S)
      BY <2>6, <2>0, <3>2, TransitionsSendNoVerdict DEF OnCancelError, CompleteAbort, Steady, sequence
    <3> QED
      BY <2>6, <3>1, <3>2 DEF OnCancelError
  <2>7. CASE OnRestartIssued(r)
    BY <2>7 DEF OnRestartIssued, WaitForReconnect, NoVerdictSent, Steady, sequence
  <2>8. CASE OnRestartVerified(r)
    BY <2>8, <2>0, TransitionsSendNoVerdict DEF OnRestartVerified, CompleteAbort, Steady, sequence
  <2> QED
    BY <1>1, <2>1, <2>2, <2>3, <2>4, <2>5, <2>6, <2>7, <2>8
<1>2. ASSUME TimerFires PROVE NoVerdictSent /\ (Steady \/ Escalated)
  <2>0. inflight \in SUBSET inflight
    OBVIOUS
  <2>1. ASSUME NEW n, NEW k, StaleTimeout(k, n) PROVE NoVerdictSent /\ (Steady \/ Escalated)
    BY <2>1 DEF StaleTimeout, NoVerdictSent, Steady, machine, sequence
  <2>2. ASSUME NEW n, NEW k, RecoveryTimeout(k, n) PROVE NoVerdictSent /\ (Steady \/ Escalated)
    BY <2>0, <2>2, TransitionsSendNoVerdict DEF RecoveryTimeout, CompleteAbort, Steady, sequence
  <2>3. ASSUME NEW n, HeaterInterruptTimeout(n) PROVE NoVerdictSent /\ (Steady \/ Escalated)
    BY <2>0, <2>3, TransitionsSendNoVerdict DEF HeaterInterruptTimeout, StartProbe, Steady, sequence
  <2>4. ASSUME NEW n, ProbeTimeout(n) PROVE NoVerdictSent /\ (Steady \/ Escalated)
    BY <2>0, <2>4, ProbeTimeoutKind DEF ProbeTimeout
  <2>5. ASSUME NEW n, CancelTimeout(n) PROVE NoVerdictSent /\ (Steady \/ Escalated)
    BY <2>0, <2>5, TransitionsSendNoVerdict DEF CancelTimeout, EscalateToEstop, Escalated, sequence
  <2> QED
    BY <1>2, <2>1, <2>2, <2>3, <2>4, <2>5 DEF TimerFires
<1>3. ASSUME User PROVE NoVerdictSent /\ (Steady \/ Escalated \/ Begun)
  <2>0. inflight \in SUBSET inflight
    OBVIOUS
  <2>1. CASE StartAbortProbe \/ StartAbortCancel \/ StartAbortEstop
    BY <2>0, <2>1, TransitionsSendNoVerdict DEF StartAbortProbe, StartAbortCancel, StartAbortEstop,
       BeginSequence, Begun
  <2>2. CASE PressEstop
    BY <2>0, <2>2, TransitionsSendNoVerdict DEF PressEstop, EscalateToEstop, Escalated
  <2>3. CASE ChangeSetting \/ DeinitSubjects
    BY <2>3 DEF ChangeSetting, DeinitSubjects, NoVerdictSent, Steady, machine, sequence
  <2> QED
    BY <1>3, <2>1, <2>2, <2>3 DEF User
<1>4. ASSUME Printer \/ ShowRecovery \/ Recheck PROVE NoVerdictSent /\ Steady
  <2>0. inflight \in SUBSET inflight
    OBVIOUS
  <2>1. ASSUME NEW s, KlippyChanges(s) PROVE NoVerdictSent /\ Steady
    <3>1. CASE CompleteAbort(inflight)
      BY <2>0, <2>1, <3>1, TransitionsSendNoVerdict DEF KlippyChanges, CompleteAbort, Steady, sequence
    <3>2. CASE UNCHANGED <<abort_state_, inflight, recovery>>
      BY <2>1, <3>2 DEF KlippyChanges, NoVerdictSent, Steady, sequence
    <3> QED
      BY <2>1, <3>1, <3>2 DEF KlippyChanges
  <2>2. CASE PrintEnds
    <3>1. CASE CompleteAbort(inflight)
      BY <2>0, <2>2, <3>1, TransitionsSendNoVerdict DEF PrintEnds, CompleteAbort, Steady, sequence
    <3>2. CASE UNCHANGED <<abort_state_, inflight, recovery>>
      BY <2>2, <3>2 DEF PrintEnds, NoVerdictSent, Steady, sequence
    <3> QED
      BY <2>2, <3>1, <3>2 DEF PrintEnds
  <2>3. CASE PrintStarts \/ ShowRecovery \/ Recheck
    BY <2>3 DEF PrintStarts, ShowRecovery, Recheck, NoVerdictSent, Steady, machine, sequence
  <2> QED
    BY <1>4, <2>1, <2>2, <2>3 DEF Printer
<1> QED
  BY <1>1, <1>2, <1>3, <1>4 DEF Next, Reply

\* No step lets a verdict outrun the recovery it is about.
LEMMA VerdictsHold == ASSUME IInv, Verdicts, [Next]_vars PROVE Verdicts'
<1>a. /\ generation \in Nat /\ escalation_level_ \in Nat
      /\ \A r \in inflight : r.generation \in Nat /\ r.level \in Nat
  BY BoundsAssumption DEF IInv, TypeOK, Requests
<1>1. CASE NoVerdictSent /\ Steady
  <2> SUFFICES ASSUME NEW r \in inflight'
               PROVE  /\ r.generation <= generation'
                      /\ r.cmd = "restart" /\ r.generation = generation' => r.level <= escalation_level_'
                      /\ r.cmd = "restart" /\ r.generation = generation' /\ r.level = escalation_level_' =>
                            /\ abort_state_' # "SENT_ESTOP"
                            /\ recovery' = <<started', escalation_level_', "restart">>
    BY DEF Verdicts
  <2>1. CASE r \in inflight
    BY <1>1, <2>1 DEF Verdicts, Steady
  <2>2. CASE r.cmd # "restart" /\ r.generation = generation'
    BY <1>1, <1>a, <2>2 DEF Steady
  <2> QED
    BY <1>1, <2>1, <2>2 DEF NoVerdictSent
<1>2. CASE NoVerdictSent /\ Escalated
  <2> SUFFICES ASSUME NEW r \in inflight'
               PROVE  /\ r.generation <= generation'
                      /\ r.cmd = "restart" /\ r.generation = generation' => r.level < escalation_level_'
    BY <1>2, <1>a DEF Verdicts, Escalated, NoVerdictSent
  <2>1. CASE r \in inflight
    BY <1>2, <1>a, <2>1 DEF Verdicts, Escalated
  <2>2. CASE r.cmd # "restart" /\ r.generation = generation'
    BY <1>2, <1>a, <2>2 DEF Escalated
  <2> QED
    BY <1>2, <2>1, <2>2 DEF NoVerdictSent
<1>3. CASE NoVerdictSent /\ Begun
  <2> SUFFICES ASSUME NEW r \in inflight'
               PROVE  /\ r.generation <= generation'
                      /\ r.cmd = "restart" => r.generation < generation'
    BY <1>3, <1>a DEF Verdicts, Begun, NoVerdictSent
  <2>1. CASE r \in inflight
    BY <1>3, <1>a, <2>1 DEF Verdicts, Begun
  <2>2. CASE r.cmd # "restart" /\ r.generation = generation'
    BY <1>3, <1>a, <2>2 DEF Begun
  <2> QED
    BY <1>3, <2>1, <2>2 DEF NoVerdictSent
<1>4. ASSUME NEW q \in inflight, OnEstopSent(q) PROVE Verdicts'
  <2>1. /\ abort_state_ = "SENT_ESTOP" /\ abort_state_' = "SENT_RESTART"
        /\ UNCHANGED <<generation, started, escalation_level_>>
    BY <1>4 DEF OnEstopSent, Awaited, AwaitedIn, SendFirmwareRestart, sequence
  <2>2. PICK answer \in Answers : /\ inflight' = (inflight \ {q}) \cup {Sent(answer)}
                                  /\ recovery' = <<started, escalation_level_, answer>>
    BY <1>4 DEF OnEstopSent, SendFirmwareRestart
  <2>3. /\ Sent(answer).cmd = answer /\ Sent(answer).generation = generation
        /\ Sent(answer).level = escalation_level_
    BY <2>1 DEF Sent
  <2> SUFFICES ASSUME NEW r \in inflight'
               PROVE  /\ r.generation <= generation
                      /\ r.cmd = "restart" /\ r.generation = generation => r.level <= escalation_level_
                      /\ r.cmd = "restart" /\ r.generation = generation /\ r.level = escalation_level_ =>
                            recovery' = <<started, escalation_level_, "restart">>
    BY <2>1 DEF Verdicts
  <2>4. CASE r \in inflight
    BY <2>1, <2>4 DEF Verdicts
  <2>5. CASE r = Sent(answer)
    BY <1>a, <2>2, <2>3, <2>5
  <2> QED
    BY <2>2, <2>4, <2>5
<1>5. CASE UNCHANGED vars
  BY <1>5 DEF vars, Verdicts, machine, sequence
<1> QED
  BY <1>1, <1>2, <1>3, <1>4, <1>5, StepKinds

\* A READY on its way, of a recovery that was taken on.
Trusted ==
    /\ ready_in_flight
    /\ abort_state_ = "COMPLETE" /\ escalation_level_ > 0
           => recovery = <<started, escalation_level_, "restart">>

\* A fault the abort does not suppress is on its way to the user, or forgiven.
FaultIsShown ==
    ~is_handling_shutdown /\ klippy \in Faulted => Shown \/ fate = "misled" \/ Trusted

\* A step that leaves the dialog and Klipper alone and lifts no suppression.
Kept ==
    /\ UNCHANGED <<dialog, klippy, ready_in_flight>>
    /\ ~is_handling_shutdown' => ~is_handling_shutdown
    /\ abort_state_' = "COMPLETE" /\ escalation_level_' > 0
           => UNCHANGED <<abort_state_, escalation_level_, started, recovery>>

\* The ways a step may leave the fault shown: suppressed, gone, shown or kept.
Settled == is_handling_shutdown' \/ klippy' \notin Faulted \/ Shown' \/ Kept

\* A step that leaves the fault in one of those ways keeps every fault shown.
LEMMA SettledIsShown == ASSUME FaultIsShown, Settled PROVE FaultIsShown'
<1>1. CASE Kept
  <2>1. Shown' = Shown /\ fate' = fate /\ klippy' = klippy
    BY <1>1 DEF Kept, Shown, dialog
  <2>2. Trusted => Trusted'
    BY <1>1 DEF Kept, Trusted
  <2> QED
    BY <1>1, <2>1, <2>2 DEF Kept, FaultIsShown
<1> QED
  BY <1>1 DEF Settled, FaultIsShown

\* A request for the dialog is queued or latched for the re-check.
LEMMA RequestShows == ASSUME RequestDialog PROVE Shown'
<1>1. PICK suppressed \in BOOLEAN :
          /\ posted' = (posted \/ ~suppressed) /\ latched' = (latched \/ suppressed)
          /\ recheck' = (recheck \/ suppressed)
  BY DEF RequestDialog, Reads
<1> QED
  BY <1>1 DEF Shown

\* The suppression holds exactly in the hard half of a sequence.
LEMMA HandlingIsHard ==
    ASSUME IInv
    PROVE  /\ shutdown_recovery_in_progress_ <=> abort_state_ \in Hard
           /\ is_handling_shutdown <=> abort_state_ \in Hard
           /\ abort_state_ \in Soft => escalation_level_ = 0 /\ abort_state_ \notin Hard
BY DEF IInv, Halves, is_handling_shutdown, Hard, Soft

\* complete_abort() surfaces the fault it suppressed, and else leaves the dialog.
LEMMA CompleteSettles ==
    ASSUME IInv, IInv', SurfaceRecovery(shutdown_recovery_in_progress_),
           UNCHANGED <<klippy, ready_in_flight, escalation_level_>>, abort_state_' = "COMPLETE",
           abort_state_ \in Soft \cup Hard
    PROVE  Settled
<1>1. CASE abort_state_ \in Hard
  BY <1>1, HandlingIsHard, RequestShows DEF SurfaceRecovery, Settled
<1>2. CASE abort_state_ \in Soft
  <2>1. UNCHANGED dialog /\ ~is_handling_shutdown /\ escalation_level_' = 0
    BY <1>2, HandlingIsHard DEF SurfaceRecovery
  <2> QED
    BY <2>1 DEF Kept, Settled
<1> QED
  BY <1>1, <1>2

\* Sending the cancel in a soft phase leaves the dialog alone.
LEMMA CancelSettles ==
    ASSUME IInv, NEW g, NEW S, SendCancelPrint(g, S), ~is_handling_shutdown, escalation_level_' = 0,
           SurfaceRecovery(print_ended /\ shutdown_recovery_in_progress_),
           UNCHANGED <<klippy, ready_in_flight>>
    PROVE  Settled
<1>1. UNCHANGED dialog
  BY DEF SurfaceRecovery, is_handling_shutdown
<1> QED
  BY <1>1 DEF Kept, Settled

\* Escalating suppresses.
LEMMA EscalationSettles == ASSUME NEW l, NEW S, EscalateToEstop(l, S) PROVE Settled
BY DEF EscalateToEstop, Settled, is_handling_shutdown

\* on_probe_timeout().
LEMMA ProbeTimeoutSettles ==
    ASSUME IInv, NEW g, NEW S, OnProbeTimeout(g, S), abort_state_ \in Soft
    PROVE  Settled
<1>1. CASE EscalateToEstop(escalation_level_, S)
  BY <1>1, EscalationSettles
<1>2. CASE /\ UNCHANGED escalation_level_ /\ SendCancelPrint(g, S)
           /\ SurfaceRecovery(print_ended /\ shutdown_recovery_in_progress_)
  BY <1>2, HandlingIsHard, CancelSettles DEF OnProbeTimeout, environment
<1> QED
  BY <1>1, <1>2 DEF OnProbeTimeout

\* No reply leaves a fault unshown.
LEMMA ReplyShows == ASSUME IInv, IInv', Verdicts, FaultIsShown, Reply PROVE FaultIsShown'
<1> PICK r \in inflight :
        \/ IgnoreReply(r) \/ SetPrintOutcome(r)
        \/ OnHeaterInterruptReply(r)
        \/ OnProbeResponse(r) \/ OnProbeError(r)
        \/ OnCancelSuccess(r) \/ OnCancelError(r)
        \/ OnEstopSent(r)
        \/ OnRestartIssued(r) \/ OnRestartVerified(r)
  BY DEF Reply
<1>1. CASE IgnoreReply(r) \/ SetPrintOutcome(r)
  <2>1. Kept
    BY <1>1 DEF IgnoreReply, SetPrintOutcome, Kept, machine, environment, sequence, is_handling_shutdown
  <2> QED
    BY <2>1, SettledIsShown DEF Settled
<1>2. CASE OnHeaterInterruptReply(r)
  <2>1. abort_state_ \in Soft
    BY <1>2 DEF OnHeaterInterruptReply, Awaited, AwaitedIn, Soft
  <2>2. ~is_handling_shutdown /\ UNCHANGED <<dialog, klippy, ready_in_flight>> /\ abort_state_' # "COMPLETE"
    BY <1>2, <2>1, HandlingIsHard DEF OnHeaterInterruptReply, StartProbe, environment
  <2> QED
    BY <2>2, SettledIsShown DEF Settled, Kept
<1>3. CASE OnProbeResponse(r)
  <2>1. abort_state_ \in Soft
    BY <1>3 DEF OnProbeResponse, Awaited, AwaitedIn, Soft
  <2>2. Settled
    BY <1>3, <2>1, HandlingIsHard, CancelSettles DEF OnProbeResponse, environment
  <2> QED
    BY <2>2, SettledIsShown
<1>4. CASE OnProbeError(r)
  <2>1. abort_state_ \in Soft
    BY <1>4 DEF OnProbeError, Awaited, AwaitedIn, Soft
  <2> QED
    BY <1>4, <2>1, ProbeTimeoutSettles, SettledIsShown DEF OnProbeError
<1>5. CASE OnCancelSuccess(r) \/ OnCancelError(r)
  <2>1. abort_state_ \in Soft
    BY <1>5 DEF OnCancelSuccess, OnCancelError, Awaited, AwaitedIn, Soft
  <2>2. CASE EscalateToEstop(escalation_level_, inflight \ {r})
    BY <2>2, EscalationSettles, SettledIsShown
  <2>3. CASE /\ CompleteAbort(inflight \ {r}) /\ SurfaceRecovery(shutdown_recovery_in_progress_)
             /\ UNCHANGED <<klippy, ready_in_flight, escalation_level_>>
    <3>1. abort_state_' = "COMPLETE"
      BY <2>3 DEF CompleteAbort
    <3> QED
      BY <2>1, <2>3, <3>1, CompleteSettles, SettledIsShown
  <2> QED
    BY <1>5, <2>2, <2>3 DEF OnCancelSuccess, OnCancelError, environment
<1>6. CASE OnEstopSent(r) \/ OnRestartIssued(r)
  <2>1. is_handling_shutdown'
    BY <1>6 DEF OnEstopSent, OnRestartIssued, SendFirmwareRestart, WaitForReconnect, is_handling_shutdown
  <2> QED
    BY <2>1, SettledIsShown DEF Settled
<1>7. CASE OnRestartVerified(r)
  <2>1. /\ r.cmd = "restart" /\ r.generation = generation
        /\ UNCHANGED <<klippy, started, escalation_level_, recovery>>
    BY <1>7 DEF OnRestartVerified, Awaited, sequence, CompleteAbort
  <2>2. CASE r.level = escalation_level_ /\ ready_in_flight' = (klippy # "READY")
    <3>1. recovery' = <<started', escalation_level_', "restart">>
      BY <2>1, <2>2 DEF Verdicts
    <3> QED
      BY <2>1, <2>2, <3>1 DEF FaultIsShown, Trusted, Faulted
  <2>3. CASE fate' = "misled"
    BY <2>3 DEF FaultIsShown
  <2> QED
    BY <1>7, <2>2, <2>3 DEF OnRestartVerified
<1> QED
  BY <1>1, <1>2, <1>3, <1>4, <1>5, <1>6, <1>7

\* No timer leaves a fault unshown.
LEMMA TimerShows == ASSUME IInv, IInv', FaultIsShown, TimerFires PROVE FaultIsShown'
<1>1. ASSUME NEW n, NEW k, StaleTimeout(k, n) PROVE FaultIsShown'
  <2>1. Kept
    BY <1>1 DEF StaleTimeout, Kept, machine, environment, sequence, is_handling_shutdown
  <2> QED
    BY <2>1, SettledIsShown DEF Settled
<1>2. ASSUME NEW n, NEW k, RecoveryTimeout(k, n) PROVE FaultIsShown'
  <2>1. abort_state_ \in Hard
    BY <1>2, RecoveryTimerFires DEF RecoveryTimeout, RecoveryTimers, Recovering, Hard
  <2>2. /\ SurfaceRecovery(shutdown_recovery_in_progress_) /\ abort_state_' = "COMPLETE"
        /\ UNCHANGED <<klippy, ready_in_flight, escalation_level_>>
    BY <1>2 DEF RecoveryTimeout, CompleteAbort, environment
  <2> QED
    BY <2>1, <2>2, CompleteSettles, SettledIsShown
<1>3. ASSUME NEW n, HeaterInterruptTimeout(n) PROVE FaultIsShown'
  <2>1. abort_state_ \in Soft
    BY <1>3 DEF HeaterInterruptTimeout, Soft
  <2>2. ~is_handling_shutdown /\ UNCHANGED <<dialog, klippy, ready_in_flight>> /\ abort_state_' # "COMPLETE"
    BY <1>3, <2>1, HandlingIsHard DEF HeaterInterruptTimeout, StartProbe, environment
  <2> QED
    BY <2>2, SettledIsShown DEF Settled, Kept
<1>4. ASSUME NEW n, ProbeTimeout(n) PROVE FaultIsShown'
  <2>1. abort_state_ \in Soft
    BY <1>4 DEF ProbeTimeout, Soft
  <2> QED
    BY <1>4, <2>1, ProbeTimeoutSettles, SettledIsShown DEF ProbeTimeout
<1>5. ASSUME NEW n, CancelTimeout(n) PROVE FaultIsShown'
  BY <1>5, EscalationSettles, SettledIsShown DEF CancelTimeout
<1> QED
  BY <1>1, <1>2, <1>3, <1>4, <1>5 DEF TimerFires

\* Nor does the user.
LEMMA UserShows == ASSUME IInv, FaultIsShown, User PROVE FaultIsShown'
<1>1. CASE StartAbortProbe
  <2>1. ~is_handling_shutdown
    BY <1>1, HandlingIsHard DEF StartAbortProbe, BeginSequence, is_aborting, Hard
  <2>2. UNCHANGED <<dialog, klippy, ready_in_flight>> /\ abort_state_' # "COMPLETE"
    BY <1>1 DEF StartAbortProbe, TryHeaterInterrupt, StartProbe, environment
  <2> QED
    BY <2>1, <2>2, SettledIsShown DEF Settled, Kept
<1>2. CASE StartAbortCancel
  <2>1. ~is_handling_shutdown
    BY <1>2, HandlingIsHard DEF StartAbortCancel, BeginSequence, is_aborting, Hard
  <2> QED
    BY <1>2, <2>1, CancelSettles, SettledIsShown DEF StartAbortCancel, environment
<1>3. CASE StartAbortEstop \/ PressEstop
  BY <1>3, EscalationSettles, SettledIsShown DEF StartAbortEstop, PressEstop
<1>4. CASE ChangeSetting
  <2>1. Kept
    BY <1>4 DEF ChangeSetting, Kept, machine, sequence, is_handling_shutdown
  <2> QED
    BY <2>1, SettledIsShown DEF Settled
<1>5. CASE DeinitSubjects
  BY <1>5, SettledIsShown DEF DeinitSubjects, Settled, Faulted
<1> QED
  BY <1>1, <1>2, <1>3, <1>4, <1>5 DEF User

\* Nor a change of the printer, nor the dialog's own steps.
LEMMA PrinterShows ==
    ASSUME IInv, IInv', FaultIsShown, Printer \/ ShowRecovery \/ Recheck
    PROVE  FaultIsShown'
<1>1. ASSUME NEW s \in KlippyStates, KlippyChanges(s) PROVE FaultIsShown'
  <2>1. klippy' = s /\ OverlayHears(s)
    BY <1>1 DEF KlippyChanges
  <2>2. CASE s \in Faulted
    BY <2>1, <2>2, RequestShows, SettledIsShown DEF OverlayHears, Settled, Shown, Faulted
  <2> QED
    BY <2>1, <2>2, SettledIsShown DEF Settled
<1>2. CASE PrintEnds
  <2>1. CASE /\ abort_state_ = "SENT_CANCEL" /\ CompleteAbort(inflight)
             /\ SurfaceRecovery(shutdown_recovery_in_progress_)
    <3>1. abort_state_ \in Soft /\ abort_state_' = "COMPLETE"
      BY <2>1 DEF Soft, CompleteAbort
    <3>2. UNCHANGED <<klippy, ready_in_flight, escalation_level_>>
      BY <1>2 DEF PrintEnds
    <3> QED
      BY <2>1, <3>1, <3>2, CompleteSettles, SettledIsShown
  <2>2. CASE UNCHANGED <<abort_state_, shutdown_recovery_in_progress_, recovery, dialog>>
    <3>1. Kept
      BY <1>2, <2>2 DEF PrintEnds, Kept, sequence, is_handling_shutdown
    <3> QED
      BY <3>1, SettledIsShown DEF Settled
  <2> QED
    BY <1>2, <2>1, <2>2 DEF PrintEnds
<1>3. CASE PrintStarts
  <2>1. Kept
    BY <1>3 DEF PrintStarts, Kept, machine, sequence, is_handling_shutdown
  <2> QED
    BY <2>1, SettledIsShown DEF Settled
<1>4. CASE ShowRecovery \/ Recheck
  <2>1. /\ UNCHANGED <<klippy, ready_in_flight, abort_state_, escalation_level_, started, recovery>>
        /\ is_handling_shutdown' => is_handling_shutdown
        /\ is_handling_shutdown => is_handling_shutdown'
    <3>1. UNCHANGED <<machine, environment, sequence, recovery>>
      BY <1>4 DEF ShowRecovery, Recheck
    <3> QED
      BY <3>1 DEF machine, environment, sequence, is_handling_shutdown
  <2>2. Trusted => Trusted'
    BY <2>1 DEF Trusted
  <2>3. posted \in BOOLEAN /\ latched \in BOOLEAN /\ recheck \in BOOLEAN
    BY DEF IInv, TypeOK
  <2>4. ASSUME ~is_handling_shutdown PROVE Shown \/ fate = "misled" => Shown' \/ fate' = "misled"
    <3>1. CASE ShowRecovery
      <4>1. fate' \in {"told", "waived"}
        BY <2>3, <2>4, <3>1 DEF ShowRecovery, Answer, Reads
      <4> QED
        BY <4>1 DEF Shown
    <3>2. CASE Recheck
      <4>1. PICK excused \in BOOLEAN :
                /\ latched' = (latched /\ excused) /\ recheck' \in {FALSE, latched'}
                /\ Answer(latched /\ ~excused, latched' /\ ~recheck' /\ excused)
        BY <2>3, <2>4, <3>2 DEF Recheck, Reads
      <4>2. posted' = posted
        BY <3>2 DEF Recheck
      <4>3. CASE latched
        <5>1. fate' \in {"told", "waived"} \/ (latched' /\ recheck')
          BY <4>1, <4>3 DEF Answer
        <5> QED
          BY <5>1 DEF Shown
      <4>4. CASE ~latched
        <5>1. fate' = fate
          BY <4>1, <4>4 DEF Answer
        <5> QED
          BY <4>2, <4>4, <5>1 DEF Shown
      <4> QED
        BY <2>3, <4>3, <4>4
    <3> QED
      BY <1>4, <3>1, <3>2
  <2> QED
    BY <2>1, <2>2, <2>4 DEF FaultIsShown
<1> QED
  BY <1>1, <1>2, <1>3, <1>4 DEF Printer

\* Recovery and dialog stay in step with the machine.
RInv == IInv /\ Verdicts /\ FaultIsShown

-----------------------------------------------------------------------------
(* The theorems.                                                           *)

\* However many aborts and escalations there are, the machine, its timers, its
\* requests and the recovery dialog stay in step.
THEOREM Invariance == Spec => []IInv
<1>1. IInv /\ [Next]_vars => IInv'
  BY StartHolds, PressHolds, ReplyHolds, TimerHolds, KlippyHolds, PrintEndsHolds, OthersHold
     DEF Next, User, Printer
<1> QED
  BY <1>1, InitHolds, PTL DEF Spec

\* escalation_level_, the guards and the requests stay in range, and the flag that
\* suppresses the recovery dialog never outlives its sequence.
THEOREM AbortStaysSound == Spec => []AbortIsSound
<1>1. IInv => AbortIsSound
  BY DEF IInv, AbortIsSound, SuppressionEnds, is_aborting, is_handling_shutdown, Halves, Hard
<1> QED
  BY <1>1, Invariance, PTL

\* No M112 is sent in an abort unless the user asked for one or lets a cancel
\* escalate.
THEOREM EstopIsAskedFor == Spec => []NoUnaskedEstop
<1>1. IInv => NoUnaskedEstop
  BY DEF IInv
<1> QED
  BY <1>1, Invariance, PTL

\* However many aborts and escalations there are, no verdict of a recovery outruns
\* the call it answers, and no fault the abort does not suppress is lost on its
\* way to the user.
THEOREM RecoveryInvariance == Spec => []RInv
<1>1. Init => Verdicts /\ FaultIsShown
  BY DEF Init, Verdicts, FaultIsShown, Faulted
<1>2. IInv /\ IInv' /\ Verdicts /\ FaultIsShown /\ [Next]_vars => Verdicts' /\ FaultIsShown'
  <2> SUFFICES ASSUME IInv, IInv', Verdicts, FaultIsShown, [Next]_vars PROVE Verdicts' /\ FaultIsShown'
    OBVIOUS
  <2>1. Verdicts'
    BY VerdictsHold
  <2>2. CASE Next
    BY <2>1, <2>2, ReplyShows, TimerShows, UserShows, PrinterShows DEF Next
  <2>3. CASE UNCHANGED vars
    BY <2>1, <2>3, SettledIsShown
       DEF Settled, Kept, vars, machine, environment, dialog, sequence, is_handling_shutdown
  <2> QED
    BY <2>2, <2>3
<1> QED
  BY <1>1, <1>2, Invariance, PTL DEF Spec, RInv

\* Every M112 of a sequence that ended has had recover() called for it; if that
\* was refused, a Klipper still down is put before the user.
THEOREM EstopIsRecovered == Spec => []EveryEstopIsRecovered
<1>1. RInv => EveryEstopIsRecovered
  <2> SUFFICES ASSUME RInv, abort_state_ = "COMPLETE", escalation_level_ > 0,
                      recovery # <<started, escalation_level_, "restart">>
               PROVE  /\ recovery = <<started, escalation_level_, "refusal">>
                      /\ klippy \in Faulted => Shown \/ fate = "misled"
    BY DEF EveryEstopIsRecovered
  <2>1. recovery = <<started, escalation_level_, "refusal">>
    BY DEF RInv, IInv, RecoverySent, Answers
  <2>2. ~is_handling_shutdown
    BY HandlingIsHard DEF RInv, Hard
  <2> QED
    BY <2>1, <2>2 DEF RInv, FaultIsShown, Trusted
<1> QED
  BY <1>1, RecoveryInvariance, PTL

\* A fault the abort suppressed is shown, or is about to be, once it is over, unless
\* a READY is on its way or the overlay itself gave the fault up.
THEOREM FaultIsNeverSilent == Spec => []NoSilentFault
<1>1. RInv => NoSilentFault
  <2> SUFFICES ASSUME RInv, ~is_aborting, klippy \in Faulted
               PROVE  Shown \/ ready_in_flight \/ fate = "misled"
    BY DEF NoSilentFault
  <2>1. ~is_handling_shutdown
    BY HandlingIsHard DEF RInv, Hard, is_aborting
  <2> QED
    BY <2>1 DEF RInv, FaultIsShown, Trusted
<1> QED
  BY <1>1, RecoveryInvariance, PTL

\* Within a sequence, only the reply at hand, or the printer switch, takes a request
\* out of flight.
LEMMA OthersStayInFlight ==
    ASSUME Next, ~DeinitSubjects, NEW r \in inflight, r \notin inflight'
    PROVE  \/ r.generation = generation
           \/ IgnoreReply(r) \/ SetPrintOutcome(r)
<1>1. ~TimerFires
  BY DEF TimerFires, StaleTimeout, RecoveryTimeout, HeaterInterruptTimeout, ProbeTimeout, CancelTimeout,
     OnProbeTimeout, StartProbe, SendCancelPrint, CompleteAbort, EscalateToEstop
<1>2. ~(PressEstop \/ StartAbortProbe \/ StartAbortCancel \/ StartAbortEstop \/ ChangeSetting)
  BY DEF PressEstop, StartAbortProbe, StartAbortCancel, StartAbortEstop, ChangeSetting,
     TryHeaterInterrupt, StartProbe, SendCancelPrint, EscalateToEstop
<1>3. ~(Printer \/ ShowRecovery \/ Recheck)
  BY DEF Printer, KlippyChanges, PrintEnds, PrintStarts, ShowRecovery, Recheck, CompleteAbort
<1>4. PICK q \in inflight :
        \/ IgnoreReply(q) \/ SetPrintOutcome(q)
        \/ OnHeaterInterruptReply(q)
        \/ OnProbeResponse(q) \/ OnProbeError(q)
        \/ OnCancelSuccess(q) \/ OnCancelError(q)
        \/ OnEstopSent(q)
        \/ OnRestartIssued(q) \/ OnRestartVerified(q)
  BY <1>1, <1>2, <1>3 DEF Next, User, Reply
<1>5. q = r
  BY <1>4 DEF IgnoreReply, SetPrintOutcome, OnHeaterInterruptReply, OnProbeResponse, OnProbeError,
     OnCancelSuccess, OnCancelError, OnEstopSent, OnRestartIssued, OnRestartVerified, OnProbeTimeout,
     StartProbe, SendCancelPrint, CompleteAbort, EscalateToEstop, SendFirmwareRestart, WaitForReconnect
<1> QED
  BY <1>4, <1>5 DEF OnHeaterInterruptReply, OnProbeResponse, OnProbeError, OnCancelSuccess, OnCancelError,
     OnEstopSent, OnRestartIssued, OnRestartVerified, Awaited

\* A reply to a request of an earlier sequence never moves the current one.
THEOREM LateRepliesAreIgnored == Spec => RepliesStayInTheirSequence
<1> DEFINE Stays == \A r \in inflight \ inflight' :
                        r.started < started /\ started' = started => UNCHANGED <<machine, print_outcome>>
<1>1. ASSUME IInv, [Next]_vars PROVE [Stays]_vars
  <2> SUFFICES ASSUME Next, NEW r \in inflight \ inflight', r.started < started
               PROVE  UNCHANGED <<machine, print_outcome>>
    BY <1>1
  <2>1. r.generation # generation /\ print_outcome \in BOOLEAN
    BY <1>1 DEF IInv, TypeOK, Stamps, Stamped, Requests
  <2>2. DeinitSubjects \/ IgnoreReply(r) \/ SetPrintOutcome(r)
    BY <2>1, OthersStayInFlight
  <2> QED
    BY <2>1, <2>2 DEF DeinitSubjects, IgnoreReply, SetPrintOutcome
<1> QED
  BY <1>1, Invariance, PTL DEF Spec, RepliesStayInTheirSequence
=============================================================================
