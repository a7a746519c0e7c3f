---------------------------- MODULE BootCrashGuard ----------------------------
(***************************************************************************)
(* The boot of the K-Touch panel: a switch moves its one connection, and   *)
(* a printer whose connection crashes the panel must not keep it in a boot *)
(* loop.  Crash resets are counted in the config file; after Threshold of  *)
(* them the boot falls back to the printer the last switch left, or holds  *)
(* the connection until the user picks a printer.  Restarts the panel asks *)
(* for itself are counted apart, up to MaxRestarts.                        *)
(*                                                                         *)
(* The panel can crash or lose power at every step, the boot's way to the  *)
(* guard's save included, and a save can fail: the next boot reads what    *)
(* `disk` holds and the reason of the last reset alone.                    *)
(***************************************************************************)
EXTENDS Naturals, FiniteSets

CONSTANTS Printers,     \* printer ids
          NoPrinter,    \* the empty id
          Threshold,    \* kBootCrashFallbackThreshold (3)
          MaxRestarts,  \* kMaxFallbackRestarts (2)
          MaxFailures,  \* bound: saves that fail and are not rolled back
          MaxUncounted  \* bound: crashes the guard never gets to count

ASSUME GuardAssumption ==
    /\ Threshold \in Nat \ {0} /\ MaxRestarts \in Nat
    /\ MaxFailures \in Nat /\ MaxUncounted \in Nat
    /\ NoPrinter \notin Printers

Configs == [printers : SUBSET Printers,               \* /printers
            active : Printers,                        \* /active_printer_id
            hold : BOOLEAN,                           \* kBootConnectHoldKey
            previous : Printers \cup {NoPrinter},     \* kSwitchPreviousPrinterKey
            streak : 0..(Threshold - 1),              \* kBootCrashStreakKey
            restarts : 0..MaxRestarts]                \* kSwitchRestartStreakKey

VARIABLES
    config,     \* Config in memory
    disk,       \* the saved file
    connected,  \* m_connected_printer_id
    link,       \* the connection: "off" | "connecting" | "up"
    switching,  \* g_switch_started_us is set
    watchdog,   \* the switch watchdog's timer is armed
    healthy,    \* restart_streak_cleared
    reset,      \* "none", or the reason of the reset whose boot has not reached
                \* the end of the guard: "restart" | "crash"
    connects,   \* this boot connected by itself, or the user picked a printer
    strikes,    \* crashes of connecting panels since a pick or a healthy session
    uncounted,  \* those of them whose reset another one replaced
    loops,      \* fallback restarts since a healthy session
    failures    \* saves that failed and were not rolled back

store == <<config, disk, failures>>
panel == <<connected, link, switching, watchdog, healthy>>
blame == <<connects, strikes, uncounted>>
vars == <<store, panel, reset, blame, loops>>

TypeOK ==
    /\ config \in Configs
    /\ disk \in Configs
    /\ connected \in Printers
    /\ link \in {"off", "connecting", "up"}
    /\ switching \in BOOLEAN
    /\ watchdog \in BOOLEAN
    /\ healthy \in BOOLEAN
    /\ reset \in {"none", "restart", "crash"}
    /\ connects \in BOOLEAN
    /\ strikes \in Nat
    /\ uncounted \in 0..MaxUncounted
    /\ loops \in Nat
    /\ failures \in 0..MaxFailures

Init ==
    /\ \E S \in SUBSET Printers : \E p \in S :
           config = [printers |-> S, active |-> p, hold |-> FALSE, previous |-> NoPrinter,
                     streak |-> 0, restarts |-> 0]
    /\ disk = config
    /\ connected = config.active
    /\ link = "connecting"
    /\ switching = FALSE /\ watchdog = FALSE /\ healthy = FALSE
    /\ reset = "none"
    /\ connects = TRUE
    /\ strikes = 0 /\ uncounted = 0 /\ loops = 0 /\ failures = 0

Running == reset = "none"

Saved(c) == config' = c /\ disk' = c /\ UNCHANGED failures

\* A save whose result is not looked at.
SavedOrNot(c) ==
    \/ Saved(c)
    \/ failures < MaxFailures /\ failures' = failures + 1 /\ config' = c /\ UNCHANGED disk

-----------------------------------------------------------------------------
(* Boot.                                                                   *)

\* A crash that the boot in progress has still to count.
Pending == IF reset = "crash" /\ connects THEN 1 ELSE 0

\* Where a run of crashes falls back to, if anywhere.
CanFallBack(c) == /\ c.previous # NoPrinter /\ c.previous # c.active
                  /\ c.previous \in c.printers

\* Mutant: the threshold is one crash too far.
BugAfterCrashLate(c) ==
    IF c.streak + 1 <= Threshold THEN [c EXCEPT !.streak = @ + 1]
    ELSE [c EXCEPT !.streak = 0, !.previous = NoPrinter, !.hold = TRUE]

\* Mutant: the printer that crashed becomes the one to fall back to.
BugAfterCrashSwaps(c) ==
    IF c.streak + 1 < Threshold THEN [c EXCEPT !.streak = @ + 1]
    ELSE IF CanFallBack(c)
    THEN [c EXCEPT !.streak = 0, !.previous = c.active, !.hold = FALSE, !.active = c.previous]
    ELSE [c EXCEPT !.streak = 0, !.previous = NoPrinter, !.hold = TRUE]

\* Mutant: a crash below the threshold tries to connect again.
BugAfterCrashReleases(c) ==
    IF c.streak + 1 < Threshold THEN [c EXCEPT !.streak = @ + 1, !.hold = FALSE]
    ELSE [c EXCEPT !.streak = 0, !.previous = NoPrinter, !.hold = TRUE]

\* choose_boot_printer() and the writes of apply_boot_crash_guard() after a
\* crash reset.
AfterCrash(c) ==
    IF c.streak + 1 < Threshold THEN [c EXCEPT !.streak = @ + 1]
    ELSE IF CanFallBack(c)
    THEN [c EXCEPT !.streak = 0, !.previous = NoPrinter, !.hold = FALSE, !.active = c.previous]
    ELSE [c EXCEPT !.streak = 0, !.previous = NoPrinter, !.hold = TRUE]

\* app_boot_ui() up to the first connect, which a held connection skips.
Boot ==
    /\ reset # "none"
    /\ reset' = "none"
    /\ \/ reset = "crash" /\ SavedOrNot(AfterCrash(disk))
       \/ reset = "restart" /\ config' = disk /\ UNCHANGED <<disk, failures>>
    /\ connected' = config'.active
    /\ connects' = ~config'.hold
    /\ link' = IF config'.hold THEN "off" ELSE "connecting"
    /\ switching' = FALSE /\ watchdog' = FALSE /\ healthy' = FALSE
    /\ UNCHANGED <<strikes, uncounted, loops>>

\* esp_reset_reason() knows one reset: a crash or a power loss before the boot
\* has counted the crash it comes from takes that crash's place.
Replaced == uncounted' = uncounted + Pending /\ uncounted' <= MaxUncounted

\* A panic or a watchdog reset.
Crash ==
    /\ Replaced
    /\ reset' = "crash"
    /\ strikes' = IF connects THEN strikes + 1 ELSE strikes
    /\ UNCHANGED <<store, panel, connects, loops>>

PowerCycle ==
    /\ Replaced
    /\ reset' = "restart"
    /\ UNCHANGED <<store, panel, connects, strikes, loops>>

\* Mutant: the restart is counted in memory only.
BugFallbackRestartUnsaved(c) ==
    /\ c.restarts < MaxRestarts
    /\ config' = [c EXCEPT !.restarts = @ + 1] /\ UNCHANGED <<disk, failures>>
    /\ reset' = "restart"
    /\ loops' = loops + 1

\* restart_into_active_printer() below its cap, as far as esp_restart().
FallbackRestart(c) ==
    /\ c.restarts < MaxRestarts
    /\ SavedOrNot([c EXCEPT !.restarts = @ + 1])
    /\ reset' = "restart"
    /\ loops' = loops + 1

-----------------------------------------------------------------------------
(* A switch, as PrinterSwitchFlow runs it with this panel's hooks.         *)

\* record_switch_away(): any pick ends the hold; a move to another printer
\* starts a new crash run that falls back to the printer it left.
RecordSwitchAway(c, from, to) ==
    IF from = to THEN [c EXCEPT !.hold = FALSE]
    ELSE [c EXCEPT !.hold = FALSE, !.previous = from, !.streak = 0]

Picked(p) == RecordSwitchAway([config EXCEPT !.active = p], connected, p)

\* The connected printer is only picked again when its link is down.  A pick
\* whose save fails is rolled back and changes nothing.
CanPick(p) == Running /\ p \in config.printers /\ (p = connected => link = "off")

\* retarget_printer_connection() started to connect.
Pick(p) ==
    /\ CanPick(p)
    /\ Saved(Picked(p))
    /\ connected' = p /\ link' = "connecting"
    /\ switching' = TRUE /\ watchdog' = TRUE
    /\ connects' = TRUE /\ strikes' = 0 /\ uncounted' = 0
    /\ UNCHANGED <<healthy, reset, loops>>

\* It did not: the panel restarts into the printer, two saves later.
PickRestarts(p) ==
    /\ CanPick(p)
    /\ Picked(p).restarts < MaxRestarts
    /\ LET c == [Picked(p) EXCEPT !.restarts = @ + 1]
       IN  \/ config' = c /\ disk' = c /\ UNCHANGED failures
           \/ /\ failures < MaxFailures /\ failures' = failures + 1
              /\ config' = c /\ disk' = Picked(p)
    /\ reset' = "restart" /\ loops' = loops + 1
    /\ connects' = TRUE /\ strikes' = 0 /\ uncounted' = 0
    /\ UNCHANGED panel

\* It did not, past the cap: the panel stays up without a connection.
PickStaysUp(p) ==
    /\ CanPick(p)
    /\ config.restarts = MaxRestarts
    /\ Saved(Picked(p))
    /\ connected' = p /\ link' = "off"
    /\ switching' = TRUE /\ watchdog' = TRUE
    /\ connects' = TRUE /\ strikes' = 0 /\ uncounted' = 0
    /\ UNCHANGED <<healthy, reset, loops>>

\* The switch watchdog: connected for 30 s without a discovery.
Watchdog ==
    /\ Running /\ watchdog
    /\ \/ /\ switching /\ link = "up"
          /\ FallbackRestart(config)
          /\ UNCHANGED <<panel, blame>>
       \/ /\ ~(switching /\ link = "up") \/ config.restarts = MaxRestarts
          /\ watchdog' = FALSE
          /\ UNCHANGED <<store, connected, link, switching, healthy, reset, blame, loops>>

\* The transport cannot start a new socket.
TransportStall ==
    /\ Running /\ link # "off"
    /\ FallbackRestart(config)
    /\ UNCHANGED <<panel, blame>>

-----------------------------------------------------------------------------
(* The rest of the session.                                                *)

\* The link comes and goes; Change Host connects it outside a pick.
LinkChanges ==
    /\ Running
    /\ link' \in {"connecting", "up"} /\ link' # link
    /\ switching' \in IF link' = "up" THEN {switching, FALSE} ELSE {switching}
    /\ UNCHANGED <<store, connected, watchdog, healthy, reset, blame, loops>>

\* end_boot_crash_run(), once per boot after ten minutes up and connected.
HealthySession ==
    /\ Running /\ link = "up" /\ ~healthy
    /\ healthy' = TRUE
    /\ LET c == [config EXCEPT !.streak = 0, !.restarts = 0, !.hold = FALSE]
       IN  IF c = config THEN UNCHANGED store ELSE SavedOrNot(c)
    /\ strikes' = 0 /\ uncounted' = 0 /\ loops' = 0
    /\ UNCHANGED <<connected, link, switching, watchdog, reset, connects>>

\* add_printer(): kept in the list when the save fails.  The switch to it is a
\* pick of its own, which the user may not confirm.
AddPrinter(p) ==
    /\ Running /\ p \notin config.printers
    /\ SavedOrNot([config EXCEPT !.printers = @ \cup {p}])
    /\ UNCHANGED <<panel, reset, blame, loops>>

\* remove_printer() from the printer list: never the last one; another one
\* becomes active when the active one goes.
RemovePrinter(p) ==
    /\ Running /\ p \in config.printers /\ config.printers # {p}
    /\ \E q \in IF p = config.active THEN config.printers \ {p} ELSE {config.active} :
           SavedOrNot([config EXCEPT !.printers = @ \ {p}, !.active = q])
    /\ UNCHANGED <<panel, reset, blame, loops>>

Next ==
    \/ Boot \/ Crash \/ PowerCycle
    \/ \E p \in Printers : Pick(p) \/ PickRestarts(p) \/ PickStaysUp(p)
    \/ Watchdog \/ TransportStall
    \/ LinkChanges \/ HealthySession
    \/ \E p \in Printers : AddPrinter(p) \/ RemovePrinter(p)

Spec == Init /\ [][Next]_vars

-----------------------------------------------------------------------------
(* Properties.                                                             *)

\* However picks, falls back, failed saves, crashes and power cuts are
\* interleaved, the panel crashes at most Threshold times on a printer and
\* Threshold times on the one it falls back to before it stops connecting by
\* itself; a save that fails costs one crash more, and so does a crash whose
\* reset another one replaces before the guard has saved its count.
CrashLoopEnds == strikes <= 2 * Threshold + failures + uncounted

\* "neither an unreachable printer nor a weak link ... becomes a boot loop":
\* the panel restarts itself at most MaxRestarts times between two healthy
\* sessions, and once more for each save that failed.
RestartsEnd == loops <= MaxRestarts + failures

\* "A held connection stays held across every later boot until a user pick
\* clears it": no boot connects while the file says hold, and none clears it.
HoldSurvivesBoots ==
    [][reset # "none" /\ Running' /\ disk.hold => ~connects' /\ disk'.hold]_vars
=============================================================================
