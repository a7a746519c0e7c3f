------------------------- MODULE BootCrashGuardProofs -------------------------
(***************************************************************************)
(* The crash guard for every set of printers, threshold, restart cap and   *)
(* number of failed saves and uncounted crashes.  The file and the copy in memory differ after a *)
(* failed save, and either may be the one the next boot or the next save   *)
(* starts from, so the invariant keeps the same books for both.            *)
(***************************************************************************)
EXTENDS BootCrashGuard, TLAPS

\* What copy c accounts for: the crashes of the printer it still falls back
\* from, or of both printers once nothing is left to fall back to; and the
\* restarts.  A held connection has nothing to fall back to.
Accounts(c) ==
    /\ c.hold => c.previous = NoPrinter
    /\ c.hold => strikes <= 2 * Threshold + failures + uncounted
    /\ ~c.hold /\ c.previous # NoPrinter => strikes <= c.streak + failures + uncounted + Pending
    /\ ~c.hold /\ c.previous = NoPrinter =>
           strikes <= c.streak + Threshold + failures + uncounted + Pending
    /\ loops <= c.restarts + failures

\* The inductive invariant.  A panel that connects is held by neither copy.
IInv ==
    /\ TypeOK
    /\ Accounts(config)
    /\ Accounts(disk)
    /\ connects => ~config.hold /\ ~disk.hold

(* A reset after a crash writes a config of the right type, and counts the *)
(* crash, moves on to the printer left, or holds the connection.           *)
LEMMA AfterCrashFacts ==
    ASSUME NEW c \in Configs
    PROVE  /\ AfterCrash(c) \in Configs
           /\ AfterCrash(c).restarts = c.restarts
           /\ \/ /\ AfterCrash(c).streak = c.streak + 1
                 /\ AfterCrash(c).hold = c.hold
                 /\ AfterCrash(c).previous = c.previous
              \/ /\ c.streak = Threshold - 1
                 /\ AfterCrash(c).streak = 0
                 /\ AfterCrash(c).previous = NoPrinter
                 /\ c.previous # NoPrinter
                 /\ ~AfterCrash(c).hold
              \/ /\ c.streak = Threshold - 1
                 /\ AfterCrash(c).streak = 0
                 /\ AfterCrash(c).previous = NoPrinter
                 /\ AfterCrash(c).hold
<1> USE GuardAssumption DEF Configs
<1>1. CASE c.streak + 1 < Threshold
  <2>1. AfterCrash(c) = [c EXCEPT !.streak = @ + 1]
    BY <1>1 DEF AfterCrash
  <2>2. c.streak + 1 \in 0..(Threshold - 1)
    BY <1>1
  <2> QED
    BY <2>1, <2>2
<1>2. CASE ~(c.streak + 1 < Threshold) /\ CanFallBack(c)
  <2>1. AfterCrash(c) = [c EXCEPT !.streak = 0, !.previous = NoPrinter, !.hold = FALSE,
                                  !.active = c.previous]
    BY <1>2 DEF AfterCrash
  <2>2. c.previous \in Printers /\ c.previous # NoPrinter
    BY <1>2 DEF CanFallBack
  <2>3. 0 \in 0..(Threshold - 1) /\ c.streak = Threshold - 1
    BY <1>2
  <2>4. AfterCrash(c) \in Configs
    BY <2>1, <2>2, <2>3
  <2> QED
    BY <2>1, <2>2, <2>3, <2>4
<1>3. CASE ~(c.streak + 1 < Threshold) /\ ~CanFallBack(c)
  <2>1. AfterCrash(c) = [c EXCEPT !.streak = 0, !.previous = NoPrinter, !.hold = TRUE]
    BY <1>3 DEF AfterCrash
  <2>2. 0 \in 0..(Threshold - 1) /\ c.streak = Threshold - 1
    BY <1>3
  <2>3. AfterCrash(c) \in Configs
    BY <2>1, <2>2
  <2> QED
    BY <2>1, <2>2, <2>3
<1> QED
  BY <1>1, <1>2, <1>3

(* A pick clears the hold and leaves the number of restarts alone.         *)
LEMMA PickedFacts ==
    ASSUME TypeOK, NEW p \in Printers
    PROVE  /\ Picked(p) \in Configs
           /\ ~Picked(p).hold
           /\ Picked(p).restarts = config.restarts
<1> DEFINE c == [config EXCEPT !.active = p]
<1>1. c \in Configs /\ c.restarts = config.restarts
  BY DEF TypeOK, Configs
<1>2. 0 \in 0..(Threshold - 1) /\ connected \in Printers
  BY GuardAssumption DEF TypeOK
<1> HIDE DEF c
<1>3. CASE connected = p
  <2>1. RecordSwitchAway(c, connected, p) = [c EXCEPT !.hold = FALSE]
    BY <1>3 DEF RecordSwitchAway
  <2> QED
    BY <1>1, <2>1 DEF Configs, Picked, c
<1>4. CASE connected # p
  <2>1. RecordSwitchAway(c, connected, p) = [c EXCEPT !.hold = FALSE, !.previous = connected,
                                                      !.streak = 0]
    BY <1>4 DEF RecordSwitchAway
  <2> QED
    BY <1>1, <1>2, <2>1 DEF Configs, Picked, c
<1> QED
  BY <1>3, <1>4

(* A save leaves each copy with the new contents or the file with its old  *)
(* ones at the price of one failure.                                       *)
LEMMA SavedOrNotFacts ==
    ASSUME TypeOK, NEW c \in Configs, SavedOrNot(c)
    PROVE  /\ config' = c
           /\ failures' \in 0..MaxFailures
           /\ \/ disk' = c /\ failures' = failures
              \/ disk' = disk /\ failures' = failures + 1
  BY GuardAssumption DEF TypeOK, SavedOrNot, Saved

(* Every boot keeps the books: it counts the crash the panel comes from.   *)
LEMMA BootStep == IInv /\ Boot => IInv'
<1> SUFFICES ASSUME IInv, Boot PROVE IInv'
  OBVIOUS
<1> USE GuardAssumption
<1>1. disk \in Configs /\ config \in Configs
  BY DEF IInv, TypeOK
<1>2. CASE reset = "crash" /\ SavedOrNot(AfterCrash(disk))
  <2> DEFINE c == AfterCrash(disk)
  <2>1. c \in Configs
    BY <1>1, AfterCrashFacts
  <2>2. /\ config' = c
        /\ failures' \in 0..MaxFailures
        /\ \/ disk' = c /\ failures' = failures
           \/ disk' = disk /\ failures' = failures + 1
    BY <1>2, <2>1, SavedOrNotFacts DEF IInv
  <2>3. TypeOK'
    BY <1>1, <2>1, <2>2 DEF IInv, TypeOK, Boot, Configs
  <2>4. /\ Pending' = 0 /\ Pending \in {0, 1} /\ strikes' = strikes /\ loops' = loops
        /\ uncounted' = uncounted
    BY DEF Boot, Pending
  <2>5. strikes \in Nat /\ loops \in Nat /\ failures \in Nat /\ uncounted \in Nat
    BY DEF IInv, TypeOK
  <2>6. /\ disk.streak \in Nat /\ disk.restarts \in Nat /\ disk.hold \in BOOLEAN
        /\ disk.streak < Threshold
    BY <1>1 DEF Configs
  <2>7. c.hold => c.previous = NoPrinter
    BY <1>1, AfterCrashFacts DEF IInv, Accounts
  <2>8. c.hold => strikes <= 2 * Threshold + failures + uncounted
    BY <1>1, <2>4, <2>5, <2>6, AfterCrashFacts DEF IInv, Accounts
  <2>9. ~c.hold /\ c.previous # NoPrinter => strikes <= c.streak + failures + uncounted
    BY <1>1, <2>4, <2>5, <2>6, AfterCrashFacts DEF IInv, Accounts
  <2>10. ~c.hold /\ c.previous = NoPrinter => strikes <= c.streak + Threshold + failures + uncounted
    BY <1>1, <2>4, <2>5, <2>6, AfterCrashFacts DEF IInv, Accounts
  <2>11. loops <= c.restarts + failures
    BY <1>1, AfterCrashFacts DEF IInv, Accounts
  <2>12. c.streak \in Nat /\ c.restarts \in Nat /\ c.hold \in BOOLEAN
    BY <2>1 DEF Configs
  <2> HIDE DEF c
  <2>13. Accounts(config)'
    <3>1. CASE failures' = failures
      BY <2>2, <2>4, <2>5, <2>7, <2>8, <2>9, <2>10, <2>11, <2>12, <3>1 DEF Accounts
    <3>2. CASE failures' = failures + 1
      BY <2>2, <2>4, <2>5, <2>7, <2>8, <2>9, <2>10, <2>11, <2>12, <3>2 DEF Accounts
    <3> QED
      BY <2>2, <3>1, <3>2
  <2>14. Accounts(disk)'
    <3>1. CASE disk' = c /\ failures' = failures
      BY <2>4, <2>5, <2>7, <2>8, <2>9, <2>10, <2>11, <2>12, <3>1 DEF Accounts
    <3>2. CASE disk' = disk /\ failures' = failures + 1
      BY <2>4, <2>5, <2>6, <3>2 DEF IInv, Accounts
    <3> QED
      BY <2>2, <3>1, <3>2
  <2>15. connects' => ~config'.hold /\ ~disk'.hold
    <3>1. disk.hold => c.hold
      BY <1>1, AfterCrashFacts DEF IInv, Accounts, c
    <3> QED
      BY <2>2, <3>1 DEF Boot
  <2> QED
    BY <2>3, <2>13, <2>14, <2>15 DEF IInv
<1>3. CASE reset = "restart" /\ config' = disk /\ UNCHANGED <<disk, failures>>
  <2>1. TypeOK'
    BY <1>1, <1>3 DEF IInv, TypeOK, Boot, Configs
  <2>2. Pending' = 0 /\ Pending = 0 /\ UNCHANGED <<strikes, uncounted, loops>>
    BY <1>3 DEF Boot, Pending
  <2>3. Accounts(config)' /\ Accounts(disk)'
    BY <1>3, <2>2 DEF IInv, Accounts
  <2> QED
    BY <1>3, <2>1, <2>3 DEF IInv, Boot
<1> QED
  BY <1>2, <1>3 DEF Boot

(* A crash of a panel that connects is a strike the file has yet to count; *)
(* a reset in a boot that had one to count leaves that one uncounted.      *)
LEMMA ResetStep == IInv /\ (Crash \/ PowerCycle) => IInv'
<1> SUFFICES ASSUME IInv, Crash \/ PowerCycle PROVE IInv'
  OBVIOUS
<1> USE GuardAssumption DEF store, panel
<1>1. /\ strikes \in Nat /\ failures \in Nat /\ uncounted \in Nat /\ Pending \in {0, 1}
      /\ config.streak \in Nat /\ disk.streak \in Nat
  BY DEF IInv, TypeOK, Configs, Pending
<1>2. /\ config' = config /\ disk' = disk /\ failures' = failures /\ loops' = loops
      /\ connects' = connects
      /\ uncounted' = uncounted + Pending /\ uncounted' <= MaxUncounted
  BY DEF Crash, PowerCycle, Replaced
<1>3. TypeOK'
  <2>1. uncounted' \in 0..MaxUncounted
    BY <1>1, <1>2
  <2>2. strikes' \in Nat /\ reset' \in {"none", "restart", "crash"}
    BY <1>1 DEF Crash, PowerCycle
  <2>3. UNCHANGED panel
    BY DEF Crash, PowerCycle
  <2> QED
    BY <1>2, <2>1, <2>2, <2>3 DEF IInv, TypeOK
<1>4. CASE Crash /\ connects
  <2>1. strikes' = strikes + 1 /\ Pending' = 1
    BY <1>4 DEF Crash, Pending
  <2>2. ~config.hold /\ ~disk.hold
    BY <1>4 DEF IInv
  <2>3. Accounts(config)' /\ Accounts(disk)'
    BY <1>1, <1>2, <2>1, <2>2 DEF IInv, Accounts
  <2> QED
    BY <1>2, <1>3, <2>3 DEF IInv
<1>5. CASE PowerCycle \/ ~connects
  <2>1. strikes' = strikes /\ Pending' = 0
    BY <1>2, <1>5 DEF Crash, PowerCycle, Pending
  <2>2. Accounts(config)' /\ Accounts(disk)'
    BY <1>1, <1>2, <2>1 DEF IInv, Accounts
  <2> QED
    BY <1>2, <1>3, <2>2 DEF IInv
<1> QED
  BY <1>4, <1>5

(* A save of a config that keeps the guard's fields keeps the books, also  *)
(* when it fails.                                                          *)
LEMMA SaveStep ==
    ASSUME IInv, Running, NEW c \in Configs, SavedOrNot(c),
           c.hold = config.hold, c.previous = config.previous, c.streak = config.streak,
           c.restarts = config.restarts, UNCHANGED <<reset, blame, loops>>
    PROVE  Accounts(config)' /\ Accounts(disk)' /\ (connects' => ~config'.hold /\ ~disk'.hold)
<1> USE GuardAssumption
<1>1. /\ config' = c
      /\ failures' \in 0..MaxFailures
      /\ \/ disk' = c /\ failures' = failures
         \/ disk' = disk /\ failures' = failures + 1
  BY SavedOrNotFacts DEF IInv
<1>2. /\ Pending = 0 /\ Pending' = 0
      /\ UNCHANGED <<reset, connects, strikes, uncounted, loops>>
  BY DEF Pending, Running, blame
<1>3. /\ strikes \in Nat /\ loops \in Nat /\ failures \in Nat /\ uncounted \in Nat
      /\ config.streak \in Nat /\ disk.streak \in Nat
      /\ config.restarts \in Nat /\ disk.restarts \in Nat
  BY DEF IInv, TypeOK, Configs
<1>4. CASE disk' = c /\ failures' = failures
  BY <1>1, <1>2, <1>3, <1>4 DEF IInv, Accounts
<1>5. CASE disk' = disk /\ failures' = failures + 1
  BY <1>1, <1>2, <1>3, <1>5 DEF IInv, Accounts
<1> QED
  BY <1>1, <1>4, <1>5

(* A fallback restart is counted by the copy in memory at once and by the  *)
(* file unless the save fails.                                             *)
LEMMA FallbackStep ==
    ASSUME IInv, Running, FallbackRestart(config), UNCHANGED <<panel, blame>>
    PROVE  IInv'
<1> DEFINE c == [config EXCEPT !.restarts = @ + 1]
<1> USE GuardAssumption
<1>1. c \in Configs /\ c.restarts = config.restarts + 1
  BY DEF IInv, TypeOK, Configs, FallbackRestart
<1>2. c.hold = config.hold /\ c.previous = config.previous /\ c.streak = config.streak
  BY DEF IInv, TypeOK, Configs
<1>3. SavedOrNot(c) /\ reset' = "restart" /\ loops' = loops + 1
  BY DEF FallbackRestart
<1> HIDE DEF c
<1>4. /\ config' = c
      /\ failures' \in 0..MaxFailures
      /\ \/ disk' = c /\ failures' = failures
         \/ disk' = disk /\ failures' = failures + 1
  BY <1>1, <1>3, SavedOrNotFacts DEF IInv
<1>5. TypeOK'
  BY <1>1, <1>3, <1>4 DEF IInv, TypeOK, panel, blame
<1>6. Pending = 0 /\ Pending' = 0
  BY <1>3 DEF Pending, Running
<1>7. /\ strikes \in Nat /\ loops \in Nat /\ failures \in Nat /\ uncounted \in Nat
      /\ UNCHANGED <<connects, strikes, uncounted>>
      /\ config.streak \in Nat /\ disk.streak \in Nat
      /\ config.restarts \in Nat /\ disk.restarts \in Nat
  BY DEF IInv, TypeOK, Configs, blame
<1>8. CASE disk' = c /\ failures' = failures
  BY <1>1, <1>2, <1>3, <1>4, <1>5, <1>6, <1>7, <1>8 DEF IInv, Accounts
<1>9. CASE disk' = disk /\ failures' = failures + 1
  BY <1>1, <1>2, <1>3, <1>4, <1>5, <1>6, <1>7, <1>9 DEF IInv, Accounts
<1> QED
  BY <1>4, <1>8, <1>9

(* A pick starts the count of strikes again; one that restarts the panel   *)
(* is counted as a restart.                                                *)
LEMMA PickStep ==
    ASSUME IInv, NEW p \in Printers, Pick(p) \/ PickRestarts(p) \/ PickStaysUp(p)
    PROVE  IInv'
<1> DEFINE c == Picked(p)
           d == [c EXCEPT !.restarts = @ + 1]
<1> USE GuardAssumption
<1>1. c \in Configs /\ ~c.hold /\ c.restarts = config.restarts
  BY PickedFacts DEF IInv
<1>2. strikes' = 0 /\ uncounted' = 0 /\ reset' # "crash" /\ connects'
  BY DEF Pick, PickRestarts, PickStaysUp, CanPick, Running
<1>3. Pending' = 0
  BY <1>2 DEF Pending
<1>4. /\ loops \in Nat /\ failures \in Nat
      /\ c.streak \in Nat /\ c.restarts \in Nat
  BY <1>1 DEF IInv, TypeOK, Configs
<1>5. CASE Pick(p) \/ PickStaysUp(p)
  <2>1. config' = c /\ disk' = c /\ failures' = failures /\ loops' = loops
    BY <1>5 DEF Pick, PickStaysUp, Saved
  <2>2. TypeOK'
    <3>1. /\ connected' \in Printers /\ link' \in {"off", "connecting", "up"}
          /\ switching' \in BOOLEAN /\ watchdog' \in BOOLEAN
          /\ healthy' = healthy /\ reset' = reset
      BY <1>5 DEF Pick, PickStaysUp
    <3> HIDE DEF c
    <3> QED
      BY <1>1, <1>2, <2>1, <3>1 DEF IInv, TypeOK
  <2>3. loops <= c.restarts + failures
    BY <1>1 DEF IInv, Accounts
  <2> HIDE DEF c
  <2> QED
    BY <1>1, <1>2, <1>3, <1>4, <2>1, <2>2, <2>3 DEF IInv, Accounts
<1>6. CASE PickRestarts(p)
  <2>1. /\ config' = d /\ loops' = loops + 1
        /\ \/ disk' = d /\ failures' = failures
           \/ disk' = c /\ failures' = failures + 1 /\ failures < MaxFailures
    BY <1>6 DEF PickRestarts
  <2>2. c.restarts < MaxRestarts
    BY <1>6 DEF PickRestarts
  <2>3. loops <= c.restarts + failures
    BY <1>1 DEF IInv, Accounts
  <2> HIDE DEF c
  <2>4. /\ d \in Configs /\ ~d.hold /\ d.restarts = c.restarts + 1 /\ d.streak = c.streak
        /\ d.previous = c.previous
    BY <1>1, <2>2 DEF Configs
  <2>5. d.streak \in Nat /\ d.restarts \in Nat
    BY <1>4, <2>4
  <2> HIDE DEF d
  <2>6. TypeOK'
    BY <1>1, <1>6, <2>1, <2>4 DEF IInv, TypeOK, PickRestarts, panel
  <2>7. CASE disk' = d /\ failures' = failures
    BY <1>2, <1>3, <1>4, <2>1, <2>3, <2>4, <2>5, <2>6, <2>7 DEF IInv, Accounts
  <2>8. CASE disk' = c /\ failures' = failures + 1
    BY <1>1, <1>2, <1>3, <1>4, <2>1, <2>3, <2>4, <2>5, <2>6, <2>8 DEF IInv, Accounts
  <2> QED
    BY <2>1, <2>7, <2>8
<1> QED
  BY <1>5, <1>6

(* A healthy session closes the books.                                     *)
LEMMA HealthyStep == IInv /\ HealthySession => IInv'
<1> SUFFICES ASSUME IInv, HealthySession PROVE IInv'
  OBVIOUS
<1> DEFINE c == [config EXCEPT !.streak = 0, !.restarts = 0, !.hold = FALSE]
<1> USE GuardAssumption
<1>1. c \in Configs /\ ~c.hold
  <2>1. 0 \in 0..(Threshold - 1) /\ 0 \in 0..MaxRestarts
    OBVIOUS
  <2> QED
    BY <2>1 DEF IInv, TypeOK, Configs
<1>2. /\ strikes' = 0 /\ uncounted' = 0 /\ loops' = 0 /\ reset' = reset /\ connects' = connects
      /\ reset = "none"
  BY DEF HealthySession, Running
<1>3. \/ config' = config /\ disk' = disk /\ failures' = failures
      \/ SavedOrNot(c)
  BY DEF HealthySession, store
<1> HIDE DEF c
<1>4. /\ config' \in Configs /\ disk' \in Configs /\ failures' \in 0..MaxFailures
      /\ config' = config \/ config' = c
      /\ disk' = disk \/ disk' = c
  <2>1. CASE SavedOrNot(c)
    BY <1>1, <2>1, SavedOrNotFacts DEF IInv, TypeOK
  <2>2. CASE config' = config /\ disk' = disk /\ failures' = failures
    BY <2>2 DEF IInv, TypeOK
  <2> QED
    BY <1>3, <2>1, <2>2
<1>5. TypeOK'
  BY <1>2, <1>4 DEF IInv, TypeOK, HealthySession
<1>6. Pending' = 0
  BY <1>2 DEF Pending
<1>7. /\ config'.streak \in Nat /\ config'.restarts \in Nat
      /\ disk'.streak \in Nat /\ disk'.restarts \in Nat /\ failures' \in Nat
  BY <1>4 DEF Configs
<1>8. /\ config'.hold => config'.previous = NoPrinter
      /\ disk'.hold => disk'.previous = NoPrinter
      /\ connects => ~config'.hold /\ ~disk'.hold
  BY <1>1, <1>4 DEF IInv, Accounts
<1> QED
  BY <1>2, <1>5, <1>6, <1>7, <1>8 DEF IInv, Accounts

(* The list of printers is not what the guard counts.                      *)
LEMMA ListStep ==
    ASSUME IInv, NEW p \in Printers, AddPrinter(p) \/ RemovePrinter(p)
    PROVE  IInv'
<1> USE GuardAssumption
<1>1. PICK c \in Configs :
          /\ SavedOrNot(c)
          /\ c.hold = config.hold /\ c.previous = config.previous
          /\ c.streak = config.streak /\ c.restarts = config.restarts
  <2>1. CASE AddPrinter(p)
    BY <2>1 DEF IInv, TypeOK, Configs, AddPrinter
  <2>2. CASE RemovePrinter(p)
    <3>1. PICK q \in Printers :
              SavedOrNot([config EXCEPT !.printers = @ \ {p}, !.active = q])
      BY <2>2 DEF IInv, TypeOK, Configs, RemovePrinter
    <3> DEFINE d == [config EXCEPT !.printers = @ \ {p}, !.active = q]
    <3>2. /\ d \in Configs
          /\ d.hold = config.hold /\ d.previous = config.previous
          /\ d.streak = config.streak /\ d.restarts = config.restarts
      BY DEF IInv, TypeOK, Configs
    <3>3. SavedOrNot(d)
      BY <3>1
    <3> HIDE DEF d
    <3> QED
      BY <3>2, <3>3
  <2> QED
    BY <2>1, <2>2
<1>2. Running /\ UNCHANGED <<panel, reset, blame, loops>>
  BY DEF AddPrinter, RemovePrinter
<1>3. Accounts(config)' /\ Accounts(disk)' /\ (connects' => ~config'.hold /\ ~disk'.hold)
  BY <1>1, <1>2, SaveStep
<1>4. /\ config' = c /\ failures' \in 0..MaxFailures
      /\ disk' = c \/ disk' = disk
  BY <1>1, SavedOrNotFacts DEF IInv
<1>5. TypeOK'
  BY <1>2, <1>4 DEF IInv, TypeOK, panel, blame
<1> QED
  BY <1>3, <1>5 DEF IInv

(* What touches neither the store nor the counts keeps the invariant.      *)
LEMMA QuietStep ==
    ASSUME IInv, TypeOK', UNCHANGED <<store, reset, blame, loops>>
    PROVE  IInv'
  BY DEF IInv, Accounts, Pending, store, blame

(* The panel starts with both copies equal and nothing to account for.     *)
LEMMA InitKeeps == Init => IInv
<1> SUFFICES ASSUME Init PROVE IInv
  OBVIOUS
<1>1. PICK S \in SUBSET Printers : \E p \in S :
          config = [printers |-> S, active |-> p, hold |-> FALSE, previous |-> NoPrinter,
                    streak |-> 0, restarts |-> 0]
  BY DEF Init
<1>2. /\ 0 \in 0..(Threshold - 1) /\ 0 \in 0..MaxRestarts
      /\ 0 \in 0..MaxFailures /\ 0 \in 0..MaxUncounted
  BY GuardAssumption
<1>3. config \in Configs /\ disk = config
  BY <1>1, <1>2 DEF Init, Configs
<1>4. TypeOK
  <2>1. connected \in Printers
    BY <1>3 DEF Init, Configs
  <2> QED
    BY <1>2, <1>3, <2>1 DEF Init, TypeOK
<1>5. Pending = 0
  BY DEF Init, Pending
<1>6. /\ ~config.hold /\ config.streak = 0 /\ config.restarts = 0
  BY <1>1
<1> QED
  BY <1>3, <1>4, <1>5, <1>6, GuardAssumption DEF Init, IInv, Accounts

(* Both copies of the config keep the books in every reachable state: the  *)
(* strikes and restarts of the panel are covered by what they have         *)
(* recorded, by the saves that failed, by the crashes that another reset   *)
(* replaced, and by the one a boot in progress has still to count.         *)
THEOREM Invariance == Spec => []IInv
<1>1. IInv /\ [Next]_vars => IInv'
  <2> SUFFICES ASSUME IInv, [Next]_vars PROVE IInv'
    OBVIOUS
  <2>1. CASE Boot \/ Crash \/ PowerCycle
    BY <2>1, BootStep, ResetStep
  <2>2. CASE \E p \in Printers : Pick(p) \/ PickRestarts(p) \/ PickStaysUp(p)
    BY <2>2, PickStep
  <2>3. CASE Watchdog
    <3>1. CASE Running /\ FallbackRestart(config) /\ UNCHANGED <<panel, blame>>
      BY <3>1, FallbackStep
    <3>2. CASE /\ watchdog' = FALSE
               /\ UNCHANGED <<store, connected, link, switching, healthy, reset, blame,
                              loops>>
      <4>1. TypeOK'
        BY <3>2 DEF IInv, TypeOK, store, blame
      <4> QED
        BY <3>2, <4>1, QuietStep
    <3> QED
      BY <2>3, <3>1, <3>2 DEF Watchdog
  <2>4. CASE TransportStall
    BY <2>4, FallbackStep DEF TransportStall
  <2>5. CASE LinkChanges
    <3>1. TypeOK'
      BY <2>5 DEF IInv, TypeOK, LinkChanges, store, blame
    <3> QED
      BY <2>5, <3>1, QuietStep DEF LinkChanges
  <2>6. CASE HealthySession
    BY <2>6, HealthyStep
  <2>7. CASE \E p \in Printers : AddPrinter(p) \/ RemovePrinter(p)
    BY <2>7, ListStep
  <2>8. CASE UNCHANGED vars
    <3>1. TypeOK'
      BY <2>8 DEF IInv, TypeOK, vars, store, panel, blame
    <3> QED
      BY <2>8, <3>1, QuietStep DEF vars
  <2> QED
    BY <2>1, <2>2, <2>3, <2>4, <2>5, <2>6, <2>7, <2>8 DEF Next
<1> QED
  BY <1>1, InitKeeps, PTL DEF Spec

(* Every variable of the panel keeps its type: the saved streaks stay      *)
(* below the threshold and the cap.                                        *)
THEOREM TypeCorrect == Spec => []TypeOK
<1>1. IInv => TypeOK
  BY DEF IInv
<1> QED
  BY <1>1, Invariance, PTL

(* A panel that crashes whenever it connects stops connecting by itself,   *)
(* however picks, falls back, failed saves and resets interleave, resets   *)
(* before the guard has counted the last crash included.                   *)
THEOREM CrashLoopsEnd == Spec => []CrashLoopEnds
<1>1. IInv => CrashLoopEnds
  <2> SUFFICES ASSUME IInv PROVE CrashLoopEnds
    OBVIOUS
  <2>1. /\ strikes \in Nat /\ failures \in Nat /\ uncounted \in Nat /\ disk.streak \in 0..(Threshold - 1)
        /\ Pending \in {0, 1} /\ Threshold \in Nat
    BY GuardAssumption DEF IInv, TypeOK, Configs, Pending
  <2> QED
    BY <2>1 DEF IInv, Accounts, CrashLoopEnds
<1> QED
  BY <1>1, Invariance, PTL

(* Between two healthy sessions the panel restarts itself at most          *)
(* MaxRestarts times, and once more for every save that failed.            *)
THEOREM RestartLoopsEnd == Spec => []RestartsEnd
<1>1. IInv => RestartsEnd
  <2> SUFFICES ASSUME IInv PROVE RestartsEnd
    OBVIOUS
  <2>1. loops \in Nat /\ failures \in Nat /\ disk.restarts \in 0..MaxRestarts
    BY DEF IInv, TypeOK, Configs
  <2> QED
    BY <2>1, GuardAssumption DEF IInv, Accounts, RestartsEnd
<1> QED
  BY <1>1, Invariance, PTL

(* No boot ends a hold: a held panel has no printer left to fall back to,  *)
(* so not even another full run of crashes connects it again.              *)
THEOREM HoldIsKept == Spec => HoldSurvivesBoots
<1> DEFINE Kept == reset # "none" /\ Running' /\ disk.hold => ~connects' /\ disk'.hold
<1>1. IInv /\ [Next]_vars => [Kept]_vars
  <2> SUFFICES ASSUME IInv, Next, reset # "none", Running', disk.hold
               PROVE  ~connects' /\ disk'.hold
    BY DEF Running
  <2>1. Boot
    BY DEF Next, Crash, PowerCycle, Pick, PickRestarts, PickStaysUp, CanPick, Watchdog,
           TransportStall, LinkChanges, HealthySession, AddPrinter, RemovePrinter, Running
  <2>2. disk \in Configs /\ disk.previous = NoPrinter
    BY DEF IInv, TypeOK, Accounts
  <2>3. AfterCrash(disk).hold /\ AfterCrash(disk) \in Configs
    BY <2>2, AfterCrashFacts
  <2>4. CASE SavedOrNot(AfterCrash(disk))
    <3>1. config' = AfterCrash(disk) /\ (disk' = disk \/ disk' = AfterCrash(disk))
      BY <2>3, <2>4, SavedOrNotFacts DEF IInv
    <3> QED
      BY <2>1, <2>3, <3>1 DEF Boot
  <2>5. CASE config' = disk /\ UNCHANGED <<disk, failures>>
    BY <2>1, <2>5 DEF Boot
  <2> QED
    BY <2>1, <2>4, <2>5 DEF Boot
<1> QED
  BY <1>1, Invariance, PTL DEF Spec, HoldSurvivesBoots
=============================================================================
