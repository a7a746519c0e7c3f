----------------------------- MODULE KlippyState -----------------------------
(***************************************************************************)
(* How the screen learns what Klipper is doing, and keeps older news from   *)
(* replacing newer.  Klipper's state reaches PrinterNetworkState along five  *)
(* roads: webhooks frames of the subscription (the notification queue),      *)
(* notify_klippy_* (the update queue), the printer.info seed of discovery    *)
(* (the update queue), discovery's subscription snapshot (the update queue,  *)
(* then the notification queue) and the printer.info poll that runs after    *)
(* notify_klippy_disconnected (the update queue).  The two queues are not     *)
(* ordered against each other.                                               *)
(*                                                                           *)
(* Threads: the WebSocket event loop (the On... actions, HealthTick, Open,   *)
(* Close) and the main thread (Apply..., Commit, Run...).  Klipper and        *)
(* Moonraker are external; they are what the client code assumes of them.    *)
(***************************************************************************)
EXTENDS Naturals, Sequences

CONSTANTS
    FirstReports,  \* the states Klipper may be in when the screen starts
    MaxChanges,    \* Klipper changes state at most so often
    MaxCloses      \* the socket closes at most so often

ASSUME BoundsAssumption ==
    /\ FirstReports \subseteq {"ready", "startup", "shutdown", "error", "disconnected"}
    /\ MaxChanges \in Nat /\ MaxCloses \in Nat

VARIABLES
    klippy,      \* external: what Moonraker would answer now
    now,         \* external: Klipper's eventtime, reset when its host reboots
    changes,     \* state changes so far
    link,        \* the WebSocket is open
    closes,      \* closes so far
    subscribed,  \* external: this socket receives status frames
    asked,       \* requests Moonraker has not answered
    wire,        \* what the socket has still to deliver, in order
    seq,         \* discovery_sequence_
    completed,   \* discovery_completed_
    poll,        \* klippy_state_poll_: [on, generation, in_flight]
    notes,       \* m_notification_queue: stamped status frames
    updates,     \* the update queue's klippy items, in order
    applying,    \* the frame apply_webhooks() is in the middle of, or Nothing
    shown,       \* the klippy_state subject
    watermark,   \* klippy_state_eventtime_
    live,        \* klippy_state_from_live_
    epoch        \* klippy_epoch_

moonraker == <<klippy, now, changes, subscribed>>
socket == <<link, closes>>
client == <<seq, completed, poll>>
guard == <<watermark, live, epoch>>
screen == <<notes, updates, applying, shown>>
vars == <<moonraker, socket, asked, wire, client, guard, screen>>

KlippyStates == {"ready", "startup", "shutdown", "error"}
Reports == KlippyStates \cup {"disconnected"}
Unanswered == "unanswered"
Nothing == [state |-> "none"]
Requests == {"gate", "info", "subscribe", "poll"}

Polls == [on : BOOLEAN, generation : Nat, in_flight : BOOLEAN]
Questions == [kind : Requests, state : Reports \cup {Unanswered}, tag : Nat]
Messages == [kind : Requests \cup {"frame", "notify", "unmatched"}, state : Reports, tag : Nat]
Notes == [state : KlippyStates, time : Nat, cached : BOOLEAN, epoch : Nat, polled : BOOLEAN]
Updates == [kind : {"set", "seed", "discovered", "poll"}, state : KlippyStates, epoch : Nat]

Init ==
    /\ klippy \in FirstReports /\ now = 1 /\ changes = 0 /\ subscribed = FALSE
    /\ link = FALSE /\ closes = 0
    /\ asked = {} /\ wire = << >>
    /\ seq = 0 /\ completed = FALSE
    /\ poll = [on |-> FALSE, generation |-> 0, in_flight |-> FALSE]
    /\ notes = << >> /\ updates = << >> /\ applying = Nothing
    /\ shown = "shutdown"
    /\ watermark = 0 /\ live = FALSE /\ epoch = 0

---------------------------------------------------------------------------
(* Klipper and Moonraker (external)                                          *)

Frame == [kind |-> "frame", state |-> "shutdown", tag |-> now + 1]
Notify(s) == [kind |-> "notify", state |-> s, tag |-> 0]

(* What an open socket is sent.                                              *)
Announce(ms) == wire' = IF link THEN wire \o ms ELSE wire

Change(s) ==
    /\ changes < MaxChanges
    /\ changes' = changes + 1
    /\ klippy' = s

(* An emergency stop or a fault: the subscription's frame and the            *)
(* notification race each other inside Moonraker.                            *)
KlipperShutsDown ==
    /\ klippy = "ready"
    /\ Change("shutdown")
    /\ now' = now + 1
    /\ IF subscribed
       THEN \/ Announce(<<Frame, Notify("shutdown")>>)
            \/ Announce(<<Notify("shutdown"), Frame>>)
       ELSE Announce(<<Notify("shutdown")>>)
    /\ UNCHANGED <<subscribed, socket, asked, client, guard, screen>>

(* Klipper exits or restarts; its subscriptions go with it.                  *)
KlipperGoes ==
    /\ klippy # "disconnected"
    /\ Change("disconnected")
    /\ subscribed' = FALSE
    /\ Announce(<<Notify("disconnected")>>)
    /\ UNCHANGED <<now, socket, asked, client, guard, screen>>

KlipperComesUp ==
    /\ klippy = "disconnected"
    /\ Change("startup")
    /\ UNCHANGED <<now, subscribed, socket, asked, wire, client, guard, screen>>

(* A Klipper start takes seconds, delivering a frame and a pass of the main  *)
(* loop milliseconds: no frame of the Klipper before it is still unread.     *)
EarlierFramesRead ==
    /\ \A i \in DOMAIN wire : wire[i].kind # "frame"
    /\ \A i \in DOMAIN notes : notes[i].cached
    /\ applying = Nothing

KlipperStarts ==
    /\ klippy = "startup"
    /\ EarlierFramesRead
    /\ Change("ready")
    /\ now' = now + 1
    /\ Announce(<<Notify("ready")>>)
    /\ UNCHANGED <<subscribed, socket, asked, client, guard, screen>>

(* Moonraker announces no failed start.                                      *)
KlipperFailsToStart ==
    /\ klippy = "startup"
    /\ Change("error")
    /\ now' = now + 1
    /\ UNCHANGED <<subscribed, socket, asked, wire, client, guard, screen>>

(* The printer's host restarts (or the next connection is to another         *)
(* printer) while the socket is down: eventtime begins again.                *)
HostReboots ==
    /\ ~link
    /\ Change("startup")
    /\ now' = 1
    /\ UNCHANGED <<subscribed, socket, asked, wire, client, guard, screen>>

(* server.info is Moonraker's own to answer.                                 *)
AnswerGate(r) ==
    /\ r.kind = "gate"
    /\ asked' = asked \ {r}
    /\ wire' = Append(wire, [r EXCEPT !.state = klippy])
    /\ UNCHANGED <<moonraker, socket, client, guard, screen>>

(* The rest is asked of Klipper ...                                          *)
Evaluate(r) ==
    /\ r.kind # "gate" /\ r.state = Unanswered
    /\ asked' = (asked \ {r}) \cup {[r EXCEPT !.state = klippy]}
    /\ subscribed' = (subscribed \/ (r.kind = "subscribe" /\ klippy \in {"ready", "shutdown"}))
    /\ UNCHANGED <<klippy, now, changes, socket, wire, client, guard, screen>>

(* ... and the answer passed on behind whatever was announced meanwhile.     *)
Reply(r) ==
    /\ r.state # Unanswered
    /\ asked' = asked \ {r}
    /\ wire' = Append(wire, r)
    /\ UNCHANGED <<moonraker, socket, client, guard, screen>>

---------------------------------------------------------------------------
(* The event loop                                                            *)

Ask(kind, tag) == [kind |-> kind, state |-> Unanswered, tag |-> tag]

(* MoonrakerDiscoverySequence::start(): server.info is the first question    *)
(* that Klipper's state answers.                                             *)
Discover(outstanding) ==
    /\ seq' = seq + 1
    /\ asked' = outstanding \cup {Ask("gate", seq + 1)}

(* start_klippy_state_poll() and stop_klippy_state_poll()                    *)
StartPoll == [on |-> TRUE, generation |-> poll.generation + 1, in_flight |-> FALSE]
StopPoll ==
    IF poll.on THEN [poll EXCEPT !.on = FALSE, !.generation = @ + 1] ELSE poll

Open ==
    /\ ~link
    /\ link' = TRUE
    /\ Discover(asked)
    /\ UNCHANGED <<moonraker, closes, wire, completed, poll, guard, screen>>

(* Mutant: a close leaves the guard as it is.                               *)
BugCloseKeepsGuard ==
    /\ link /\ closes < MaxCloses
    /\ link' = FALSE /\ closes' = closes + 1
    /\ subscribed' = FALSE /\ asked' = {} /\ wire' = << >>
    /\ poll' = [StopPoll EXCEPT !.in_flight = FALSE]
    /\ completed' = FALSE
    /\ epoch' = epoch + 1
    /\ UNCHANGED <<klippy, now, changes, seq, watermark, live, screen>>

(* The socket closes, with what it had not delivered; on_ws_close().         *)
Close ==
    /\ link /\ closes < MaxCloses
    /\ link' = FALSE /\ closes' = closes + 1
    /\ subscribed' = FALSE /\ asked' = {} /\ wire' = << >>
    /\ poll' = [StopPoll EXCEPT !.in_flight = FALSE]
    /\ completed' = FALSE
    /\ watermark' = 0 /\ live' = FALSE /\ epoch' = epoch + 1
    /\ UNCHANGED <<klippy, now, changes, seq, screen>>

Receive(kind) == wire # << >> /\ Head(wire).kind = kind

(* The notification callback: stamped with the session it arrived in.  The   *)
(* main thread holds m_notification_mutex while it works through the queue.  *)
OnFrame ==
    /\ Receive("frame")
    /\ applying # Nothing => applying.polled
    /\ wire' = Tail(wire)
    /\ notes' = Append(notes, [state |-> Head(wire).state, time |-> Head(wire).tag,
                               cached |-> FALSE, epoch |-> epoch, polled |-> FALSE])
    /\ UNCHANGED <<moonraker, socket, asked, client, guard, updates, applying, shown>>

Item(kind, state) == [kind |-> kind, state |-> state, epoch |-> epoch]
Queue(item) == updates' = Append(updates, item)

(* PrinterState::set_klippy_state(): live from here on, applied later.       *)
SetKlippyState(s) == live' = TRUE /\ Queue(Item("set", s))

OnKlippyReady ==
    /\ Receive("notify") /\ Head(wire).state = "ready"
    /\ poll' = StopPoll
    /\ SetKlippyState("ready")
    /\ Discover(asked)
    /\ wire' = Tail(wire)
    /\ UNCHANGED <<moonraker, socket, completed, watermark, epoch, notes, applying, shown>>

OnKlippyShutdown ==
    /\ Receive("notify") /\ Head(wire).state = "shutdown"
    /\ SetKlippyState("shutdown")
    /\ IF completed THEN UNCHANGED <<asked, seq>> ELSE Discover(asked)
    /\ wire' = Tail(wire)
    /\ UNCHANGED <<moonraker, socket, completed, poll, watermark, epoch, notes, applying, shown>>

(* tracker_.cleanup_all(): an answer already under way finds no request.     *)
Unmatched == [kind |-> "unmatched", state |-> "disconnected", tag |-> 0]
Abandoned(m) == IF m.kind \in Requests THEN Unmatched ELSE m

OnKlippyDisconnected ==
    /\ Receive("notify") /\ Head(wire).state = "disconnected"
    /\ SetKlippyState("shutdown")
    /\ asked' = {}
    /\ wire' = [i \in 1..(Len(wire) - 1) |-> Abandoned(wire[i + 1])]
    /\ poll' = StartPoll
    /\ UNCHANGED <<moonraker, socket, seq, completed, watermark, epoch, notes, applying, shown>>

OnUnmatched ==
    /\ Receive("unmatched")
    /\ wire' = Tail(wire)
    /\ UNCHANGED <<moonraker, socket, asked, client, guard, screen>>

(* continue_discovery(): only a ready or a shut-down Klipper is discovered.  *)
OnGate ==
    /\ Receive("gate")
    /\ wire' = Tail(wire)
    /\ asked' = IF Head(wire).tag = seq /\ Head(wire).state \in {"ready", "shutdown"}
                THEN asked \cup {Ask("info", seq)}
                ELSE asked
    /\ UNCHANGED <<moonraker, socket, client, guard, screen>>

SeedOf(report) == IF report = "disconnected" THEN "shutdown" ELSE report

(* printer.info of discovery: seeds the state, then subscribes.              *)
OnInfo ==
    /\ Receive("info")
    /\ wire' = Tail(wire)
    /\ IF Head(wire).tag = seq
       THEN /\ Queue(Item("seed", SeedOf(Head(wire).state)))
            /\ asked' = asked \cup {Ask("subscribe", seq)}
       ELSE UNCHANGED <<updates, asked>>
    /\ UNCHANGED <<moonraker, socket, client, guard, notes, applying, shown>>

(* finish_discovery_subscription(): a refused subscription completes         *)
(* discovery too, with no snapshot to dispatch.                              *)
OnSubscribed ==
    /\ Receive("subscribe")
    /\ wire' = Tail(wire)
    /\ IF Head(wire).tag = seq
       THEN /\ completed' = TRUE
            /\ IF Head(wire).state \in {"ready", "shutdown"}
               THEN Queue(Item("discovered", Head(wire).state))
               ELSE UNCHANGED updates
       ELSE UNCHANGED <<completed, updates>>
    /\ UNCHANGED <<moonraker, socket, asked, seq, poll, guard, notes, applying, shown>>

(* on_health_tick(): poll_klippy_state(), one request at a time ...          *)
HealthTick ==
    /\ link /\ poll.on /\ ~poll.in_flight
    /\ poll' = [poll EXCEPT !.in_flight = TRUE]
    /\ asked' = asked \cup {Ask("poll", poll.generation)}
    /\ UNCHANGED <<moonraker, socket, wire, seq, completed, guard, screen>>

(* ... for kKlippyStatePollMaxMs at most.                                    *)
PollGivesUp ==
    /\ link /\ poll.on
    /\ poll' = StopPoll
    /\ UNCHANGED <<moonraker, socket, asked, wire, seq, completed, guard, screen>>

(* A settled answer ends the poll that asked for it.                         *)
Settle == [on |-> FALSE, generation |-> poll.generation + 1, in_flight |-> FALSE]

(* Mutant: takes the answer of an abandoned poll.                           *)
BugOnPolledAnyGeneration ==
    /\ Receive("poll")
    /\ wire' = Tail(wire)
    /\ IF Head(wire).state \in {"ready", "shutdown", "error"}
       THEN poll' = Settle /\ Queue(Item("poll", Head(wire).state))
       ELSE poll' = [poll EXCEPT !.in_flight = FALSE] /\ UNCHANGED updates
    /\ UNCHANGED <<moonraker, socket, asked, seq, completed, guard, notes, applying, shown>>

(* Mutant: takes a state that parse_klippy_state() does not know.           *)
BugOnPolledRaw ==
    /\ Receive("poll")
    /\ wire' = Tail(wire)
    /\ IF Head(wire).tag = poll.generation
       THEN poll' = Settle /\ Queue(Item("poll", Head(wire).state))
       ELSE poll' = [poll EXCEPT !.in_flight = FALSE] /\ UNCHANGED updates
    /\ UNCHANGED <<moonraker, socket, asked, seq, completed, guard, notes, applying, shown>>

OnPolled ==
    /\ Receive("poll")
    /\ wire' = Tail(wire)
    /\ IF /\ Head(wire).state \in {"ready", "shutdown", "error"}
          /\ Head(wire).tag = poll.generation
       THEN poll' = Settle /\ Queue(Item("poll", Head(wire).state))
       ELSE poll' = [poll EXCEPT !.in_flight = FALSE] /\ UNCHANGED updates
    /\ UNCHANGED <<moonraker, socket, asked, seq, completed, guard, notes, applying, shown>>

---------------------------------------------------------------------------
(* The main thread                                                           *)

Stale(note) ==
    \/ note.cached /\ live
    \/ note.time > 0 /\ note.time < watermark

(* process_notifications(): apply_webhooks() decides with the guard it       *)
(* reads first ...                                                           *)
TakeNote ==
    /\ applying = Nothing /\ notes # << >>
    /\ notes' = Tail(notes)
    /\ applying' = IF Stale(Head(notes)) THEN Nothing ELSE Head(notes)
    /\ UNCHANGED <<moonraker, socket, asked, wire, client, guard, updates, shown>>

(* Mutant: moves the guard for a frame of any session.                       *)
BugCommitAnySession ==
    /\ applying # Nothing
    /\ applying' = Nothing
    /\ shown' = applying.state
    /\ watermark' = IF applying.time > 0 THEN applying.time ELSE watermark
    /\ live' = (live \/ ~applying.cached)
    /\ UNCHANGED <<moonraker, socket, asked, wire, client, epoch, notes, updates>>

(* ... and moves it, under its lock, only for a frame of this session.       *)
Commit ==
    /\ applying # Nothing
    /\ applying' = Nothing
    /\ shown' = applying.state
    /\ IF applying.epoch = epoch
       THEN /\ watermark' = IF applying.time > 0 THEN applying.time ELSE watermark
            /\ live' = (live \/ ~applying.cached)
       ELSE UNCHANGED <<watermark, live>>
    /\ UNCHANGED <<moonraker, socket, asked, wire, client, epoch, notes, updates>>

NextUpdate(kind) ==
    /\ applying = Nothing
    /\ updates # << >> /\ Head(updates).kind = kind
    /\ updates' = Tail(updates)

RunSet ==
    /\ NextUpdate("set")
    /\ shown' = Head(updates).state
    /\ UNCHANGED <<moonraker, socket, asked, wire, client, guard, notes, applying>>

(* set_klippy_state_if_unseeded_internal()                                   *)
RunSeed ==
    /\ NextUpdate("seed")
    /\ shown' = IF live THEN shown ELSE Head(updates).state
    /\ UNCHANGED <<moonraker, socket, asked, wire, client, guard, notes, applying>>

(* status_dispatch_step(): the snapshot is stamped with the session it is    *)
(* dispatched in, and carries no eventtime.                                  *)
RunDiscovered ==
    /\ NextUpdate("discovered")
    /\ notes' = Append(notes, [state |-> Head(updates).state, time |-> 0,
                               cached |-> TRUE, epoch |-> epoch, polled |-> FALSE])
    /\ UNCHANGED <<moonraker, socket, asked, wire, client, guard, applying, shown>>

(* The poll's answer, unless the socket has closed since.                    *)
RunPolled ==
    /\ NextUpdate("poll")
    /\ applying' = IF Head(updates).epoch = epoch
                   THEN [state |-> Head(updates).state, time |-> 0, cached |-> FALSE,
                         epoch |-> epoch, polled |-> TRUE]
                   ELSE Nothing
    /\ UNCHANGED <<moonraker, socket, asked, wire, client, guard, notes, shown>>

---------------------------------------------------------------------------
Klipper ==
    \/ KlipperShutsDown \/ KlipperGoes \/ KlipperComesUp
    \/ KlipperStarts \/ KlipperFailsToStart \/ HostReboots

Answer == \E r \in asked : AnswerGate(r) \/ Evaluate(r) \/ Reply(r)

Deliver ==
    \/ OnFrame \/ OnKlippyReady \/ OnKlippyShutdown \/ OnKlippyDisconnected
    \/ OnGate \/ OnInfo \/ OnSubscribed \/ OnPolled \/ OnUnmatched

Main == TakeNote \/ Commit \/ RunSet \/ RunSeed \/ RunDiscovered \/ RunPolled

Next ==
    \/ Klipper \/ Answer \/ Deliver \/ Main
    \/ Open \/ Close \/ HealthTick \/ PollGivesUp

Spec == Init /\ [][Next]_vars

(* Both threads keep running and drain their queues, Moonraker answers what  *)
(* it is asked, and a closed socket is reconnected.                          *)
FairSpec ==
    /\ Spec
    /\ WF_vars(Deliver)
    /\ WF_vars(TakeNote \/ Commit)
    /\ WF_vars(Commit \/ RunSet \/ RunSeed \/ RunDiscovered \/ RunPolled)
    /\ WF_vars(Answer)
    /\ WF_vars(Open)
    /\ WF_vars(HealthTick)

---------------------------------------------------------------------------
(* Properties                                                                *)

ScalarsOK ==
    /\ klippy \in Reports /\ now \in Nat \ {0} /\ changes \in 0..MaxChanges
    /\ link \in BOOLEAN /\ closes \in 0..MaxCloses /\ subscribed \in BOOLEAN
    /\ seq \in Nat /\ completed \in BOOLEAN
    /\ poll \in Polls
    /\ shown \in KlippyStates
    /\ watermark \in Nat /\ live \in BOOLEAN /\ epoch \in Nat

QueuesOK ==
    /\ asked \subseteq Questions
    /\ wire \in Seq(Messages)
    /\ notes \in Seq(Notes) /\ applying \in Notes \cup {Nothing}
    /\ updates \in Seq(Updates)

(* Every variable has the shape the code gives it; in particular what is     *)
(* shown or about to be shown is one of the four states the screen knows,    *)
(* never Moonraker's own "disconnected" (parse_klippy_state()).              *)
TypeOK == ScalarsOK /\ QueuesOK

(* The freshness guard never asks more of a frame than the printer now       *)
(* connected can give: the watermark is not ahead of Klipper's own clock, so *)
(* no frame Klipper sends from here on is thrown away as old.  A frame of     *)
(* the session before a close is still waiting, or half applied, when the    *)
(* close resets the guard (apply_webhooks(), reset_klippy_state_freshness()).*)
NewFramesAreAccepted == watermark <= now

Quiet ==
    /\ link
    /\ wire = << >> /\ asked = {}
    /\ notes = << >> /\ updates = << >> /\ applying = Nothing

(* Whenever nothing is on its way, a ready or shut-down Klipper is shown as  *)
(* what it is: no snapshot, seed, late poll answer or frame of an earlier    *)
(* session was the last to write, whatever order the queues and threads ran  *)
(* in.  READY over a dead Klipper would open the G-code guards.              *)
QuietIsTrue ==
    Quiet /\ klippy \in {"ready", "shutdown"} => shown = klippy

(* A Klipper that stays ready, or stays shut down, on a socket that stays    *)
(* open is eventually shown as such, for good.                               *)
StateIsShown ==
    \A s \in {"ready", "shutdown"} :
        <>[](link /\ klippy = s) => <>[](shown = s)

(* moonraker_discovery_sequence.cpp:867 and :878: an error at start-up, or a *)
(* Klipper that does not serve, is recognised on connecting.  Here: a        *)
(* Klipper that stays in error, or stays away, is not shown as ready.        *)
FaultIsShown ==
    <>[](link /\ klippy \in {"error", "disconnected"}) => <>[](shown # "ready")
=============================================================================
