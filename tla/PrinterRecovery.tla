--------------------------- MODULE PrinterRecovery ---------------------------
(***************************************************************************)
(* PrinterRecoveryService: the chain that brings a stuck Klipper back.     *)
(* recover() asks for printer.firmware_restart; once that is accepted it   *)
(* polls printer.info until Klipper is ready, and runs helix-recover.sh    *)
(* once if it is not; if it is refused it runs the script, and as a last   *)
(* resort asks Moonraker to restart the service.  One chain runs at a time *)
(* (g_chain_running), and it lives only in its continuations: a request    *)
(* Moonraker has to answer, a callback in the update queue, an LVGL timer, *)
(* or a job on the slow HTTP lane.                                         *)
(*                                                                         *)
(* A printer switch tears the session down under a running chain           *)
(* (PrinterSession::teardown_printer_scope): the queue is frozen, the      *)
(* client disconnected, the queue drained and shut, the client destroyed,  *)
(* and both are built anew.                                                *)
(***************************************************************************)
EXTENDS Naturals, Sequences

CONSTANTS MaxChains,   \* bound: chains that get past the single-flight check
          MaxSessions  \* bound: Moonraker clients built, one per session

ASSUME RecoveryBounds == MaxChains \in Nat /\ MaxSessions \in Nat \ {0}

Chains == 1..MaxChains
Sessions == 1..MaxSessions

\* What printer.info can say; "unreachable" stands for an error answer and
\* for every state that parses to none of the other three.
KlippyStates == {"ready", "startup", "error", "unreachable"}

\* RecoveryOutcome, and "error" for on_error.
Verdicts == {"KLIPPY_READY", "RESTART_ISSUED", "error"}

Methods == {"firmware_restart", "printer.info", "services.restart"}

\* Why the script runs: to make an accepted restart stick, or instead of one.
Reasons == {"escalate", "fallback"}

Requests == [chain : Chains, method : Methods]
Tasks == [chain : Chains, task : {"start"}]
             \cup [chain : Chains, task : {"status"}, state : KlippyStates]
             \cup [chain : Chains, task : {"done"}, reason : Reasons, ok : BOOLEAN]
Jobs == [chain : Chains, reason : Reasons]

VARIABLES
    g_chain_running,  \* the single-flight latch
    last_chain,       \* chains accepted so far
    born,             \* born[c]: the session whose api chain c captured
    script_ran,       \* RestartVerification::script_ran, by chain
    script_runs,      \* script_runs[c]: how often chain c started the script
    window_over,      \* the verify window of the current round has elapsed
    deadline_over,    \* chains whose chain deadline has elapsed
    requests,         \* requests Moonraker has not answered
    pending_,         \* the update queue
    frozen_buffer_,   \* callbacks posted while teardown holds its freeze
    timers,           \* chains with an armed poll timer
    jobs,             \* scripts submitted to HttpExecutor::slow()
    verdicts,         \* verdicts[c]: what the caller of chain c was told
    withdrawn,        \* chains that ended, telling nobody
    phase,            \* where the main thread is in a printer switch
    session,          \* the session being torn down, or running
    client_alive,     \* the session's client exists
    spool_latch,      \* spools are on the bed: restarts are refused
    has_script        \* local_recovery_available()

chain == <<g_chain_running, last_chain, born, script_ran, script_runs, window_over,
           deadline_over>>
queue == <<pending_, frozen_buffer_>>
answers == <<verdicts, withdrawn>>
world == <<phase, session, client_alive, spool_latch, has_script>>
vars == <<chain, requests, queue, timers, jobs, answers, world>>

TypeOK ==
    /\ g_chain_running \in BOOLEAN
    /\ last_chain \in 0..MaxChains
    /\ born \in [Chains -> 0..MaxSessions]
    /\ script_ran \subseteq Chains
    /\ script_runs \in [Chains -> Nat]
    /\ window_over \subseteq Chains
    /\ deadline_over \subseteq Chains
    /\ requests \subseteq Requests
    /\ pending_ \in Seq(Tasks)
    /\ frozen_buffer_ \in Seq(Tasks)
    /\ timers \subseteq Chains
    /\ jobs \subseteq Jobs
    /\ verdicts \in [Chains -> Seq(Verdicts)]
    /\ withdrawn \subseteq Chains
    /\ phase \in {"running", "frozen", "disconnected", "shut", "destroyed"}
    /\ session \in Sessions
    /\ client_alive \in BOOLEAN
    /\ spool_latch \in BOOLEAN
    /\ has_script \in BOOLEAN

Init ==
    /\ g_chain_running = FALSE
    /\ last_chain = 0
    /\ born = [c \in Chains |-> 0]
    /\ script_ran = {}
    /\ script_runs = [c \in Chains |-> 0]
    /\ window_over = {}
    /\ deadline_over = {}
    /\ requests = {}
    /\ pending_ = <<>>
    /\ frozen_buffer_ = <<>>
    /\ timers = {}
    /\ jobs = {}
    /\ verdicts = [c \in Chains |-> <<>>]
    /\ withdrawn = {}
    /\ phase = "running"
    /\ session = 1
    /\ client_alive = TRUE
    /\ spool_latch = FALSE
    /\ has_script \in BOOLEAN

-----------------------------------------------------------------------------
(* What the continuations share.                                           *)

\* !alive.expired(): the client whose api chain c captured still exists.
Alive(c) == born[c] = session /\ client_alive

\* The socket of the current client still takes requests.
Connected == phase \in {"running", "frozen"}

\* ui::queue_update(): dropped once the queue is shut, buffered while frozen.
Post(e) ==
    /\ pending_' = IF phase = "running" THEN Append(pending_, e) ELSE pending_
    /\ frozen_buffer_' = IF phase \in {"frozen", "disconnected"}
                         THEN Append(frozen_buffer_, e) ELSE frozen_buffer_

\* Mutant: the wrapper calls back without ending the chain.
BugConcludeKeepsLatch(c, v) ==
    /\ verdicts' = [verdicts EXCEPT ![c] = Append(@, v)]
    /\ UNCHANGED <<g_chain_running, withdrawn>>

\* on_success / on_error as recover() wraps them: end_chain(), then the
\* caller's callback.
Conclude(c, v) ==
    /\ g_chain_running' = FALSE
    /\ verdicts' = [verdicts EXCEPT ![c] = Append(@, v)]
    /\ UNCHANGED withdrawn

\* abandoned(): the client is gone, so the chain ends without a callback.
Abandon(c) ==
    /\ g_chain_running' = FALSE
    /\ withdrawn' = withdrawn \cup {c}
    /\ UNCHANGED verdicts

KeepRunning == UNCHANGED <<g_chain_running, verdicts, withdrawn>>

\* run_local_recovery(): one job on the slow lane.
RunScript(c, why) ==
    /\ script_runs' = [script_runs EXCEPT ![c] = @ + 1]
    /\ jobs' = jobs \cup {[chain |-> c, reason |-> why]}

-----------------------------------------------------------------------------
(* recover(), on the main thread.                                          *)

\* Without a client, or while spools are on the bed, or while another chain
\* runs, the caller is refused on the spot and nothing changes.
Refused == ~client_alive \/ spool_latch \/ g_chain_running

Recover ==
    /\ phase = "running"
    /\ ~Refused
    /\ last_chain < MaxChains
    /\ g_chain_running' = TRUE
    /\ last_chain' = last_chain + 1
    /\ born' = [born EXCEPT ![last_chain + 1] = session]
    /\ requests' = requests \cup {[chain |-> last_chain + 1, method |-> "firmware_restart"]}
    /\ UNCHANGED <<script_ran, script_runs, window_over, deadline_over, queue, timers, jobs,
                   answers, world>>

\* run_services_restart: called with the raw api, no !alive.expired() before it.
\* A live api refuses at once while spools are on the bed or the socket is
\* closed.  The call on a destroyed api is undefined: it fails, is never heard
\* of again, or lands in the client built in its place.  rest: the requests
\* that stay unanswered.
RestartService(c, rest) ==
    \/ /\ client_alive /\ Connected /\ ~spool_latch
       /\ requests' = rest \cup {[chain |-> c, method |-> "services.restart"]}
       /\ KeepRunning
    \/ /\ ~Alive(c) \/ ~Connected \/ spool_latch
       /\ requests' = rest
       /\ Conclude(c, "error")
    \/ /\ ~Alive(c)
       /\ requests' = rest
       /\ KeepRunning

\* run_local_then_services: firmware_restart was refused or failed.
LocalThenServices(c, rest) ==
    \/ /\ has_script
       /\ RunScript(c, "fallback")
       /\ requests' = rest
       /\ KeepRunning
    \/ /\ ~has_script
       /\ RestartService(c, rest)
       /\ UNCHANGED <<script_runs, jobs>>

-----------------------------------------------------------------------------
(* Moonraker answers, or the tracker times a request out, while the socket *)
(* is up; callbacks run on the WebSocket thread.                           *)

FirmwareRestartAccepted(r) ==
    /\ Connected /\ r.method = "firmware_restart"
    /\ requests' = requests \ {r}
    /\ Post([chain |-> r.chain, task |-> "start"])
    /\ UNCHANGED <<chain, timers, jobs, answers, world>>

FirmwareRestartFailed(r) ==
    /\ Connected /\ r.method = "firmware_restart"
    /\ LocalThenServices(r.chain, requests \ {r})
    /\ UNCHANGED <<last_chain, born, script_ran, window_over, deadline_over, queue, timers,
                   world>>

KlippyStatusAnswered(r, s) ==
    /\ Connected /\ r.method = "printer.info"
    /\ requests' = requests \ {r}
    /\ Post([chain |-> r.chain, task |-> "status", state |-> s])
    /\ UNCHANGED <<chain, timers, jobs, answers, world>>

ServiceRestartAnswered(r) ==
    /\ Connected /\ r.method = "services.restart"
    /\ requests' = requests \ {r}
    /\ Conclude(r.chain, "RESTART_ISSUED") \/ Conclude(r.chain, "error")
    /\ UNCHANGED <<last_chain, born, script_ran, script_runs, window_over, deadline_over,
                   queue, timers, jobs, world>>

Answer(r) ==
    \/ FirmwareRestartAccepted(r)
    \/ FirmwareRestartFailed(r)
    \/ \E s \in KlippyStates : KlippyStatusAnswered(r, s)
    \/ ServiceRestartAnswered(r)

\* helix-recover.sh ends: it exits, is killed at its timeout, or never
\* started; the slow lane's worker posts the result.
ScriptEnds(j, ok) ==
    /\ jobs' = jobs \ {j}
    /\ Post([chain |-> j.chain, task |-> "done", reason |-> j.reason, ok |-> ok])
    /\ UNCHANGED <<chain, requests, timers, answers, world>>

-----------------------------------------------------------------------------
(* Continuations on the main thread.                                       *)

\* The main loop drains the queue; so does update_queue_shutdown(), once
\* disconnect() has run the error callbacks of the open requests.
Draining(e) ==
    /\ phase = "running" \/ (phase = "disconnected" /\ requests = {})
    /\ pending_ # <<>> /\ e = Head(pending_)
    /\ pending_' = Tail(pending_)
    /\ UNCHANGED <<frozen_buffer_, last_chain, born, world>>

\* RestartVerification::start(): a new round, polled after one interval.
StartRound(c) ==
    /\ window_over' = window_over \ {c}
    /\ timers' = timers \cup {c}

\* verify(start)
VerifyStart(e) ==
    /\ e.task = "start"
    /\ \/ ~Alive(e.chain) /\ Abandon(e.chain) /\ UNCHANGED <<window_over, timers>>
       \/ Alive(e.chain) /\ StartRound(e.chain) /\ KeepRunning
    /\ UNCHANGED <<script_ran, script_runs, deadline_over, requests, jobs>>

\* escalate(): the script, unless this chain already ran it or there is none.
Escalate(c) ==
    \/ /\ has_script /\ c \notin script_ran
       /\ script_ran' = script_ran \cup {c}
       /\ RunScript(c, "escalate")
       /\ KeepRunning
    \/ /\ ~has_script \/ c \in script_ran
       /\ Conclude(c, "RESTART_ISSUED")
       /\ UNCHANGED <<script_ran, script_runs, jobs>>

\* Mutant: a Klippy that answers `startup` is waited for without a deadline.
BugOnStatusNoDeadline(c, s) ==
    \/ /\ ~Alive(c)
       /\ Abandon(c) /\ UNCHANGED <<script_ran, script_runs, jobs, timers>>
    \/ /\ Alive(c) /\ s = "ready"
       /\ Conclude(c, "KLIPPY_READY") /\ UNCHANGED <<script_ran, script_runs, jobs, timers>>
    \/ /\ Alive(c) /\ (s = "error" \/ (s = "unreachable" /\ c \in window_over))
       /\ Escalate(c) /\ UNCHANGED timers
    \/ /\ Alive(c) /\ (s = "startup" \/ (s = "unreachable" /\ c \notin window_over))
       /\ timers' = timers \cup {c}
       /\ KeepRunning /\ UNCHANGED <<script_ran, script_runs, jobs>>

\* Mutant: looks at Klippy's error before the chain's deadline.
BugOnStatusErrorFirst(c, s) ==
    \/ /\ ~Alive(c)
       /\ Abandon(c) /\ UNCHANGED <<script_ran, script_runs, jobs, timers>>
    \/ /\ Alive(c) /\ s = "ready"
       /\ Conclude(c, "KLIPPY_READY") /\ UNCHANGED <<script_ran, script_runs, jobs, timers>>
    \/ /\ Alive(c) /\ s = "error"
       /\ Escalate(c) /\ UNCHANGED timers
    \/ /\ Alive(c) /\ s \in {"startup", "unreachable"} /\ c \in deadline_over
       /\ Conclude(c, "RESTART_ISSUED") /\ UNCHANGED <<script_ran, script_runs, jobs, timers>>
    \/ /\ Alive(c) /\ s \in {"startup", "unreachable"} /\ c \notin deadline_over
       /\ timers' = timers \cup {c}
       /\ KeepRunning /\ UNCHANGED <<script_ran, script_runs, jobs>>

\* on_status(): abandoned, ready, past the deadline, failed, or poll again.
\* While Klippy answers `startup` only the chain's deadline counts.
OnStatus(c, s) ==
    \/ /\ ~Alive(c)
       /\ Abandon(c) /\ UNCHANGED <<script_ran, script_runs, jobs, timers>>
    \/ /\ Alive(c) /\ s = "ready"
       /\ Conclude(c, "KLIPPY_READY") /\ UNCHANGED <<script_ran, script_runs, jobs, timers>>
    \/ /\ Alive(c) /\ s # "ready" /\ c \in deadline_over
       /\ Conclude(c, "RESTART_ISSUED") /\ UNCHANGED <<script_ran, script_runs, jobs, timers>>
    \/ /\ Alive(c) /\ c \notin deadline_over
       /\ s = "error" \/ (s = "unreachable" /\ c \in window_over)
       /\ Escalate(c) /\ UNCHANGED timers
    \/ /\ Alive(c) /\ c \notin deadline_over
       /\ s = "startup" \/ (s = "unreachable" /\ c \notin window_over)
       /\ timers' = timers \cup {c}
       /\ KeepRunning /\ UNCHANGED <<script_ran, script_runs, jobs>>

VerifyStatus(e) ==
    /\ e.task = "status"
    /\ OnStatus(e.chain, e.state)
    /\ UNCHANGED <<window_over, deadline_over, requests>>

\* The script's result: after an escalation exit 0 starts another round and
\* anything else is the chain's error; after a refused restart exit 0 is the
\* verdict and anything else falls through to the service restart.
ScriptDone(e) ==
    /\ e.task = "done"
    /\ \/ /\ e.reason = "escalate" /\ e.ok
          /\ StartRound(e.chain) /\ KeepRunning /\ UNCHANGED requests
       \/ /\ e.reason = "escalate" /\ ~e.ok
          /\ Conclude(e.chain, "error") /\ UNCHANGED <<window_over, timers, requests>>
       \/ /\ e.reason = "fallback" /\ e.ok
          /\ Conclude(e.chain, "RESTART_ISSUED")
          /\ UNCHANGED <<window_over, timers, requests>>
       \/ /\ e.reason = "fallback" /\ ~e.ok
          /\ RestartService(e.chain, requests) /\ UNCHANGED <<window_over, timers>>
    /\ UNCHANGED <<script_ran, script_runs, deadline_over, jobs>>

Drain ==
    \E e \in Tasks :
        /\ Draining(e)
        /\ VerifyStart(e) \/ VerifyStatus(e) \/ ScriptDone(e)

\* Mutant: polls without asking whether the client still exists.
BugPollUnchecked(c) ==
    /\ phase = "running" /\ c \in timers
    /\ timers' = timers \ {c}
    /\ requests' = requests \cup {[chain |-> c, method |-> "printer.info"]}
    /\ UNCHANGED <<chain, queue, jobs, answers, world>>

\* poll(), from its one-shot timer.
Poll(c) ==
    /\ phase = "running" /\ c \in timers
    /\ timers' = timers \ {c}
    /\ \/ ~Alive(c) /\ Abandon(c) /\ UNCHANGED requests
       \/ /\ Alive(c)
          /\ requests' = requests \cup {[chain |-> c, method |-> "printer.info"]}
          /\ KeepRunning
    /\ UNCHANGED <<last_chain, born, script_ran, script_runs, window_over, deadline_over,
                   queue, jobs, world>>

-----------------------------------------------------------------------------
(* Time and the bed.                                                       *)

WindowElapses(c) ==
    /\ g_chain_running /\ c = last_chain /\ c \notin window_over
    /\ window_over' = window_over \cup {c}
    /\ UNCHANGED <<g_chain_running, last_chain, born, script_ran, script_runs, deadline_over,
                   requests, queue, timers, jobs, answers, world>>

DeadlineElapses(c) ==
    /\ g_chain_running /\ c = last_chain /\ c \notin deadline_over
    /\ deadline_over' = deadline_over \cup {c}
    /\ UNCHANGED <<g_chain_running, last_chain, born, script_ran, script_runs, window_over,
                   requests, queue, timers, jobs, answers, world>>

SpoolLatch ==
    /\ spool_latch' = ~spool_latch
    /\ UNCHANGED <<chain, requests, queue, timers, jobs, answers, phase, session, client_alive,
                   has_script>>

-----------------------------------------------------------------------------
(* A printer switch, on the main thread.                                   *)

\* teardown_printer_scope() freezes the queue before anything else.
BeginTeardown ==
    /\ phase = "running" /\ session < MaxSessions
    /\ phase' = "frozen"
    /\ UNCHANGED <<chain, requests, queue, timers, jobs, answers, session, client_alive,
                   spool_latch, has_script>>

\* client()->disconnect(): the socket closes ...
Disconnect ==
    /\ phase = "frozen"
    /\ phase' = "disconnected"
    /\ UNCHANGED <<chain, requests, queue, timers, jobs, answers, session, client_alive,
                   spool_latch, has_script>>

\* ... and tracker_.cleanup_all() runs the error callback of every request.
CleanupRequest(r) ==
    /\ phase = "disconnected"
    /\ \/ /\ r.method = "firmware_restart"
          /\ LocalThenServices(r.chain, requests \ {r})
          /\ UNCHANGED queue
       \/ /\ r.method = "printer.info"
          /\ requests' = requests \ {r}
          /\ Post([chain |-> r.chain, task |-> "status", state |-> "unreachable"])
          /\ KeepRunning /\ UNCHANGED <<script_runs, jobs>>
       \/ /\ r.method = "services.restart"
          /\ requests' = requests \ {r}
          /\ Conclude(r.chain, "error")
          /\ UNCHANGED <<script_runs, jobs, queue>>
    /\ UNCHANGED <<last_chain, born, script_ran, window_over, deadline_over, timers, world>>

\* update_queue_shutdown(): what the freeze buffered is discarded.
ShutQueue ==
    /\ phase = "disconnected" /\ requests = {} /\ pending_ = <<>>
    /\ phase' = "shut"
    /\ frozen_buffer_' = <<>>
    /\ UNCHANGED <<chain, requests, pending_, timers, jobs, answers, session, client_alive,
                   spool_latch, has_script>>

\* m_moonraker.reset()
DestroyClient ==
    /\ phase = "shut"
    /\ phase' = "destroyed"
    /\ client_alive' = FALSE
    /\ UNCHANGED <<chain, requests, queue, timers, jobs, answers, session, spool_latch,
                   has_script>>

\* rebuild(): the queue, then a client, unless init_moonraker() fails.
Rebuild ==
    /\ phase = "destroyed"
    /\ phase' = "running"
    /\ session' = session + 1
    /\ client_alive' \in BOOLEAN
    /\ UNCHANGED <<chain, requests, queue, timers, jobs, answers, spool_latch, has_script>>

Teardown ==
    \/ Disconnect
    \/ \E r \in requests : CleanupRequest(r)
    \/ ShutQueue
    \/ DestroyClient
    \/ Rebuild

-----------------------------------------------------------------------------
Next ==
    \/ Recover
    \/ \E r \in requests : Answer(r)
    \/ \E j \in jobs, ok \in BOOLEAN : ScriptEnds(j, ok)
    \/ Drain
    \/ \E c \in Chains : Poll(c) \/ WindowElapses(c) \/ DeadlineElapses(c)
    \/ SpoolLatch
    \/ BeginTeardown
    \/ Teardown

Spec == Init /\ [][Next]_vars

\* Requests are answered or time out (RequestTracker), scripts are killed at
\* their timeout, the main loop runs its timers and its queue, and time
\* passes.  Nobody has to call recover() or to switch printers.
Fairness ==
    /\ WF_vars(\E r \in requests : Answer(r))
    /\ WF_vars(\E j \in jobs, ok \in BOOLEAN : ScriptEnds(j, ok))
    /\ WF_vars(Drain)
    /\ \A c \in 1..MaxChains : WF_vars(Poll(c)) /\ WF_vars(DeadlineElapses(c))
    /\ WF_vars(Teardown)

FairSpec == Spec /\ Fairness

-----------------------------------------------------------------------------
(* Properties.                                                             *)

\* Everything that can still run code of chain c, named by where it waits.
Continuations(c) ==
    ({"request"} \X {r \in requests : r.chain = c})
        \cup ({"job"} \X {j \in jobs : j.chain = c})
        \cup ({"timer"} \X ({c} \cap timers))
        \cup ({"queued"} \X {n \in DOMAIN pending_ : pending_[n].chain = c})
        \cup ({"frozen"} \X {n \in DOMAIN frozen_buffer_ : frozen_buffer_[n].chain = c})

\* Two chains never race their restarts: whatever is still to run belongs to
\* the chain that holds the latch, and that chain is in one place only.
OneContinuation ==
    \A c \in Chains :
        /\ \A x, y \in Continuations(c) : x = y
        /\ Continuations(c) # {} => g_chain_running /\ c = last_chain

\* "The local script already ran for this chain; it never runs twice": not
\* through two escalations, nor through the fallback after a switch cut the
\* firmware restart short.
ScriptRunsOnce == \A c \in Chains : script_runs[c] <= 1

\* The chain's timer, its queued answers and its script outlive a printer switch,
\* the api they captured does not.  Whatever polls or restarts Klipper's firmware
\* awaits its answer from the client the chain began with, never from one gone or
\* one built since; only the last resort, services.restart after a failed script,
\* is called without asking (RestartService), and may be found with a client of
\* another printer.  No request of any kind outlives the client it is with.
RequestsHaveAClient ==
    \A r \in requests : client_alive /\ (Alive(r.chain) \/ r.method = "services.restart")

\* What every moment of a recovery keeps, with a switch going on or not.
ChainIsSafe == TypeOK /\ OneContinuation /\ ScriptRunsOnce /\ RequestsHaveAClient

\* "The deadline ends the chain with no script": once it has elapsed no
\* answer, however late it was sent or queued, makes the poll start the
\* script, which would keep the caller waiting another script_timeout_ms.
NoScriptPastDeadline ==
    [][\A j \in jobs' \ jobs : j.reason = "escalate" => j.chain \notin deadline_over]_vars

Promise == INSTANCE OneShot WITH
    Ops <- Chains, Outcomes <- Verdicts, Exclusive <- TRUE,
    open <- {c \in Chains : g_chain_running /\ c = last_chain},
    closed <- {c \in Chains : c < last_chain \/ (~g_chain_running /\ c = last_chain)},
    told <- verdicts

\* The recovery service implements the exclusive one-shot promise: one chain
\* at a time, and each tells its caller exactly one verdict or is withdrawn.
ImplementsOneShot == Promise!Spec

\* A chain whose session stays up ends, however slowly Klipper boots.
ChainEnds ==
    \A c \in 1..MaxChains :
        (g_chain_running /\ last_chain = c /\ born[c] = session /\ phase = "running")
            ~> (~g_chain_running \/ last_chain # c \/ phase # "running")

\* What recover() says of its wrappers ("Every terminal path goes through
\* these two, so the chain always ends") and the recovery test of a switch
\* ("The abandoned chain no longer holds the single-flight slot").
SlotComesFree == g_chain_running ~> ~g_chain_running
==============================================================================
