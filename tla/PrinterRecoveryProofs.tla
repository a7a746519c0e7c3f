----------------------- MODULE PrinterRecoveryProofs -----------------------
(***************************************************************************)
(* Proofs about PrinterRecovery for every number of chains and of printer  *)
(* switches.                                                               *)
(***************************************************************************)
EXTENDS PrinterRecovery, TLAPS

-----------------------------------------------------------------------------
(* The inductive invariant.                                                *)

\* Whatever waits to run belongs to the chain that holds the latch.
LiveIsLast ==
    /\ \A r \in requests : g_chain_running /\ r.chain = last_chain
    /\ \A j \in jobs : g_chain_running /\ j.chain = last_chain
    /\ \A c \in timers : g_chain_running /\ c = last_chain
    /\ \A n \in DOMAIN pending_ : g_chain_running /\ pending_[n].chain = last_chain
    /\ \A n \in DOMAIN frozen_buffer_ :
           g_chain_running /\ frozen_buffer_[n].chain = last_chain

\* At most one thing waits to run.
InOnePlace ==
    /\ \A r, q \in requests : r = q
    /\ \A j, k \in jobs : j = k
    /\ Len(pending_) <= 1
    /\ Len(frozen_buffer_) <= 1
    /\ requests # {} =>
           jobs = {} /\ timers = {} /\ pending_ = <<>> /\ frozen_buffer_ = <<>>
    /\ jobs # {} => timers = {} /\ pending_ = <<>> /\ frozen_buffer_ = <<>>
    /\ timers # {} => pending_ = <<>> /\ frozen_buffer_ = <<>>
    /\ pending_ # <<>> => frozen_buffer_ = <<>>

\* Chain c has started no script, or has used up its escalation.
Spent(c) == script_runs[c] = 0 \/ c \in script_ran

\* The script budget of a chain, by where the chain is: nothing ran before
\* the firmware restart is answered, and what can still escalate is Spent.
ScriptBudget ==
    /\ \A c \in Chains : script_runs[c] <= 1
    /\ \A c \in Chains : c > last_chain => script_runs[c] = 0 /\ c \notin script_ran
    /\ \A r \in requests : r.method = "firmware_restart" => script_runs[r.chain] = 0
    /\ \A r \in requests : r.method = "printer.info" => Spent(r.chain)
    /\ \A j \in jobs : j.reason = "escalate" => Spent(j.chain)
    /\ \A c \in timers : Spent(c)
    /\ \A n \in DOMAIN pending_ :
           \/ Spent(pending_[n].chain)
           \/ pending_[n].task = "done" /\ pending_[n].reason = "fallback"

\* What the main thread's progress through a printer switch rules out.
PhaseInv ==
    /\ phase # "running" => session < MaxSessions
    /\ phase \in {"shut", "destroyed"} => requests = {}
    /\ RequestsHaveAClient

\* The caller of a chain that is under way, or not begun, has heard nothing.
NothingToldYet ==
    \A c \in Chains :
        c > last_chain \/ (g_chain_running /\ c = last_chain) => verdicts[c] = <<>>

IInv == TypeOK /\ LiveIsLast /\ InOnePlace /\ ScriptBudget /\ PhaseInv /\ NothingToldYet

-----------------------------------------------------------------------------
(* What the operators do to the one thing that waits.                      *)

\* No code of any chain waits to run.
Idle ==
    requests = {} /\ jobs = {} /\ timers = {} /\ pending_ = <<>> /\ frozen_buffer_ = <<>>

\* A sequence with an element has a first, and one with no index is empty.
LEMMA ShortSequences ==
    ASSUME NEW S, NEW s \in Seq(S)
    PROVE  /\ s # <<>> => Head(s) = s[1] /\ Head(s) \in S /\ 1 \in DOMAIN s
           /\ s # <<>> /\ Len(s) <= 1 => Tail(s) = <<>>
           /\ DOMAIN s = {} => s = <<>>
<1>1. Len(s) \in Nat /\ DOMAIN s = 1..Len(s)
  OBVIOUS
<1>2. s # <<>> => Head(s) = s[1] /\ Head(s) \in S /\ Len(s) # 0
  OBVIOUS
<1>3. s # <<>> /\ Len(s) <= 1 => Tail(s) = <<>>
  <2>1. s # <<>> => Tail(s) \in Seq(S) /\ Len(Tail(s)) = Len(s) - 1
    OBVIOUS
  <2> QED BY <1>1, <1>2, <2>1
<1>4. Len(s) = 0 => s = <<>>
  OBVIOUS
<1> QED BY <1>1, <1>2, <1>3, <1>4

\* A sequence of one element, or of none.
LEMMA Single ==
    ASSUME NEW S, NEW e \in S, NEW s, s = <<>> \/ s = <<e>>
    PROVE  s \in Seq(S) /\ Len(s) <= 1 /\ \A n \in DOMAIN s : s[n] = e
<1>1. CASE s = <<>>
  BY <1>1
<1>2. CASE s = <<e>>
  <2>1. <<e>> \in Seq(S) /\ Len(<<e>>) = 1
    OBVIOUS
  <2>2. \A n \in DOMAIN <<e>> : <<e>>[n] = e
    OBVIOUS
  <2> QED BY <1>2, <2>1, <2>2
<1> QED BY <1>1, <1>2

\* An unanswered request is all that its chain waits for.
LEMMA AtRequest ==
    ASSUME IInv, NEW r \in requests
    PROVE  /\ r \in Requests /\ r.chain \in Chains /\ g_chain_running /\ r.chain = last_chain
           /\ requests \ {r} = {} /\ jobs = {} /\ timers = {}
           /\ pending_ = <<>> /\ frozen_buffer_ = <<>>
BY DEF IInv, TypeOK, LiveIsLast, InOnePlace, Requests

\* So is a running script,
LEMMA AtJob ==
    ASSUME IInv, NEW j \in jobs
    PROVE  /\ j \in Jobs /\ j.chain \in Chains /\ g_chain_running /\ j.chain = last_chain
           /\ requests = {} /\ jobs \ {j} = {} /\ timers = {}
           /\ pending_ = <<>> /\ frozen_buffer_ = <<>>
BY DEF IInv, TypeOK, LiveIsLast, InOnePlace, Jobs

\* an armed timer,
LEMMA AtTimer ==
    ASSUME IInv, NEW c \in timers
    PROVE  /\ c \in Chains /\ g_chain_running /\ c = last_chain
           /\ requests = {} /\ jobs = {} /\ timers \ {c} = {}
           /\ pending_ = <<>> /\ frozen_buffer_ = <<>>
BY DEF IInv, TypeOK, LiveIsLast, InOnePlace

\* and a queued callback.
LEMMA AtTask ==
    ASSUME IInv, NEW e, Draining(e)
    PROVE  /\ e \in Tasks /\ e.chain \in Chains /\ g_chain_running /\ e.chain = last_chain
           /\ requests = {} /\ jobs = {} /\ timers = {}
           /\ pending_' = <<>> /\ frozen_buffer_ = <<>> /\ frozen_buffer_' = <<>>
           /\ Spent(e.chain) \/ (e.task = "done" /\ e.reason = "fallback")
<1>1. /\ e = pending_[1] /\ 1 \in DOMAIN pending_ /\ e \in Tasks
      /\ pending_' = Tail(pending_) /\ Tail(pending_) = <<>>
  BY ShortSequences DEF Draining, IInv, TypeOK, InOnePlace
<1>2. e.chain \in Chains
  BY <1>1 DEF Tasks
<1>3. pending_' = <<>> /\ pending_ # <<>>
  BY <1>1 DEF Draining
<1>4. g_chain_running /\ e.chain = last_chain
  BY <1>1 DEF IInv, LiveIsLast
<1>5. Spent(e.chain) \/ (e.task = "done" /\ e.reason = "fallback")
  BY <1>1 DEF IInv, ScriptBudget
<1> QED BY <1>1, <1>2, <1>3, <1>4, <1>5 DEF Draining, IInv, InOnePlace

\* Without a latch nothing waits.
LEMMA UnlatchedIsIdle == IInv /\ ~g_chain_running => Idle
<1> SUFFICES ASSUME IInv, ~g_chain_running PROVE Idle
  OBVIOUS
<1>1. requests = {} /\ jobs = {} /\ timers = {}
  BY DEF IInv, LiveIsLast
<1>2. pending_ = <<>> /\ frozen_buffer_ = <<>>
  <2>1. DOMAIN pending_ = {} /\ DOMAIN frozen_buffer_ = {}
    BY DEF IInv, LiveIsLast
  <2> QED BY <2>1, ShortSequences DEF IInv, TypeOK
<1> QED BY <1>1, <1>2 DEF Idle

\* A post to empty queues leaves it in one of them, or drops it.
LEMMA PostFacts ==
    ASSUME TypeOK, NEW e \in Tasks, pending_ = <<>>, frozen_buffer_ = <<>>, Post(e)
    PROVE  /\ pending_' \in Seq(Tasks) /\ frozen_buffer_' \in Seq(Tasks)
           /\ Len(pending_') <= 1 /\ Len(frozen_buffer_') <= 1
           /\ \A n \in DOMAIN pending_' : pending_'[n] = e
           /\ \A n \in DOMAIN frozen_buffer_' : frozen_buffer_'[n] = e
           /\ pending_' # <<>> => frozen_buffer_' = <<>>
<1>1. pending_' = <<>> \/ pending_' = <<e>>
  BY DEF Post
<1>2. frozen_buffer_' = <<>> \/ frozen_buffer_' = <<e>>
  BY DEF Post
<1>3. pending_' = <<>> \/ frozen_buffer_' = <<>>
  BY DEF Post
<1> QED BY <1>1, <1>2, <1>3, Single

-----------------------------------------------------------------------------
(* The invariant is inductive: one lemma per operation.                    *)

\* Chain c goes on, is abandoned, or tells its caller a verdict.
Moves(c) == KeepRunning \/ Abandon(c) \/ \E v \in Verdicts : Conclude(c, v)

\* Where the running chain c can be after an operation, with its budget: it
\* is over or lost, it waits for an answer, for a script, for its timer, or
\* its callback e was posted.
NowIdle == Idle'

NowAsking(c) ==
    \E m \in {"printer.info", "services.restart"} :
        /\ requests' = {[chain |-> c, method |-> m]}
        /\ client_alive /\ Connected /\ (Alive(c) \/ m = "services.restart")
        /\ m = "printer.info" => Spent(c)'
        /\ jobs' = {} /\ timers' = {} /\ pending_' = <<>> /\ frozen_buffer_' = <<>>

NowInScript(c) ==
    \E why \in Reasons :
        /\ jobs' = {[chain |-> c, reason |-> why]}
        /\ why = "escalate" => Spent(c)'
        /\ requests' = {} /\ timers' = {} /\ pending_' = <<>> /\ frozen_buffer_' = <<>>

NowTimed(c) ==
    /\ timers' = {c} /\ Spent(c)'
    /\ requests' = {} /\ jobs' = {} /\ pending_' = <<>> /\ frozen_buffer_' = <<>>

NowPosted(c) ==
    \E e \in Tasks :
        /\ pending_ = <<>> /\ frozen_buffer_ = <<>> /\ Post(e)
        /\ e.chain = c
        /\ Spent(c)' \/ (e.task = "done" /\ e.reason = "fallback")
        /\ requests' = {} /\ jobs' = {} /\ timers' = {}

\* An operation of the running chain that leaves it in one of these places,
\* spends at most one script, and leaves the printer switch alone, keeps the
\* invariant.
LEMMA OperationKeeps ==
    ASSUME IInv, g_chain_running, NEW c \in Chains, c = last_chain, Moves(c),
           NowIdle \/ (KeepRunning /\ (NowAsking(c) \/ NowInScript(c) \/ NowTimed(c)
                                           \/ NowPosted(c))),
           UNCHANGED <<last_chain, born, world>>,
           window_over' \subseteq Chains, deadline_over' \subseteq Chains,
           script_ran' = script_ran \/ script_ran' = script_ran \cup {c},
           \/ script_runs' = script_runs
           \/ script_runs[c] = 0 /\ script_runs' = [script_runs EXCEPT ![c] = @ + 1]
    PROVE  IInv'
<1>1. /\ g_chain_running' \in BOOLEAN
      /\ verdicts' \in [Chains -> Seq(Verdicts)] /\ withdrawn' \subseteq Chains
      /\ NothingToldYet'
  <2>1. CASE KeepRunning
    BY <2>1 DEF KeepRunning, IInv, TypeOK, NothingToldYet
  <2>2. CASE Abandon(c)
    BY <2>2 DEF Abandon, IInv, TypeOK, NothingToldYet
  <2>3. CASE \E v \in Verdicts : Conclude(c, v)
    <3>0. PICK v \in Verdicts : Conclude(c, v)
      BY <2>3
    <3>1. Append(verdicts[c], v) \in Seq(Verdicts)
      BY DEF IInv, TypeOK
    <3>2. verdicts' \in [Chains -> Seq(Verdicts)]
      BY <3>0, <3>1 DEF Conclude, IInv, TypeOK
    <3>3. \A d \in Chains : d # c => verdicts'[d] = verdicts[d]
      BY <3>0 DEF Conclude, IInv, TypeOK
    <3>4. NothingToldYet'
      <4>1. \A d \in Chains : d > last_chain' => d > last_chain /\ d # c
        BY DEF Chains
      <4>2. ~g_chain_running'
        BY <3>0 DEF Conclude
      <4> QED BY <3>3, <4>1, <4>2 DEF IInv, NothingToldYet
    <3> QED BY <3>0, <3>2, <3>4 DEF Conclude, IInv, TypeOK
  <2> QED BY <2>1, <2>2, <2>3 DEF Moves
<1>2. /\ script_ran' \subseteq Chains /\ script_runs' \in [Chains -> Nat]
      /\ \A d \in Chains : script_runs'[d] <= 1
      /\ \A d \in Chains : d > last_chain' => script_runs'[d] = 0 /\ d \notin script_ran'
  <2>1. script_ran' \subseteq Chains /\ script_runs' \in [Chains -> Nat]
    <3>1. script_runs \in [Chains -> Nat] /\ script_ran \subseteq Chains /\ script_runs[c] + 1 \in Nat
      BY DEF IInv, TypeOK
    <3>2. script_ran' \subseteq Chains
      BY <3>1
    <3>3. script_runs' \in [Chains -> Nat]
      BY <3>1
    <3> QED BY <3>2, <3>3
  <2>2. /\ \A d \in Chains : d # c => script_runs'[d] = script_runs[d]
        /\ script_runs'[c] = script_runs[c] \/ (script_runs[c] = 0 /\ script_runs'[c] = 1)
    BY DEF IInv, TypeOK
  <2>3. \A d \in Chains : script_runs'[d] <= 1
    BY <2>2 DEF IInv, ScriptBudget
  <2>4. \A d \in Chains : d > last_chain' => d > last_chain /\ d # c
    BY DEF Chains
  <2>5. \A d \in Chains : d > last_chain' => script_runs'[d] = 0 /\ d \notin script_ran'
    BY <2>2, <2>4 DEF IInv, ScriptBudget
  <2> QED BY <2>1, <2>3, <2>5
<1>3. ASSUME /\ requests' \subseteq Requests /\ jobs' \subseteq Jobs /\ timers' \subseteq Chains
             /\ pending_' \in Seq(Tasks) /\ frozen_buffer_' \in Seq(Tasks)
      PROVE  TypeOK'
  BY <1>1, <1>2, <1>3 DEF IInv, TypeOK, world
<1>4. ASSUME requests' # {} => client_alive /\ Connected,
             \A r \in requests' : r.chain = c /\ (Alive(c) \/ r.method = "services.restart")
      PROVE  PhaseInv'
  BY <1>4 DEF IInv, PhaseInv, RequestsHaveAClient, Alive, Connected, world
<1>5. CASE NowIdle
  <2>0. /\ requests' = {} /\ jobs' = {} /\ timers' = {} /\ pending_' = <<>> /\ frozen_buffer_' = <<>>
        /\ DOMAIN pending_' = {} /\ DOMAIN frozen_buffer_' = {}
    BY <1>5 DEF NowIdle, Idle
  <2>1. TypeOK'
    BY <1>3, <2>0
  <2>2. LiveIsLast' /\ InOnePlace' /\ ScriptBudget'
    BY <2>0, <1>2 DEF LiveIsLast, InOnePlace, ScriptBudget
  <2>3. PhaseInv'
    BY <1>4, <2>0
  <2> QED BY <1>1, <2>1, <2>2, <2>3 DEF IInv
<1> USE DEF KeepRunning
<1>6. CASE KeepRunning /\ NowAsking(c)
  <2>0. PICK m \in {"printer.info", "services.restart"} :
            /\ requests' = {[chain |-> c, method |-> m]}
            /\ m = "printer.info" => Spent(c)'
            /\ client_alive /\ Connected /\ (Alive(c) \/ m = "services.restart")
    BY <1>6 DEF NowAsking
  <2>1. /\ jobs' = {} /\ timers' = {} /\ pending_' = <<>> /\ frozen_buffer_' = <<>>
        /\ DOMAIN pending_' = {} /\ DOMAIN frozen_buffer_' = {}
    BY <1>6 DEF NowAsking
  <2>2. /\ requests' \subseteq Requests
        /\ \A r \in requests' : r.chain = c /\ r.method = m
    BY <2>0 DEF Requests, Methods
  <2>3. TypeOK'
    BY <1>3, <2>1, <2>2
  <2>4. LiveIsLast' /\ InOnePlace'
    BY <1>6, <2>0, <2>1, <2>2 DEF LiveIsLast, InOnePlace
  <2>5. ScriptBudget'
    BY <2>0, <2>1, <2>2, <1>2 DEF ScriptBudget, Spent
  <2>6. PhaseInv'
    BY <1>4, <2>0, <2>2
  <2> QED BY <1>1, <2>3, <2>4, <2>5, <2>6 DEF IInv
<1>7. CASE KeepRunning /\ NowInScript(c)
  <2>0. PICK why \in Reasons :
            /\ jobs' = {[chain |-> c, reason |-> why]}
            /\ why = "escalate" => Spent(c)'
    BY <1>7 DEF NowInScript
  <2>1. /\ requests' = {} /\ timers' = {} /\ pending_' = <<>> /\ frozen_buffer_' = <<>>
        /\ DOMAIN pending_' = {} /\ DOMAIN frozen_buffer_' = {}
    BY <1>7 DEF NowInScript
  <2>2. /\ jobs' \subseteq Jobs
        /\ \A j \in jobs' : j.chain = c /\ j.reason = why
    BY <2>0 DEF Jobs
  <2>3. TypeOK'
    BY <1>3, <2>1, <2>2
  <2>4. LiveIsLast' /\ InOnePlace'
    BY <1>7, <2>0, <2>1, <2>2 DEF LiveIsLast, InOnePlace
  <2>5. ScriptBudget'
    BY <2>0, <2>1, <2>2, <1>2 DEF ScriptBudget, Spent
  <2>6. PhaseInv'
    BY <1>4, <2>1
  <2> QED BY <1>1, <2>3, <2>4, <2>5, <2>6 DEF IInv
<1>8. CASE KeepRunning /\ NowTimed(c)
  <2>1. /\ requests' = {} /\ jobs' = {} /\ pending_' = <<>> /\ frozen_buffer_' = <<>>
        /\ DOMAIN pending_' = {} /\ DOMAIN frozen_buffer_' = {} /\ timers' = {c} /\ Spent(c)'
    BY <1>8 DEF NowTimed
  <2>2. TypeOK'
    BY <1>3, <2>1
  <2>3. LiveIsLast' /\ InOnePlace'
    BY <1>8, <2>1 DEF LiveIsLast, InOnePlace
  <2>4. ScriptBudget'
    BY <2>1, <1>2 DEF ScriptBudget, Spent
  <2>5. PhaseInv'
    BY <1>4, <2>1
  <2> QED BY <1>1, <2>2, <2>3, <2>4, <2>5 DEF IInv
<1>9. CASE KeepRunning /\ NowPosted(c)
  <2>0. PICK e \in Tasks :
            /\ pending_ = <<>> /\ frozen_buffer_ = <<>> /\ Post(e)
            /\ e.chain = c
            /\ Spent(c)' \/ (e.task = "done" /\ e.reason = "fallback")
            /\ requests' = {} /\ jobs' = {} /\ timers' = {}
    BY <1>9 DEF NowPosted
  <2>1. /\ pending_' \in Seq(Tasks) /\ frozen_buffer_' \in Seq(Tasks)
        /\ Len(pending_') <= 1 /\ Len(frozen_buffer_') <= 1
        /\ \A n \in DOMAIN pending_' : pending_'[n] = e
        /\ \A n \in DOMAIN frozen_buffer_' : frozen_buffer_'[n] = e
        /\ pending_' # <<>> => frozen_buffer_' = <<>>
    BY <2>0, PostFacts DEF IInv
  <2>2. TypeOK'
    BY <1>3, <2>0, <2>1
  <2>3. LiveIsLast'
    BY <1>9, <2>0, <2>1 DEF LiveIsLast
  <2>4. InOnePlace'
    BY <2>0, <2>1 DEF InOnePlace
  <2>5. ScriptBudget'
    BY <2>0, <2>1, <1>2 DEF ScriptBudget, Spent
  <2>6. PhaseInv'
    BY <1>4, <2>0
  <2> QED BY <1>1, <2>2, <2>3, <2>4, <2>5, <2>6 DEF IInv
<1> QED BY <1>5, <1>6, <1>7, <1>8, <1>9

\* recover() starts the next chain, with nothing else waiting.
LEMMA RecoverStep == IInv /\ Recover => IInv'
<1> SUFFICES ASSUME IInv, Recover PROVE IInv'
  OBVIOUS
<1> DEFINE c == last_chain + 1
           r == [chain |-> c, method |-> "firmware_restart"]
<1>1. /\ requests = {} /\ jobs = {} /\ timers = {} /\ pending_ = <<>> /\ frozen_buffer_ = <<>>
      /\ DOMAIN pending_ = {} /\ DOMAIN frozen_buffer_ = {}
  BY UnlatchedIsIdle DEF Recover, Refused, Idle
<1>2. c \in Chains /\ last_chain \in Nat /\ r \in Requests
  BY RecoveryBounds DEF Recover, IInv, TypeOK, Chains, Requests, Methods
<1>3. /\ requests' = {r} /\ jobs' = {} /\ timers' = {}
      /\ pending_' = <<>> /\ frozen_buffer_' = <<>>
      /\ last_chain' = c /\ g_chain_running'
  BY <1>1 DEF Recover, queue
<1> HIDE DEF r
<1>4. TypeOK'
  <2>1. born' \in [Chains -> 0..MaxSessions]
    BY <1>2 DEF Recover, IInv, TypeOK, Sessions
  <2>2. last_chain' \in 0..MaxChains /\ requests' \subseteq Requests
    BY <1>2, <1>3 DEF Chains
  <2> QED BY <2>1, <2>2 DEF Recover, IInv, TypeOK, queue, answers, world
<1> USE DEF r
<1>5. LiveIsLast'
  BY <1>2, <1>3, <1>1 DEF LiveIsLast
<1>6. InOnePlace'
  BY <1>3 DEF InOnePlace
<1>7. ScriptBudget'
  <2>1. script_runs' = script_runs /\ script_ran' = script_ran
    BY DEF Recover
  <2>2. script_runs[c] = 0
    BY <1>2 DEF IInv, ScriptBudget
  <2>3. \A d \in Chains : d > c => d > last_chain
    BY <1>2 DEF Chains
  <2> QED BY <1>1, <1>3, <2>1, <2>2, <2>3 DEF IInv, ScriptBudget
<1>8. PhaseInv'
  <2>1. born'[c] = session' /\ client_alive'
    BY <1>2 DEF Recover, Refused, world, IInv, TypeOK
  <2>2. RequestsHaveAClient'
    BY <1>3, <2>1 DEF RequestsHaveAClient, Alive
  <2> QED BY <2>2 DEF Recover, PhaseInv, IInv, world
<1>9. NothingToldYet'
  BY <1>2, <1>3 DEF Recover, answers, IInv, NothingToldYet, Chains
<1> QED BY <1>4, <1>5, <1>6, <1>7, <1>8, <1>9 DEF IInv

\* Asking Moonraker to restart the service sends the request, ends the chain,
\* or loses it.
LEMMA RestartServiceFacts ==
    ASSUME NEW c \in Chains, RestartService(c, {}),
           jobs' = {}, timers' = {}, pending_' = <<>>, frozen_buffer_' = <<>>
    PROVE  Moves(c) /\ (NowIdle \/ (KeepRunning /\ NowAsking(c)))
<1>1. CASE /\ client_alive /\ Connected
           /\ requests' = {[chain |-> c, method |-> "services.restart"]} /\ KeepRunning
  BY <1>1 DEF NowAsking, Moves
<1>2. CASE requests' = {} /\ Conclude(c, "error")
  BY <1>2 DEF NowIdle, Idle, Moves, Verdicts
<1>3. CASE requests' = {} /\ KeepRunning
  BY <1>3 DEF NowIdle, Idle, Moves
<1> QED BY <1>1, <1>2, <1>3 DEF RestartService

\* A refused firmware restart, whether Moonraker refused it or cleanup_all()
\* failed it.
LEMMA FallbackStep ==
    ASSUME IInv, NEW r \in requests, r.method = "firmware_restart",
           LocalThenServices(r.chain, requests \ {r}),
           UNCHANGED <<last_chain, born, script_ran, window_over, deadline_over, queue, timers,
                       world>>
    PROVE  IInv' /\ Moves(r.chain)
<1> DEFINE c == r.chain
<1>1. /\ c \in Chains /\ g_chain_running /\ c = last_chain
      /\ requests \ {r} = {} /\ jobs = {} /\ timers' = {}
      /\ pending_' = <<>> /\ frozen_buffer_' = <<>>
  BY AtRequest DEF queue
<1>2. script_runs[c] = 0
  BY DEF IInv, ScriptBudget
<1>3. window_over' \subseteq Chains /\ deadline_over' \subseteq Chains
  BY DEF IInv, TypeOK
<1>4. CASE has_script
  <2>1. RunScript(c, "fallback") /\ requests' = {} /\ KeepRunning
    BY <1>1, <1>4 DEF LocalThenServices
  <2>2. NowInScript(c)
    BY <1>1, <2>1 DEF NowInScript, RunScript, Reasons
  <2>3. Moves(c)
    BY <2>1 DEF Moves
  <2>4. script_runs' = [script_runs EXCEPT ![c] = @ + 1]
    BY <2>1 DEF RunScript
  <2> QED BY <1>1, <1>2, <1>3, <2>1, <2>2, <2>3, <2>4, OperationKeeps
<1>5. CASE ~has_script
  <2>1. RestartService(c, {}) /\ script_runs' = script_runs /\ jobs' = {}
    BY <1>1, <1>5 DEF LocalThenServices
  <2>2. Moves(c) /\ (NowIdle \/ (KeepRunning /\ NowAsking(c)))
    BY <1>1, <2>1, RestartServiceFacts
  <2> QED BY <1>1, <1>3, <2>1, <2>2, OperationKeeps
<1> QED BY <1>4, <1>5

\* An answer to any request.
LEMMA AnswerStep ==
    ASSUME IInv, NEW r \in requests, Answer(r)
    PROVE  IInv' /\ Moves(r.chain)
<1> DEFINE c == r.chain
<1>1. /\ c \in Chains /\ g_chain_running /\ c = last_chain /\ r \in Requests
      /\ requests \ {r} = {} /\ jobs = {} /\ timers = {}
      /\ pending_ = <<>> /\ frozen_buffer_ = <<>>
  BY AtRequest
<1>2. window_over \subseteq Chains /\ deadline_over \subseteq Chains
  BY DEF IInv, TypeOK
<1>3. CASE FirmwareRestartAccepted(r)
  <2> DEFINE e == [chain |-> c, task |-> "start"]
  <2>1. e \in Tasks
    BY <1>1 DEF Tasks
  <2>2. script_runs[c] = 0
    BY <1>3 DEF FirmwareRestartAccepted, IInv, ScriptBudget
  <2>3. /\ Post(e) /\ requests' = {} /\ jobs' = {} /\ timers' = {} /\ KeepRunning
        /\ UNCHANGED <<last_chain, born, world, window_over, deadline_over, script_ran, script_runs>>
    BY <1>1, <1>3 DEF FirmwareRestartAccepted, chain, answers, KeepRunning
  <2>4. NowPosted(c)
    BY <1>1, <2>1, <2>2, <2>3 DEF NowPosted, Spent
  <2>5. Moves(c)
    BY <2>3 DEF Moves
  <2> QED BY <1>1, <1>2, <2>3, <2>4, <2>5, OperationKeeps
<1>4. CASE FirmwareRestartFailed(r)
  BY <1>4, FallbackStep DEF FirmwareRestartFailed
<1>5. ASSUME NEW st \in KlippyStates, KlippyStatusAnswered(r, st)
      PROVE  IInv' /\ Moves(r.chain)
  <2> DEFINE e == [chain |-> c, task |-> "status", state |-> st]
  <2>1. e \in Tasks
    BY <1>1 DEF Tasks
  <2>2. Spent(c)
    BY <1>5 DEF KlippyStatusAnswered, IInv, ScriptBudget
  <2>3. /\ Post(e) /\ requests' = {} /\ jobs' = {} /\ timers' = {} /\ KeepRunning
        /\ UNCHANGED <<last_chain, born, world, window_over, deadline_over, script_ran, script_runs>>
    BY <1>1, <1>5 DEF KlippyStatusAnswered, chain, answers, KeepRunning
  <2>4. NowPosted(c)
    BY <1>1, <2>1, <2>2, <2>3 DEF NowPosted, Spent
  <2>5. Moves(c)
    BY <2>3 DEF Moves
  <2> QED BY <1>1, <1>2, <2>3, <2>4, <2>5, OperationKeeps
<1>6. CASE ServiceRestartAnswered(r)
  <2>1. /\ NowIdle
        /\ UNCHANGED <<last_chain, born, world, window_over, deadline_over, script_ran, script_runs>>
    BY <1>1, <1>6 DEF ServiceRestartAnswered, NowIdle, Idle, queue
  <2>2. Moves(c)
    BY <1>6 DEF ServiceRestartAnswered, Moves, Verdicts
  <2> QED BY <1>1, <1>2, <2>1, <2>2, OperationKeeps
<1> QED BY <1>3, <1>4, <1>5, <1>6 DEF Answer

\* The error callbacks of cleanup_all().
LEMMA CleanupStep ==
    ASSUME IInv, NEW r \in requests, CleanupRequest(r)
    PROVE  IInv' /\ Moves(r.chain)
<1> DEFINE c == r.chain
<1>1. /\ c \in Chains /\ g_chain_running /\ c = last_chain /\ r \in Requests
      /\ requests \ {r} = {} /\ jobs = {} /\ timers = {}
      /\ pending_ = <<>> /\ frozen_buffer_ = <<>>
  BY AtRequest
<1>2. window_over \subseteq Chains /\ deadline_over \subseteq Chains
  BY DEF IInv, TypeOK
<1>3. UNCHANGED <<last_chain, born, script_ran, window_over, deadline_over, timers, world>>
  BY DEF CleanupRequest
<1>4. CASE r.method = "firmware_restart"
  BY <1>3, <1>4, FallbackStep DEF CleanupRequest
<1>5. CASE r.method = "printer.info"
  <2> DEFINE e == [chain |-> c, task |-> "status", state |-> "unreachable"]
  <2>1. e \in Tasks
    BY <1>1 DEF Tasks, KlippyStates
  <2>2. Spent(c)
    BY <1>5 DEF IInv, ScriptBudget
  <2>3. /\ Post(e) /\ requests' = {} /\ jobs' = {} /\ timers' = {} /\ KeepRunning
        /\ script_runs' = script_runs
    BY <1>1, <1>5 DEF CleanupRequest
  <2>4. NowPosted(c)
    BY <1>1, <1>3, <2>1, <2>2, <2>3 DEF NowPosted, Spent
  <2>5. Moves(c)
    BY <2>3 DEF Moves
  <2> QED BY <1>1, <1>2, <1>3, <2>3, <2>4, <2>5, OperationKeeps
<1>6. CASE r.method = "services.restart"
  <2>1. NowIdle /\ script_runs' = script_runs
    BY <1>1, <1>6 DEF CleanupRequest, NowIdle, Idle, queue
  <2>2. Moves(c)
    BY <1>6 DEF CleanupRequest, Moves, Verdicts
  <2> QED BY <1>1, <1>2, <1>3, <2>1, <2>2, OperationKeeps
<1> QED BY <1>1, <1>4, <1>5, <1>6 DEF Requests, Methods

\* The script's result is posted.
LEMMA ScriptStep ==
    ASSUME IInv, NEW j \in jobs, NEW ok \in BOOLEAN, ScriptEnds(j, ok)
    PROVE  IInv' /\ Moves(j.chain)
<1> DEFINE c == j.chain
           e == [chain |-> c, task |-> "done", reason |-> j.reason, ok |-> ok]
<1>1. /\ c \in Chains /\ g_chain_running /\ c = last_chain /\ j.reason \in Reasons
      /\ requests = {} /\ jobs \ {j} = {} /\ timers = {}
      /\ pending_ = <<>> /\ frozen_buffer_ = <<>>
  BY AtJob DEF Jobs
<1>2. window_over \subseteq Chains /\ deadline_over \subseteq Chains
  BY DEF IInv, TypeOK
<1>3. e \in Tasks
  BY <1>1 DEF Tasks
<1>4. Spent(c) \/ j.reason = "fallback"
  BY <1>1 DEF IInv, ScriptBudget, Reasons
<1>5. /\ Post(e) /\ requests' = {} /\ jobs' = {} /\ timers' = {} /\ KeepRunning
      /\ UNCHANGED <<last_chain, born, world, window_over, deadline_over, script_ran, script_runs>>
  BY <1>1 DEF ScriptEnds, chain, answers, KeepRunning
<1>6. NowPosted(c)
  BY <1>1, <1>3, <1>4, <1>5 DEF NowPosted, Spent
<1>7. Moves(c)
  BY <1>5 DEF Moves
<1> QED BY <1>1, <1>2, <1>5, <1>6, <1>7, OperationKeeps

\* The poll timer fires.
LEMMA PollStep ==
    ASSUME IInv, NEW c \in Chains, Poll(c)
    PROVE  IInv' /\ Moves(c) /\ c = last_chain
<1>1. /\ g_chain_running /\ c = last_chain
      /\ requests = {} /\ jobs = {} /\ timers \ {c} = {}
      /\ pending_ = <<>> /\ frozen_buffer_ = <<>>
  BY AtTimer DEF Poll
<1>2. window_over \subseteq Chains /\ deadline_over \subseteq Chains
  BY DEF IInv, TypeOK
<1>3. /\ UNCHANGED <<last_chain, born, world, window_over, deadline_over, script_ran, script_runs>>
      /\ jobs' = {} /\ timers' = {} /\ pending_' = <<>> /\ frozen_buffer_' = <<>>
  BY <1>1 DEF Poll, queue
<1>4. CASE Alive(c)
  <2>1. Spent(c)'
    BY <1>3 DEF Poll, IInv, ScriptBudget, Spent
  <2>2. requests' = {[chain |-> c, method |-> "printer.info"]} /\ KeepRunning
    BY <1>1, <1>4 DEF Poll
  <2>3. Connected
    BY DEF Poll, Connected
  <2>4. NowAsking(c) /\ Moves(c)
    BY <1>3, <1>4, <2>1, <2>2, <2>3 DEF NowAsking, Moves, Alive
  <2> QED BY <1>1, <1>2, <1>3, <2>2, <2>4, OperationKeeps
<1>5. CASE ~Alive(c)
  <2>1. NowIdle /\ Moves(c)
    BY <1>1, <1>3, <1>5 DEF Poll, NowIdle, Idle, Moves
  <2> QED BY <1>1, <1>2, <1>3, <2>1, OperationKeeps
<1> QED BY <1>4, <1>5

\* A new verify round, after an accepted restart or a script that succeeded.
LEMMA RoundFacts ==
    ASSUME IInv, NEW c \in Chains, StartRound(c), KeepRunning, timers = {},
           requests' = {}, jobs' = {}, pending_' = <<>>, frozen_buffer_' = <<>>, Spent(c)'
    PROVE  NowTimed(c) /\ window_over' \subseteq Chains /\ Moves(c)
BY DEF StartRound, NowTimed, Moves, IInv, TypeOK

\* A drained callback, whichever it is.
LEMMA DrainStep ==
    ASSUME IInv, NEW e \in Tasks, Draining(e),
           VerifyStart(e) \/ VerifyStatus(e) \/ ScriptDone(e)
    PROVE  IInv' /\ Moves(e.chain) /\ e.chain = last_chain /\ last_chain' = last_chain
<1> DEFINE c == e.chain
<1>1. /\ c \in Chains /\ g_chain_running /\ c = last_chain
      /\ requests = {} /\ jobs = {} /\ timers = {}
      /\ pending_' = <<>> /\ frozen_buffer_' = <<>>
      /\ Spent(c) \/ (e.task = "done" /\ e.reason = "fallback")
  BY AtTask
<1>2. UNCHANGED <<last_chain, born, world>>
  BY DEF Draining
<1>3. window_over \subseteq Chains /\ deadline_over \subseteq Chains
  BY DEF IInv, TypeOK
<1>4. CASE VerifyStart(e)
  <2>1. /\ UNCHANGED <<script_ran, script_runs, deadline_over>>
        /\ requests' = {} /\ jobs' = {}
    BY <1>1, <1>4 DEF VerifyStart
  <2>2. CASE Alive(c)
    <3>1. StartRound(c) /\ KeepRunning
      BY <1>4, <2>2 DEF VerifyStart
    <3>2. Spent(c)'
      BY <1>1, <1>4, <2>1 DEF VerifyStart, Spent
    <3>3. NowTimed(c) /\ window_over' \subseteq Chains /\ Moves(c)
      BY <1>1, <2>1, <3>1, <3>2, RoundFacts
    <3> QED BY <1>1, <1>2, <1>3, <2>1, <3>1, <3>3, OperationKeeps
  <2>3. CASE ~Alive(c)
    <3>1. Abandon(c) /\ window_over' = window_over /\ timers' = {}
      BY <1>1, <1>4, <2>3 DEF VerifyStart
    <3>2. NowIdle /\ Moves(c)
      BY <1>1, <2>1, <3>1 DEF NowIdle, Idle, Moves
    <3> QED BY <1>1, <1>2, <1>3, <2>1, <3>1, <3>2, OperationKeeps
  <2> QED BY <2>2, <2>3, <1>1, <1>2
<1>5. CASE VerifyStatus(e)
  <2>1. UNCHANGED <<window_over, deadline_over>> /\ requests' = {} /\ Spent(c)
    BY <1>1, <1>5 DEF VerifyStatus
  <2>2. OnStatus(c, e.state)
    BY <1>5 DEF VerifyStatus
  <2>3. CASE /\ Abandon(c) \/ Conclude(c, "KLIPPY_READY") \/ Conclude(c, "RESTART_ISSUED")
             /\ UNCHANGED <<script_ran, script_runs, jobs, timers>>
    <3>1. NowIdle /\ Moves(c)
      BY <1>1, <2>1, <2>3 DEF NowIdle, Idle, Moves, Verdicts
    <3> QED BY <1>1, <1>2, <1>3, <2>1, <2>3, <3>1, OperationKeeps
  <2>4. CASE Escalate(c) /\ UNCHANGED timers
    <3>1. CASE has_script /\ c \notin script_ran
      <4>1. /\ script_ran' = script_ran \cup {c} /\ RunScript(c, "escalate") /\ KeepRunning
            /\ timers' = {}
        BY <1>1, <2>4, <3>1 DEF Escalate
      <4>2. script_runs[c] = 0 /\ script_runs' = [script_runs EXCEPT ![c] = @ + 1]
        BY <2>1, <3>1, <4>1 DEF RunScript, Spent
      <4>3. jobs' = {[chain |-> c, reason |-> "escalate"]}
        BY <1>1, <4>1 DEF RunScript
      <4>4. NowInScript(c)
        BY <1>1, <2>1, <4>1, <4>3 DEF NowInScript, Reasons, Spent
      <4>5. Moves(c)
        BY <4>1 DEF Moves
      <4> QED BY <1>1, <1>2, <1>3, <2>1, <4>1, <4>2, <4>4, <4>5, OperationKeeps
    <3>2. CASE ~has_script \/ c \in script_ran
      <4>1. /\ Conclude(c, "RESTART_ISSUED") /\ UNCHANGED <<script_ran, script_runs>>
            /\ jobs' = {} /\ timers' = {}
        BY <1>1, <2>4, <3>2 DEF Escalate
      <4>2. NowIdle /\ Moves(c)
        BY <1>1, <2>1, <4>1 DEF NowIdle, Idle, Moves, Verdicts
      <4> QED BY <1>1, <1>2, <1>3, <2>1, <4>1, <4>2, OperationKeeps
    <3> QED BY <3>1, <3>2
  <2>5. CASE timers' = timers \cup {c} /\ KeepRunning /\ UNCHANGED <<script_ran, script_runs, jobs>>
    <3>1. NowTimed(c) /\ Moves(c)
      BY <1>1, <2>1, <2>5 DEF NowTimed, Moves, Spent
    <3> QED BY <1>1, <1>2, <1>3, <2>1, <2>5, <3>1, OperationKeeps
  <2> QED BY <2>2, <2>3, <2>4, <2>5, <1>1, <1>2 DEF OnStatus
<1>6. CASE ScriptDone(e)
  <2>1. /\ UNCHANGED <<script_ran, script_runs, deadline_over>> /\ jobs' = {}
    BY <1>1, <1>6 DEF ScriptDone
  <2>2. CASE e.reason = "escalate" /\ e.ok
    <3>1. StartRound(c) /\ KeepRunning /\ requests' = {}
      BY <1>1, <1>6, <2>2 DEF ScriptDone
    <3>2. Spent(c)'
      BY <1>1, <2>1, <2>2 DEF Spent
    <3>3. NowTimed(c) /\ window_over' \subseteq Chains /\ Moves(c)
      BY <1>1, <2>1, <3>1, <3>2, RoundFacts
    <3> QED BY <1>1, <1>2, <1>3, <2>1, <3>1, <3>3, OperationKeeps
  <2>3. CASE (e.reason = "escalate" /\ ~e.ok) \/ (e.reason = "fallback" /\ e.ok)
    <3>1. /\ Conclude(c, "error") \/ Conclude(c, "RESTART_ISSUED")
          /\ window_over' = window_over /\ timers' = {} /\ requests' = {}
      BY <1>1, <1>6, <2>3 DEF ScriptDone
    <3>2. NowIdle /\ Moves(c)
      BY <1>1, <2>1, <3>1 DEF NowIdle, Idle, Moves, Verdicts
    <3> QED BY <1>1, <1>2, <1>3, <2>1, <3>1, <3>2, OperationKeeps
  <2>4. CASE e.reason = "fallback" /\ ~e.ok
    <3>1. RestartService(c, {}) /\ window_over' = window_over /\ timers' = {}
      BY <1>1, <1>6, <2>4 DEF ScriptDone
    <3>2. Moves(c) /\ (NowIdle \/ (KeepRunning /\ NowAsking(c)))
      BY <1>1, <2>1, <3>1, RestartServiceFacts
    <3> QED BY <1>1, <1>2, <1>3, <2>1, <3>1, <3>2, OperationKeeps
  <2> QED BY <1>6, <2>2, <2>3, <2>4, <1>1, <1>2 DEF ScriptDone
<1> QED BY <1>4, <1>5, <1>6

\* Everything that is not an operation of a chain: time, the bed, and the
\* steps of a printer switch that run no callback.
Surroundings ==
    \/ \E c \in Chains : WindowElapses(c) \/ DeadlineElapses(c)
    \/ SpoolLatch \/ BeginTeardown \/ Disconnect \/ ShutQueue \/ DestroyClient \/ Rebuild

\* They leave the chain where it is, or drop its buffered callback.
LEMMA SurroundingsStep ==
    ASSUME IInv, Surroundings
    PROVE  IInv' /\ KeepRunning /\ last_chain' = last_chain
<1>1. /\ UNCHANGED <<g_chain_running, last_chain, born, script_ran, script_runs, requests,
                     pending_, timers, jobs, verdicts, withdrawn>>
      /\ frozen_buffer_' = frozen_buffer_ \/ frozen_buffer_' = <<>>
  BY DEF Surroundings, WindowElapses, DeadlineElapses, SpoolLatch, BeginTeardown, Disconnect,
         ShutQueue, DestroyClient, Rebuild, chain, queue, answers
<1>2. /\ window_over' \subseteq Chains /\ deadline_over' \subseteq Chains
      /\ spool_latch' \in BOOLEAN /\ has_script' \in BOOLEAN /\ client_alive' \in BOOLEAN
      /\ phase' \in {"running", "frozen", "disconnected", "shut", "destroyed"}
  BY DEF Surroundings, WindowElapses, DeadlineElapses, SpoolLatch, BeginTeardown, Disconnect,
         ShutQueue, DestroyClient, Rebuild, chain, world, IInv, TypeOK
<1>3. session' \in Sessions /\ PhaseInv'
  <2>1. CASE Rebuild
    BY <1>1, <2>1, RecoveryBounds DEF Rebuild, IInv, PhaseInv, RequestsHaveAClient, TypeOK, Sessions
  <2>2. CASE BeginTeardown
    BY <1>1, <2>2 DEF BeginTeardown, IInv, PhaseInv, RequestsHaveAClient, Alive, TypeOK, world
  <2>3. CASE Disconnect \/ ShutQueue \/ DestroyClient
    BY <1>1, <2>3 DEF Disconnect, ShutQueue, DestroyClient, IInv, PhaseInv,
                      RequestsHaveAClient, Alive, TypeOK
  <2>4. CASE SpoolLatch \/ \E c \in Chains : WindowElapses(c) \/ DeadlineElapses(c)
    BY <1>1, <2>4 DEF SpoolLatch, WindowElapses, DeadlineElapses, IInv, PhaseInv,
                      RequestsHaveAClient, Alive, TypeOK, world
  <2> QED BY <2>1, <2>2, <2>3, <2>4 DEF Surroundings
<1>4. TypeOK'
  <2>1. <<>> \in Seq(Tasks)
    OBVIOUS
  <2> QED BY <1>1, <1>2, <1>3, <2>1 DEF IInv, TypeOK
<1>5. \/ frozen_buffer_' = frozen_buffer_
      \/ DOMAIN frozen_buffer_' = {} /\ frozen_buffer_' = <<>> /\ Len(frozen_buffer_') = 0
  <2>1. DOMAIN <<>> = {} /\ Len(<<>>) = 0
    OBVIOUS
  <2> QED BY <1>1, <2>1
<1>6. LiveIsLast'
  BY <1>1, <1>5 DEF IInv, LiveIsLast
<1>7. InOnePlace'
  BY <1>1, <1>5 DEF IInv, InOnePlace
<1>8. ScriptBudget' /\ NothingToldYet' /\ KeepRunning
  BY <1>1 DEF IInv, ScriptBudget, Spent, NothingToldYet, KeepRunning
<1> QED BY <1>1, <1>3, <1>4, <1>6, <1>7, <1>8 DEF IInv

\* Every step is an operation of the running chain, the start of the next
\* one, or none of their business.
LEMMA NextSteps ==
    ASSUME Next
    PROVE  \/ Recover
           \/ \E r \in requests : Answer(r) \/ CleanupRequest(r)
           \/ \E j \in jobs, ok \in BOOLEAN : ScriptEnds(j, ok)
           \/ \E e \in Tasks : Draining(e) /\ (VerifyStart(e) \/ VerifyStatus(e) \/ ScriptDone(e))
           \/ \E c \in Chains : Poll(c)
           \/ Surroundings
BY DEF Next, Drain, Teardown, Surroundings

\* A step of the running chain.
RunningChainMoves ==
    last_chain' = last_chain /\ last_chain \in Chains /\ g_chain_running /\ Moves(last_chain)

\* Each of them keeps the invariant, and moves the latch and the verdicts of
\* no chain but the running one.
LEMMA Step ==
    ASSUME IInv, Next
    PROVE  /\ IInv'
           /\ Recover \/ RunningChainMoves \/ (last_chain' = last_chain /\ KeepRunning)
<1>1. CASE Recover
  BY <1>1, RecoverStep
<1>2. ASSUME NEW r \in requests, Answer(r) \/ CleanupRequest(r)
      PROVE  IInv' /\ RunningChainMoves
  <2>1. last_chain' = last_chain
    BY <1>2 DEF Answer, CleanupRequest, FirmwareRestartAccepted, FirmwareRestartFailed,
                KlippyStatusAnswered, ServiceRestartAnswered, chain
  <2>2. IInv' /\ Moves(r.chain)
    BY <1>2, AnswerStep, CleanupStep
  <2> QED BY <2>1, <2>2, AtRequest DEF RunningChainMoves
<1>3. ASSUME NEW j \in jobs, NEW ok \in BOOLEAN, ScriptEnds(j, ok)
      PROVE  IInv' /\ RunningChainMoves
  <2>1. last_chain' = last_chain
    BY <1>3 DEF ScriptEnds, chain
  <2> QED BY <1>3, <2>1, AtJob, ScriptStep DEF RunningChainMoves
<1>4. ASSUME NEW e \in Tasks, Draining(e), VerifyStart(e) \/ VerifyStatus(e) \/ ScriptDone(e)
      PROVE  IInv' /\ RunningChainMoves
  BY <1>4, AtTask, DrainStep DEF RunningChainMoves
<1>5. ASSUME NEW c \in Chains, Poll(c)
      PROVE  IInv' /\ RunningChainMoves
  <2>1. last_chain' = last_chain /\ c \in timers
    BY <1>5 DEF Poll
  <2> QED BY <1>5, <2>1, AtTimer, PollStep DEF RunningChainMoves
<1>6. CASE Surroundings
  BY <1>6, SurroundingsStep
<1> QED BY <1>1, <1>2, <1>3, <1>4, <1>5, <1>6, NextSteps

\* The invariant holds at the start.
LEMMA InitKeeps == Init => IInv
<1> SUFFICES ASSUME Init PROVE IInv
  OBVIOUS
<1>1. DOMAIN <<>> = {} /\ Len(<<>>) = 0 /\ <<>> \in Seq(Tasks) /\ <<>> \in Seq(Verdicts)
  OBVIOUS
<1>2. 0 \in 0..MaxChains /\ 0 \in 0..MaxSessions /\ 1 \in Sessions /\ \A c \in Chains : c > 0
  BY RecoveryBounds DEF Chains, Sessions
<1>3. TypeOK
  BY <1>1, <1>2 DEF Init, TypeOK
<1>4. LiveIsLast /\ InOnePlace
  BY <1>1 DEF Init, LiveIsLast, InOnePlace
<1>5. ScriptBudget /\ PhaseInv /\ NothingToldYet
  BY <1>1, <1>2 DEF Init, ScriptBudget, PhaseInv, RequestsHaveAClient, NothingToldYet
<1> QED BY <1>3, <1>4, <1>5 DEF IInv

-----------------------------------------------------------------------------
(* The theorems.                                                           *)

\* The invariant holds at every moment.
THEOREM Invariance == Spec => []IInv
<1>1. IInv /\ UNCHANGED vars => IInv'
  BY DEF IInv, TypeOK, LiveIsLast, InOnePlace, ScriptBudget, Spent, PhaseInv,
         RequestsHaveAClient, Alive, NothingToldYet, vars, chain, queue, answers, world
<1>2. IInv /\ [Next]_vars => IInv'
  BY <1>1, Step
<1> QED BY InitKeeps, <1>2, PTL DEF Spec

\* What waits to run is one thing, and it is the latched chain's.
LEMMA PlacesFollow == LiveIsLast /\ InOnePlace /\ TypeOK => OneContinuation
<1> SUFFICES ASSUME LiveIsLast, InOnePlace, TypeOK, NEW c \in Chains
             PROVE  /\ \A x, y \in Continuations(c) : x = y
                    /\ Continuations(c) # {} => g_chain_running /\ c = last_chain
  BY DEF OneContinuation
<1>1. \A n, m \in DOMAIN pending_ : n = m /\ pending_ # <<>>
  BY DEF InOnePlace, TypeOK
<1>2. \A n, m \in DOMAIN frozen_buffer_ : n = m /\ frozen_buffer_ # <<>>
  BY DEF InOnePlace, TypeOK
<1>3. \A x, y \in Continuations(c) : x = y
  BY <1>1, <1>2 DEF Continuations, InOnePlace
<1>4. Continuations(c) # {} => g_chain_running /\ c = last_chain
  BY DEF Continuations, LiveIsLast
<1> QED BY <1>3, <1>4

\* A recovery chain is in one place, runs its script once, and waits for
\* answers only from the client it began with, through every printer switch.
THEOREM ChainsAreSafe == Spec => []ChainIsSafe
<1>1. IInv => ChainIsSafe
  BY PlacesFollow DEF IInv, ScriptBudget, PhaseInv, ChainIsSafe, ScriptRunsOnce
<1> QED BY <1>1, Invariance, PTL

\* A step that starts the script is an accepted fallback, or an escalation
\* before the chain's deadline.
LEMMA ScriptStarts ==
    ASSUME Next, NEW j \in jobs' \ jobs, j.reason = "escalate"
    PROVE  j.chain \notin deadline_over
<1>1. CASE \E r \in requests : Answer(r) \/ CleanupRequest(r)
  <2>1. PICK r \in requests : Answer(r) \/ CleanupRequest(r)
    BY <1>1
  <2>2. jobs' = jobs \/ jobs' = jobs \cup {[chain |-> r.chain, reason |-> "fallback"]}
    BY <2>1 DEF Answer, CleanupRequest, FirmwareRestartAccepted, FirmwareRestartFailed,
                KlippyStatusAnswered, ServiceRestartAnswered, LocalThenServices, RunScript
  <2> QED BY <2>2
<1>2. CASE \E e \in Tasks : Draining(e) /\ (VerifyStart(e) \/ VerifyStatus(e) \/ ScriptDone(e))
  <2>1. PICK e \in Tasks : VerifyStart(e) \/ VerifyStatus(e) \/ ScriptDone(e)
    BY <1>2
  <2>2. CASE VerifyStatus(e)
    <3>1. \/ jobs' = jobs
          \/ e.chain \notin deadline_over /\ Escalate(e.chain)
      BY <2>2 DEF VerifyStatus, OnStatus
    <3>2. Escalate(e.chain) => \/ jobs' = jobs
                               \/ jobs' = jobs \cup {[chain |-> e.chain, reason |-> "escalate"]}
      BY DEF Escalate, RunScript
    <3> QED BY <3>1, <3>2
  <2> QED BY <2>1, <2>2 DEF VerifyStart, ScriptDone
<1>3. CASE Recover \/ \E c \in Chains : Poll(c)
  BY <1>3 DEF Recover, Poll
<1>4. CASE \E k \in jobs, ok \in BOOLEAN : ScriptEnds(k, ok)
  BY <1>4 DEF ScriptEnds
<1>5. CASE Surroundings
  BY <1>5 DEF Surroundings, WindowElapses, DeadlineElapses, SpoolLatch, BeginTeardown, Disconnect,
              ShutQueue, DestroyClient, Rebuild
<1> QED BY <1>1, <1>2, <1>3, <1>4, <1>5, NextSteps

\* Past its deadline no late or queued answer makes a chain start its script.
THEOREM NoLateScript == Spec => NoScriptPastDeadline
<1>1. ASSUME [Next]_vars
      PROVE  [\A j \in jobs' \ jobs : j.reason = "escalate" => j.chain \notin deadline_over]_vars
  BY <1>1, ScriptStarts
<1> QED BY <1>1, PTL DEF Spec, NoScriptPastDeadline

-----------------------------------------------------------------------------
(* The service implements the exclusive one-shot promise.                  *)

\* The chains under way, and those that are over, as the promise sees them.
OpenChains == {c \in Chains : g_chain_running /\ c = last_chain}
ClosedChains == {c \in Chains : c < last_chain \/ (~g_chain_running /\ c = last_chain)}

\* recover() begins the next chain, and no other is open.
LEMMA RecoverBegins == IInv /\ Recover => \E c \in Chains : Promise!Begin(c)
<1> SUFFICES ASSUME IInv, Recover PROVE \E c \in Chains : Promise!Begin(c)
  OBVIOUS
<1>1. PICK c \in Chains : c = last_chain + 1 /\ last_chain \in Nat
  BY RecoveryBounds DEF Recover, IInv, TypeOK, Chains
<1>2. g_chain_running' /\ last_chain' = c /\ ~g_chain_running /\ verdicts' = verdicts
  BY <1>1 DEF Recover, Refused, answers
<1>3. OpenChains = {} /\ OpenChains' = {c} /\ c \notin ClosedChains /\ ClosedChains' = ClosedChains
  BY <1>1, <1>2 DEF OpenChains, ClosedChains, Chains
<1>4. Promise!Begin(c)
  BY <1>2, <1>3 DEF Promise!Begin, OpenChains, ClosedChains
<1> QED BY <1>4

\* A verdict settles the running chain; its caller had heard nothing.
LEMMA ConcludeSettles ==
    ASSUME IInv, g_chain_running, last_chain \in Chains, last_chain' = last_chain,
           NEW v \in Verdicts, Conclude(last_chain, v)
    PROVE  Promise!Settle(last_chain, v)
<1>1. ~g_chain_running' /\ verdicts[last_chain] = <<>>
  BY DEF Conclude, IInv, NothingToldYet
<1>2. /\ last_chain \in OpenChains /\ OpenChains' = OpenChains \ {last_chain}
      /\ ClosedChains' = ClosedChains \cup {last_chain}
  BY <1>1 DEF OpenChains, ClosedChains
<1>3. verdicts' = [verdicts EXCEPT ![last_chain] = <<v>>]
  BY <1>1 DEF Conclude
<1> QED BY <1>2, <1>3 DEF Promise!Settle, OpenChains, ClosedChains

\* An abandoned chain is withdrawn.
LEMMA AbandonWithdraws ==
    ASSUME IInv, g_chain_running, NEW c \in Chains, c = last_chain, last_chain' = last_chain,
           Abandon(c)
    PROVE  \E S \in SUBSET OpenChains : Promise!Withdraw(S)
<1>1. ~g_chain_running' /\ verdicts' = verdicts
  BY DEF Abandon
<1>2. /\ {c} \in SUBSET OpenChains /\ OpenChains' = OpenChains \ {c}
      /\ ClosedChains' = ClosedChains \cup {c}
  BY <1>1 DEF OpenChains, ClosedChains
<1>3. Promise!Withdraw({c})
  BY <1>1, <1>2 DEF Promise!Withdraw, OpenChains, ClosedChains
<1> QED BY <1>2, <1>3

\* Every run of the service is a run of the promise: each accepted chain is
\* alone, and tells its caller one verdict, or nothing because it was abandoned.
THEOREM OneVerdictPerChain == Spec => ImplementsOneShot
<1>1. Init => Promise!Init
  <2> SUFFICES ASSUME Init PROVE Promise!Init
    OBVIOUS
  <2>1. OpenChains = {} /\ ClosedChains = {}
    BY DEF Init, OpenChains, ClosedChains, Chains
  <2>2. verdicts = [c \in Chains |-> <<>>]
    BY DEF Init
  <2> QED BY <2>1, <2>2 DEF Promise!Init, OpenChains, ClosedChains
<1>2. IInv /\ [Next]_vars => [Promise!Next]_(Promise!vars)
  <2> SUFFICES ASSUME IInv, [Next]_vars PROVE [Promise!Next]_(Promise!vars)
    OBVIOUS
  <2>1. CASE last_chain' = last_chain /\ (KeepRunning \/ UNCHANGED vars)
    <3>1. UNCHANGED <<g_chain_running, last_chain, verdicts>>
      BY <2>1 DEF KeepRunning, vars, chain, answers
    <3> QED BY <3>1 DEF Promise!vars
  <2>2. CASE Recover
    BY <2>2, RecoverBegins DEF Promise!Next
  <2>3. CASE RunningChainMoves
    <3>1. CASE Abandon(last_chain)
      BY <2>3, <3>1, AbandonWithdraws DEF RunningChainMoves, Promise!Next, OpenChains
    <3>2. CASE \E v \in Verdicts : Conclude(last_chain, v)
      BY <2>3, <3>2, ConcludeSettles DEF RunningChainMoves, Promise!Next
    <3> QED BY <2>1, <2>3, <3>1, <3>2 DEF RunningChainMoves, Moves
  <2> QED BY <2>1, <2>2, <2>3, Step DEF vars, chain
<1> QED BY <1>1, <1>2, Invariance, PTL DEF Spec, ImplementsOneShot, Promise!Spec

=============================================================================
