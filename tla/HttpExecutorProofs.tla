-------------------------- MODULE HttpExecutorProofs --------------------------
(***************************************************************************)
(* For every number of workers, submitters, items and start cycles: no     *)
(* promise is stranded in the queue of a cycle that stop() has swept,      *)
(* stop() leaves behind no worker that is neither done nor detached, the   *)
(* in-flight counter, the order of the items and the place of each one are *)
(* kept, and the executor implements the one-shot promise of OneShot.  The *)
(* first two rest on IInv of HttpExecutor, which each lemma below carries  *)
(* over one step of Next, the others on SlotInv and FutureInv besides.     *)
(***************************************************************************)
EXTENDS HttpExecutor, FiniteSetTheorems, TLAPS

\* Next, one name per kind of step.
MainStep == Start \/ BeginStop \/ StopStep

AnySubmitStep ==
    \E s \in Submitters :
        \/ SubmitLoad(s) \/ SubmitReject(s) \/ NotifyOne(s) \/ RunSyncReturns(s)
        \/ \E sync \in BOOLEAN : SubmitEnqueue(s, sync)

AnyWorkerStep ==
    \E w \in Workers :
        \/ Sleep(w) \/ WakeSpuriously(w) \/ Exit(w) \/ Take(w) \/ Release(w)
        \/ \E o \in {"done", "failed"} : Settle(w, o)

(* Every step of the executor is one of the main thread, of a submitter or *)
(* of a worker.                                                            *)
LEMMA NextSteps == Next => MainStep \/ AnySubmitStep \/ AnyWorkerStep
  BY DEF Next, MainStep, StopStep, AnySubmitStep, AnyWorkerStep

(* A worker is a pair of its cycle and its index.                          *)
LEMMA WorkerPair ==
    ASSUME NEW w \in Workers
    PROVE  w[1] \in Cycles /\ w[2] \in 1..WorkerCount /\ w = <<w[1], w[2]>>
  BY DEF Workers

(* A handle that is not null is a cycle.                                   *)
LEMMA HandleIsCycle ==
    ASSUME NEW c \in 0..MaxCycles, c # 0
    PROVE  c \in Cycles
  BY BoundsAssumption DEF Cycles

(* The queue of a cycle after a Take is shorter, and has items only.       *)
LEMMA TakeKeepsItems ==
    ASSUME NEW q \in Seq(Items), q # <<>>
    PROVE  Tail(q) \in Seq(Items) /\ Head(q) \in Items
  OBVIOUS

(* Every step of the main thread keeps the variables in their types.       *)
LEMMA MainStepType == IInv /\ MainStep => ControlTypeOK'
<1> SUFFICES ASSUME IInv, MainStep PROVE ControlTypeOK'
  OBVIOUS
<1> USE BoundsAssumption, WorkerCountAssumption
<1> USE DEF IInv, ControlTypeOK, cyclevars, workervars, mainvars, submitvars
<1>1. CASE Start
  BY <1>1 DEF Start
<1>2. CASE BeginStop
  <2>1. state_ # 0
    BY <1>2, Zenon DEF BeginStop, HandleInv
  <2>2. state_ \in Cycles
    BY <2>1, HandleIsCycle
  <2> QED
    BY <1>2, <2>2 DEF BeginStop
<1>3. CASE NotifyAll
  BY <1>3 DEF NotifyAll
<1>4. CASE Join
  BY <1>4 DEF Join
<1>5. CASE Detach
  <2>1. state_ \in Cycles /\ joining \in 1..WorkerCount
    BY <1>5, HandleIsCycle DEF Detach, HandleInv
  <2>2. detached' \subseteq Workers
    BY <1>5, <2>1 DEF Detach, Workers
  <2>3. joining' \in 1..(WorkerCount + 1)
    BY <1>5, <2>1 DEF Detach
  <2> QED
    BY <1>5, <2>2, <2>3 DEF Detach
<1>6. CASE EndJoin
  BY <1>6 DEF EndJoin
<1>7. CASE DropLeftover
  <2>1. outcome' \in [Items -> {"none", "queued", "running"} \cup Settled]
    BY <1>7 DEF DropLeftover, Settled
  <2>2. queue' \in [Cycles -> Seq(Items)]
    <3>1. <<>> \in Seq(Items)
      OBVIOUS
    <3>2. queue' = [queue EXCEPT ![state_] = <<>>]
      BY <1>7 DEF DropLeftover
    <3> QED
      BY <3>1, <3>2
  <2> QED
    BY <1>7, <2>1, <2>2 DEF DropLeftover
<1>8. CASE EndStop
  BY <1>8 DEF EndStop
<1> QED
  BY <1>1, <1>2, <1>3, <1>4, <1>5, <1>6, <1>7, <1>8 DEF MainStep, StopStep

(* Every step of a submitting thread keeps the variables in their types.   *)
LEMMA SubmitStepType == IInv /\ AnySubmitStep => ControlTypeOK'
<1> SUFFICES ASSUME IInv, NEW s \in Submitters,
                    \/ SubmitLoad(s) \/ SubmitReject(s) \/ NotifyOne(s) \/ RunSyncReturns(s)
                    \/ \E sync \in BOOLEAN : SubmitEnqueue(s, sync)
             PROVE  ControlTypeOK'
  BY DEF AnySubmitStep
<1> USE BoundsAssumption, WorkerCountAssumption
<1> USE DEF IInv, ControlTypeOK, cyclevars, workervars, mainvars, submitvars
<1>1. CASE SubmitLoad(s)
  BY <1>1 DEF SubmitLoad
<1>2. CASE SubmitReject(s)
  BY <1>2 DEF SubmitReject
<1>3. CASE NotifyOne(s)
  <2>1. UNCHANGED pc \/ \E w \in Workers : pc' = [pc EXCEPT ![w] = "ready"]
    BY <1>3 DEF NotifyOne
  <2>2. pc' \in [Workers -> {"none", "ready", "asleep", "busy", "settled", "exited"}]
    BY <2>1
  <2> QED
    BY <1>3, <2>2 DEF NotifyOne
<1>4. CASE RunSyncReturns(s)
  BY <1>4 DEF RunSyncReturns
<1>5. ASSUME NEW sync \in BOOLEAN, SubmitEnqueue(s, sync) PROVE ControlTypeOK'
  <2>1. last_id + 1 \in Items
    BY <1>5 DEF SubmitEnqueue, Items
  <2>2. held[s] \in Cycles
    BY <1>5, HandleIsCycle DEF SubmitEnqueue
  <2>3. queue' \in [Cycles -> Seq(Items)]
    BY <1>5, <2>1, <2>2 DEF SubmitEnqueue
  <2>4. outcome' \in [Items -> {"none", "queued", "running"} \cup Settled]
    BY <1>5, <2>1 DEF SubmitEnqueue
  <2>5. waiting' \in [Submitters -> 0..MaxItems] /\ last_id' \in 0..MaxItems
    BY <1>5, <2>1 DEF SubmitEnqueue, Items
  <2>6. held' \in [Submitters -> 0..MaxCycles] /\ notifying' \in [Submitters -> 0..MaxCycles]
    BY <1>5, <2>2 DEF SubmitEnqueue, Cycles
  <2>7. ControlTypeOK
    BY DEF IInv
  <2> HIDE DEF IInv
  <2> QED
    BY <1>5, <2>3, <2>4, <2>5, <2>6, <2>7 DEF SubmitEnqueue
<1> QED
  BY <1>1, <1>2, <1>3, <1>4, <1>5

(* Every step of a worker keeps the variables in their types.              *)
LEMMA WorkerStepType == IInv /\ AnyWorkerStep => ControlTypeOK'
<1> SUFFICES ASSUME IInv, NEW w \in Workers,
                    \/ Sleep(w) \/ WakeSpuriously(w) \/ Exit(w) \/ Take(w) \/ Release(w)
                    \/ \E o \in {"done", "failed"} : Settle(w, o)
             PROVE  ControlTypeOK'
  BY DEF AnyWorkerStep
<1> USE BoundsAssumption, WorkerCountAssumption
<1> USE DEF IInv, ControlTypeOK, cyclevars, workervars, mainvars, submitvars
<1>1. CASE Sleep(w)
  BY <1>1 DEF Sleep
<1>2. CASE WakeSpuriously(w)
  BY <1>2 DEF WakeSpuriously
<1>3. CASE Exit(w)
  BY <1>3 DEF Exit
<1>4. CASE Take(w)
  <2>1. w[1] \in Cycles
    BY WorkerPair
  <2>2. Tail(queue[w[1]]) \in Seq(Items) /\ Head(queue[w[1]]) \in Items
    BY <1>4, <2>1, TakeKeepsItems DEF Take
  <2>3. queue' \in [Cycles -> Seq(Items)]
    BY <1>4, <2>1, <2>2 DEF Take
  <2>4. item' \in [Workers -> 0..MaxItems]
    <3>1. Head(queue[w[1]]) \in 0..MaxItems
      BY <2>2 DEF Items
    <3>2. item' = [item EXCEPT ![w] = Head(queue[w[1]])] /\ item \in [Workers -> 0..MaxItems]
      BY <1>4 DEF Take
    <3> HIDE DEF IInv
    <3> QED
      BY <3>1, <3>2
  <2>5. outcome' \in [Items -> {"none", "queued", "running"} \cup Settled]
    BY <1>4, <2>2 DEF Take
  <2> QED
    BY <1>4, <2>3, <2>4, <2>5 DEF Take
<1>5. CASE Release(w)
  BY <1>5 DEF Release
<1>6. ASSUME NEW o \in {"done", "failed"}, Settle(w, o) PROVE ControlTypeOK'
  BY <1>6 DEF Settle, Settled
<1> QED
  BY <1>1, <1>2, <1>3, <1>4, <1>5, <1>6

-----------------------------------------------------------------------------
(* What workers and submitters leave alone.                                *)

(* A worker never touches the handle, a stop mark or a submitter; it can   *)
(* only empty a queue, and it never leaves "exited".                       *)
LEMMA WorkerFrame ==
    IInv /\ AnyWorkerStep =>
        /\ UNCHANGED <<mainvars, stopping, detached, held>>
        /\ \A c \in Cycles : queue'[c] # <<>> => queue[c] # <<>>
        /\ \A v \in Workers : pc[v] = "exited" => pc'[v] = "exited"
<1> SUFFICES ASSUME IInv, NEW w \in Workers,
                    \/ Sleep(w) \/ WakeSpuriously(w) \/ Exit(w) \/ Take(w) \/ Release(w)
                    \/ \E o \in {"done", "failed"} : Settle(w, o)
             PROVE  /\ UNCHANGED <<mainvars, stopping, detached, held>>
                    /\ \A c \in Cycles : queue'[c] # <<>> => queue[c] # <<>>
                    /\ \A v \in Workers : pc[v] = "exited" => pc'[v] = "exited"
  BY DEF AnyWorkerStep
<1>1. UNCHANGED <<mainvars, stopping, detached, held>>
  BY DEF Sleep, WakeSpuriously, Exit, Take, Release, Settle, cyclevars, submitvars
<1>2. \A c \in Cycles : queue'[c] # <<>> => queue[c] # <<>>
  <2>1. CASE Take(w)
    <3>1. w[1] \in Cycles /\ queue[w[1]] # <<>>
      BY <2>1, WorkerPair DEF Take
    <3> QED
      BY <2>1, <3>1 DEF Take, IInv, ControlTypeOK
  <2>2. CASE ~Take(w)
    BY <2>2 DEF Sleep, WakeSpuriously, Exit, Release, Settle, cyclevars
  <2> QED
    BY <2>1, <2>2
<1>3. \A v \in Workers : pc[v] = "exited" => pc'[v] = "exited"
  BY DEF Sleep, WakeSpuriously, Exit, Take, Release, Settle, IInv, ControlTypeOK
<1> QED
  BY <1>1, <1>2, <1>3

(* A submitter touches neither the handle nor a stop mark; the cycle it    *)
(* queues into does not reject work, and waking a worker leaves the        *)
(* exited ones alone.                                                      *)
LEMMA SubmitFrame ==
    IInv /\ AnySubmitStep =>
        /\ UNCHANGED <<mainvars, stopping, detached>>
        /\ \A s \in Submitters : held'[s] \in {held[s], 0, state_}
        /\ \A c \in Cycles : queue'[c] # <<>> =>
               queue[c] # <<>> \/ (c \notin stopping /\ c <= cycle)
        /\ \A v \in Workers : pc[v] = "exited" => pc'[v] = "exited"
<1> SUFFICES ASSUME IInv, NEW s \in Submitters,
                    \/ SubmitLoad(s) \/ SubmitReject(s) \/ NotifyOne(s) \/ RunSyncReturns(s)
                    \/ \E sync \in BOOLEAN : SubmitEnqueue(s, sync)
             PROVE  /\ UNCHANGED <<mainvars, stopping, detached>>
                    /\ \A t \in Submitters : held'[t] \in {held[t], 0, state_}
                    /\ \A c \in Cycles : queue'[c] # <<>> =>
                           queue[c] # <<>> \/ (c \notin stopping /\ c <= cycle)
                    /\ \A v \in Workers : pc[v] = "exited" => pc'[v] = "exited"
  BY DEF AnySubmitStep
<1>1. UNCHANGED <<mainvars, stopping, detached>>
  BY DEF SubmitLoad, SubmitReject, NotifyOne, RunSyncReturns, SubmitEnqueue,
         cyclevars, workervars
<1>2. \A t \in Submitters : held'[t] \in {held[t], 0, state_}
  BY DEF SubmitLoad, SubmitReject, NotifyOne, RunSyncReturns, SubmitEnqueue,
         IInv, ControlTypeOK
<1>3. \A c \in Cycles : queue'[c] # <<>> =>
          queue[c] # <<>> \/ (c \notin stopping /\ c <= cycle)
  <2>1. ASSUME NEW sync \in BOOLEAN, SubmitEnqueue(s, sync), NEW c \in Cycles
        PROVE  queue'[c] = queue[c] \/ (c \notin stopping /\ c <= cycle)
    BY <2>1 DEF SubmitEnqueue, IInv, HandleInv, ControlTypeOK
  <2>2. CASE ~\E sync \in BOOLEAN : SubmitEnqueue(s, sync)
    BY <2>2 DEF SubmitLoad, SubmitReject, NotifyOne, RunSyncReturns, cyclevars
  <2> QED
    BY <2>1, <2>2
<1>4. \A v \in Workers : pc[v] = "exited" => pc'[v] = "exited"
  BY DEF SubmitLoad, SubmitReject, NotifyOne, RunSyncReturns, SubmitEnqueue, workervars,
         IInv, ControlTypeOK
<1> QED
  BY <1>1, <1>2, <1>3, <1>4

-----------------------------------------------------------------------------
(* The handle and the stop marks.                                          *)

(* Only start() and the stages of stop() change which cycle runs and which *)
(* cycles reject work, and they change them together.                      *)
LEMMA HandleStep == IInv /\ Next => HandleInv'
<1> SUFFICES ASSUME IInv, Next PROVE HandleInv'
  OBVIOUS
<1> USE BoundsAssumption
<1>1. CASE AnyWorkerStep
  <2>1. UNCHANGED <<mainvars, stopping, held>>
    BY <1>1, WorkerFrame
  <2> QED
    BY <2>1 DEF mainvars, IInv, HandleInv
<1>2. CASE AnySubmitStep
  <2>1. UNCHANGED <<mainvars, stopping>> /\ \A s \in Submitters : held'[s] \in {held[s], 0, state_}
    BY <1>2, SubmitFrame
  <2>2. ASSUME NEW s \in Submitters PROVE held'[s] <= cycle'
    <3>1. held[s] <= cycle /\ state_ <= cycle /\ 0 <= cycle
      BY DEF IInv, ControlTypeOK, HandleInv
    <3>2. cycle' = cycle /\ held'[s] \in {held[s], 0, state_}
      BY <2>1 DEF mainvars
    <3> QED
      BY <3>1, <3>2
  <2> QED
    BY <2>1, <2>2 DEF mainvars, IInv, HandleInv
<1>3. CASE Start
  <2>1. state_ = 0
    BY <1>3, Zenon DEF Start, IInv, HandleInv
  <2>2. /\ cycle' = cycle + 1 /\ state_' = cycle + 1
        /\ stopping' = stopping /\ held' = held /\ stage = "none" /\ stage' = "none"
    BY <1>3 DEF Start, cyclevars, submitvars
  <2>3. state_' <= cycle' /\ state_' # 0
    BY <2>2 DEF IInv, ControlTypeOK
  <2>4. running_' <=> state_' # 0 /\ stage' = "none"
    BY <1>3, <2>2, <2>3, Zenon DEF Start
  <2>5. \A c \in Cycles : c \in stopping' <=> c <= cycle' /\ (c = state_' => stage' # "none")
    BY <2>1, <2>2 DEF IInv, ControlTypeOK, HandleInv, Cycles
  <2>6. ASSUME NEW s \in Submitters PROVE held'[s] <= cycle'
    <3>1. held[s] \in Nat /\ held[s] <= cycle /\ cycle \in Nat
      BY DEF IInv, ControlTypeOK, HandleInv
    <3> QED
      BY <2>2, <3>1
  <2> QED
    BY <2>2, <2>3, <2>4, <2>5, <2>6 DEF HandleInv
<1>4. CASE BeginStop
  <2>1. state_ # 0
    BY <1>4, Zenon DEF BeginStop, IInv, HandleInv
  <2>2. /\ cycle' = cycle /\ state_' = state_ /\ held' = held
        /\ stopping' = stopping \cup {state_} /\ stage = "none" /\ stage' = "notify"
    BY <1>4 DEF BeginStop, submitvars
  <2>3. ~running_'
    BY <1>4 DEF BeginStop
  <2>4. \A c \in Cycles : c \in stopping' <=> c <= cycle' /\ (c = state_' => stage' # "none")
    BY <2>1, <2>2 DEF IInv, ControlTypeOK, HandleInv, Cycles
  <2> QED
    BY <2>1, <2>2, <2>3, <2>4 DEF IInv, HandleInv
<1>5. CASE NotifyAll \/ Join \/ Detach \/ EndJoin \/ DropLeftover
  <2>1. UNCHANGED <<state_, cycle, running_, stopping, held>>
    BY <1>5 DEF NotifyAll, Join, Detach, EndJoin, DropLeftover, cyclevars, submitvars
  <2>2. stage # "none" /\ stage' # "none"
    BY <1>5 DEF NotifyAll, Join, Detach, EndJoin, DropLeftover
  <2> QED
    BY <2>1, <2>2 DEF IInv, HandleInv
<1>6. CASE EndStop
  <2>1. state_ # 0 /\ ~running_
    BY <1>6 DEF EndStop, IInv, HandleInv
  <2>2. UNCHANGED <<cycle, running_, stopping, held>> /\ state_' = 0 /\ stage = "drop"
    BY <1>6 DEF EndStop, cyclevars, submitvars
  <2>3. \A c \in Cycles : c \in stopping' <=> c <= cycle' /\ (c = state_' => stage' # "none")
    BY <2>1, <2>2 DEF IInv, ControlTypeOK, HandleInv, Cycles
  <2> QED
    BY <1>6, <2>1, <2>2, <2>3 DEF EndStop, IInv, ControlTypeOK, HandleInv
<1> QED
  BY <1>1, <1>2, <1>3, <1>4, <1>5, <1>6, NextSteps DEF MainStep, StopStep

-----------------------------------------------------------------------------
(* The queues.                                                             *)

(* A queue that holds a promise belongs to the cycle the executor holds:   *)
(* a submitter can only queue into a cycle that takes work, and that is    *)
(* the held one; stop() lets go of the handle only after its sweep.        *)
LEMMA NoStrandedStep == IInv /\ Next => NoStrandedPromise'
<1> SUFFICES ASSUME IInv, Next, NEW c \in Cycles, queue'[c] # <<>>
             PROVE  state_' = c /\ stage' # "drop"
  BY DEF NoStrandedPromise
<1>0. queue[c] # <<>> => state_ = c /\ stage # "drop"
  BY DEF IInv, NoStrandedPromise
<1>1. CASE AnyWorkerStep
  <2>1. UNCHANGED mainvars /\ queue[c] # <<>>
    BY <1>1, WorkerFrame
  <2> QED
    BY <1>0, <2>1 DEF mainvars
<1>2. CASE AnySubmitStep
  <2>1. UNCHANGED mainvars /\ (queue[c] # <<>> \/ (c \notin stopping /\ c <= cycle))
    BY <1>2, SubmitFrame
  <2>2. c \notin stopping /\ c <= cycle => c = state_ /\ stage = "none"
    BY DEF IInv, HandleInv
  <2> QED
    BY <1>0, <2>1, <2>2 DEF mainvars
<1>3. CASE Start
  <2>1. state_ = 0
    BY <1>3, Zenon DEF Start, IInv, HandleInv
  <2>2. queue' = queue
    BY <1>3 DEF Start, cyclevars
  <2> QED
    BY <1>0, <2>1, <2>2, BoundsAssumption DEF Cycles
<1>4. CASE BeginStop \/ NotifyAll \/ Join \/ Detach \/ EndJoin
  BY <1>0, <1>4 DEF BeginStop, NotifyAll, Join, Detach, EndJoin, cyclevars
<1>5. CASE DropLeftover
  <2>1. queue' = [queue EXCEPT ![state_] = <<>>] /\ queue \in [Cycles -> Seq(Items)]
    BY <1>5 DEF DropLeftover, IInv, ControlTypeOK
  <2>2. state_ = c => queue'[c] = <<>>
    BY <2>1
  <2>3. state_ # c => queue'[c] = queue[c]
    BY <2>1
  <2> QED
    BY <1>0, <2>2, <2>3
<1>6. CASE EndStop
  BY <1>0, <1>6 DEF EndStop, cyclevars
<1> QED
  BY <1>1, <1>2, <1>3, <1>4, <1>5, <1>6, NextSteps DEF MainStep, StopStep

-----------------------------------------------------------------------------
(* The workers stop() leaves behind.                                       *)

\* Worker w is done, or stop() has given up on it.
Gone(w) == pc[w] = "exited" \/ w \in detached

(* Nothing brings back a worker of a cycle that was started: the only step *)
(* that revives threads is start(), and it makes those of a new cycle.     *)
LEMMA GoneIsFinal ==
    ASSUME IInv, Next, NEW w \in Workers, Gone(w), w[1] <= cycle
    PROVE  Gone(w)'
<1>1. CASE AnyWorkerStep
  BY <1>1, WorkerFrame DEF Gone
<1>2. CASE AnySubmitStep
  BY <1>2, SubmitFrame DEF Gone
<1>3. CASE Start
  <2>1. w[1] # cycle + 1
    BY WorkerPair, BoundsAssumption DEF Cycles, IInv, ControlTypeOK
  <2> QED
    BY <1>3, <2>1 DEF Start, Gone
<1>4. CASE NotifyAll
  BY <1>4 DEF NotifyAll, Gone
<1>5. CASE BeginStop \/ Join \/ Detach \/ EndJoin \/ DropLeftover \/ EndStop
  BY <1>5 DEF BeginStop, Join, Detach, EndJoin, DropLeftover, EndStop, workervars, Gone
<1> QED
  BY <1>1, <1>2, <1>3, <1>4, <1>5, NextSteps DEF MainStep, StopStep

(* Each turn of stop()'s loop moves past a worker that is done or that it  *)
(* detaches in that turn.                                                  *)
LEMMA JoinStep == IInv /\ Next => JoinInv'
<1> SUFFICES ASSUME IInv, Next, stage' = "join",
                    NEW w \in Workers, w[1] = state_', w[2] < joining'
             PROVE  Gone(w)'
  BY DEF JoinInv, Gone
<1>0. w[1] \in Cycles /\ w[2] \in 1..WorkerCount /\ w = <<w[1], w[2]>>
  BY WorkerPair
<1>1. stage = "join" /\ w[1] = state_ /\ w[2] < joining => Gone(w) /\ w[1] <= cycle
  BY DEF IInv, JoinInv, HandleInv, Gone
<1>2. CASE AnyWorkerStep \/ AnySubmitStep
  <2>1. UNCHANGED mainvars
    BY <1>2, WorkerFrame, SubmitFrame
  <2> QED
    BY <1>1, <2>1, GoneIsFinal DEF mainvars
<1>3. CASE NotifyAll
  BY <1>0, <1>3 DEF NotifyAll
<1>4. CASE Join
  <2>1. CASE w[2] < joining
    BY <1>1, <1>4, <2>1, GoneIsFinal DEF Join
  <2>2. CASE w[2] = joining
    BY <1>0, <1>4, <2>2 DEF Join, Gone, workervars
  <2> QED
    BY <1>0, <1>4, <2>1, <2>2 DEF Join, IInv, ControlTypeOK
<1>5. CASE Detach
  <2>1. CASE w[2] < joining
    BY <1>1, <1>5, <2>1, GoneIsFinal DEF Detach
  <2>2. CASE w[2] = joining
    BY <1>0, <1>5, <2>2 DEF Detach, Gone
  <2> QED
    BY <1>0, <1>5, <2>1, <2>2 DEF Detach, IInv, ControlTypeOK
<1>6. CASE Start \/ BeginStop \/ EndJoin \/ DropLeftover \/ EndStop
  BY <1>6 DEF Start, BeginStop, EndJoin, DropLeftover, EndStop
<1> QED
  BY <1>2, <1>3, <1>4, <1>5, <1>6, NextSteps DEF MainStep, StopStep

(* The loop of stop() ends with every worker of the cycle passed, and the  *)
(* workers of older cycles stay gone.                                      *)
LEMMA StopLeavesStep == IInv /\ Next => StopLeavesOnlyDetached'
<1> SUFFICES ASSUME IInv, Next, NEW w \in Workers, w[1] \in stopping',
                    w[1] # state_' \/ stage' \in {"clear", "drop"}
             PROVE  Gone(w)'
  BY DEF StopLeavesOnlyDetached, Gone
<1>0. w[1] \in Cycles /\ w[2] \in 1..WorkerCount
  BY WorkerPair
<1>1. w[1] \in stopping /\ (w[1] # state_ \/ stage \in {"clear", "drop"}) =>
          Gone(w) /\ w[1] <= cycle
  BY <1>0 DEF IInv, StopLeavesOnlyDetached, HandleInv, Gone
<1>2. CASE AnyWorkerStep \/ AnySubmitStep
  <2>1. UNCHANGED <<mainvars, stopping>>
    BY <1>2, WorkerFrame, SubmitFrame
  <2> QED
    BY <1>1, <2>1, GoneIsFinal DEF mainvars
<1>3. CASE Start
  <2>1. state_ = 0
    BY <1>3, Zenon DEF Start, IInv, HandleInv
  <2>2. w[1] \in stopping /\ w[1] # state_
    BY <1>0, <1>3, <2>1, BoundsAssumption DEF Start, cyclevars, Cycles
  <2> QED
    BY <1>1, <2>2, GoneIsFinal
<1>4. CASE BeginStop
  <2>1. w[1] \in stopping /\ w[1] # state_
    BY <1>4 DEF BeginStop
  <2> QED
    BY <1>1, <2>1, GoneIsFinal
<1>5. CASE NotifyAll \/ Join \/ Detach
  <2>1. w[1] \in stopping /\ w[1] # state_
    BY <1>5 DEF NotifyAll, Join, Detach, cyclevars
  <2> QED
    BY <1>1, <2>1, GoneIsFinal
<1>6. CASE EndJoin
  <2>1. stage = "join" /\ joining = WorkerCount + 1 /\ state_' = state_ /\ stopping' = stopping
    BY <1>6 DEF EndJoin, cyclevars
  <2>2. w[1] = state_ => Gone(w) /\ w[1] <= cycle
    BY <1>0, <2>1, WorkerCountAssumption DEF IInv, JoinInv, HandleInv, Gone
  <2> QED
    BY <1>1, <2>1, <2>2, GoneIsFinal
<1>7. CASE DropLeftover
  <2>1. w[1] \in stopping /\ (w[1] # state_ \/ stage \in {"clear", "drop"})
    BY <1>7 DEF DropLeftover
  <2> QED
    BY <1>1, <2>1, GoneIsFinal
<1>8. CASE EndStop
  <2>1. w[1] \in stopping /\ stage \in {"clear", "drop"}
    BY <1>8 DEF EndStop, cyclevars
  <2> QED
    BY <1>1, <2>1, GoneIsFinal
<1> QED
  BY <1>2, <1>3, <1>4, <1>5, <1>6, <1>7, <1>8, NextSteps DEF MainStep, StopStep

-----------------------------------------------------------------------------
(* The theorems.                                                           *)

(* The executor starts with no cycle, no worker and no promise, and every  *)
(* step of start(), stop(), submit(), run_sync() and loop() keeps IInv.    *)
THEOREM Invariance == Spec => []IInv
<1>1. Init => IInv
  <2> SUFFICES ASSUME Init PROVE IInv
    OBVIOUS
  <2>1. ControlTypeOK
    <3>1. <<>> \in Seq(Items)
      OBVIOUS
    <3>2. queue \in [Cycles -> Seq(Items)]
      BY <3>1 DEF Init
    <3>3. 0 \in 0..MaxCycles /\ 0 \in 0..MaxItems /\ 1 \in 1..(WorkerCount + 1)
      BY BoundsAssumption, WorkerCountAssumption
    <3>4. /\ pc \in [Workers -> {"none", "ready", "asleep", "busy", "settled", "exited"}]
          /\ outcome \in [Items -> {"none", "queued", "running"} \cup Settled]
      BY DEF Init
    <3>5. /\ item \in [Workers -> 0..MaxItems]
          /\ held \in [Submitters -> 0..MaxCycles]
          /\ notifying \in [Submitters -> 0..MaxCycles]
          /\ waiting \in [Submitters -> 0..MaxItems]
      BY <3>3 DEF Init
    <3>6. /\ state_ = 0 /\ cycle = 0 /\ running_ = FALSE /\ stopping = {} /\ detached = {}
          /\ stage = "none" /\ joining = 1 /\ last_id = 0
      BY DEF Init
    <3> QED
      BY <3>2, <3>3, <3>4, <3>5, <3>6 DEF ControlTypeOK
  <2>2. HandleInv
    BY BoundsAssumption DEF Init, HandleInv, Cycles
  <2>3. JoinInv /\ NoStrandedPromise /\ StopLeavesOnlyDetached
    BY DEF Init, JoinInv, NoStrandedPromise, StopLeavesOnlyDetached
  <2> QED
    BY <2>1, <2>2, <2>3 DEF IInv
<1>2. IInv /\ [Next]_vars => IInv'
  <2> SUFFICES ASSUME IInv, [Next]_vars PROVE IInv'
    OBVIOUS
  <2>1. CASE Next
    <3>1. ControlTypeOK'
      BY <2>1, NextSteps, MainStepType, SubmitStepType, WorkerStepType
    <3> QED
      BY <2>1, <3>1, HandleStep, JoinStep, NoStrandedStep, StopLeavesStep DEF IInv
  <2>2. CASE UNCHANGED vars
    BY <2>2 DEF vars, cyclevars, workervars, mainvars, submitvars, IInv, ControlTypeOK,
                HandleInv, JoinInv, NoStrandedPromise, StopLeavesOnlyDetached
  <2> QED
    BY <2>1, <2>2
<1> QED
  BY <1>1, <1>2, PTL DEF Spec

(* No promise is ever left in the queue of a cycle that stop() has swept   *)
(* or let go of, however submit() interleaves with stop() and start().     *)
THEOREM NothingStranded == Spec => []NoStrandedPromise
<1>1. IInv => NoStrandedPromise
  BY DEF IInv
<1> QED
  BY <1>1, Invariance, PTL

(* stop() never leaves a worker that is neither done nor detached.         *)
THEOREM StopIsClean == Spec => []StopLeavesOnlyDetached
<1>1. IInv => StopLeavesOnlyDetached
  BY DEF IInv
<1> QED
  BY <1>1, Invariance, PTL

-----------------------------------------------------------------------------
(* The slots: what the counter, the queue and the workers of a cycle hold. *)

(* A worker owns an item from the moment it takes it to the end of the     *)
(* loop's scope.                                                           *)
OwnersAreBusy == \A w \in Workers : item[w] # 0 <=> pc[w] \in {"busy", "settled"}

(* A cycle that has not been started has nothing in it.                    *)
FreshIsEmpty ==
    \A c \in Cycles : c > cycle =>
        /\ inflight[c] = 0 /\ queue[c] = <<>>
        /\ \A w \in Workers : w[1] = c => pc[w] = "none"

(* Every cycle's counter covers its queue and its workers' items, also     *)
(* after stop() has swept the queue, so a late worker's release never      *)
(* takes it below zero; it is exact while the executor holds the cycle.    *)
SlotsAreHeld ==
    \A c \in Cycles :
        /\ inflight[c] >= Len(queue[c]) + Cardinality(Unfinished(c))
        /\ c = state_ /\ stage # "drop" =>
               inflight[c] = Len(queue[c]) + Cardinality(Unfinished(c))

(* Items are numbered in the order they are accepted.                      *)
NumberedInOrder ==
    /\ \A c \in Cycles : \A k \in DOMAIN queue[c] : queue[c][k] <= last_id
    /\ \A w \in Workers : item[w] <= last_id

(* The inductive invariant behind CyclesAreIntact, on top of IInv.         *)
SlotInv ==
    /\ inflight \in [Cycles -> Nat]
    /\ OwnersAreBusy /\ FreshIsEmpty /\ SlotsAreHeld
    /\ StartsInOrder /\ NumberedInOrder

(* The workers of one cycle that own an item are finitely many.            *)
LEMMA UnfinishedFinite ==
    ASSUME NEW c \in Cycles
    PROVE  IsFiniteSet(Unfinished(c)) /\ IsFiniteSet(Unfinished(c)')
<1>1. IsFiniteSet(1..MaxCycles) /\ IsFiniteSet(1..WorkerCount)
  BY FS_Interval, BoundsAssumption, WorkerCountAssumption
<1>2. IsFiniteSet(Workers)
  BY <1>1, FS_Product DEF Workers, Cycles
<1>3. Unfinished(c) \in SUBSET Workers /\ Unfinished(c)' \in SUBSET Workers
  BY DEF Unfinished
<1> QED
  BY <1>2, <1>3, FS_Subset

(* A step that leaves the queues, the counters and the workers' items as   *)
(* they are keeps the slots, as long as a cycle that becomes the running   *)
(* one is fresh.                                                           *)
LEMMA SlotsKept ==
    ASSUME IInv, SlotInv, UNCHANGED <<queue, inflight, item, last_id>>,
           \A c \in Cycles : c = state_' /\ stage' # "drop" =>
               (c = state_ /\ stage # "drop") \/ c > cycle
    PROVE  (inflight \in [Cycles -> Nat] /\ SlotsAreHeld /\ StartsInOrder /\ NumberedInOrder)'
<1>1. \A c \in Cycles : Unfinished(c)' = Unfinished(c)
  BY DEF Unfinished
<1>2. (inflight \in [Cycles -> Nat])'
  BY DEF SlotInv
<1>3. NumberedInOrder'
  BY DEF SlotInv, NumberedInOrder
<1>4. StartsInOrder'
  BY <1>1 DEF SlotInv, StartsInOrder
<1>5. SlotsAreHeld'
  <2> SUFFICES ASSUME NEW c \in Cycles
               PROVE  /\ inflight'[c] >= Len(queue'[c]) + Cardinality(Unfinished(c)')
                      /\ c = state_' /\ stage' # "drop" =>
                             inflight'[c] = Len(queue'[c]) + Cardinality(Unfinished(c)')
    BY DEF SlotsAreHeld
  <2>1. /\ inflight[c] >= Len(queue[c]) + Cardinality(Unfinished(c))
        /\ c = state_ /\ stage # "drop" =>
               inflight[c] = Len(queue[c]) + Cardinality(Unfinished(c))
    BY DEF SlotInv, SlotsAreHeld
  <2>2. c > cycle => inflight[c] = Len(queue[c]) + Cardinality(Unfinished(c))
    <3> SUFFICES ASSUME c > cycle PROVE inflight[c] = Len(queue[c]) + Cardinality(Unfinished(c))
      OBVIOUS
    <3>1. inflight[c] = 0 /\ queue[c] = <<>> /\ Unfinished(c) = {}
      BY DEF SlotInv, FreshIsEmpty, OwnersAreBusy, Unfinished
    <3>2. Len(queue[c]) = 0 /\ Cardinality(Unfinished(c)) = 0
      BY <3>1, FS_EmptySet
    <3> QED
      BY <3>1, <3>2
  <2> QED
    BY <1>1, <2>1, <2>2
<1> QED
  BY <1>2, <1>3, <1>4, <1>5

(* No step of the main thread loses a slot.                                *)
LEMMA MainStepSlots == IInv /\ SlotInv /\ MainStep => SlotInv'
<1> SUFFICES ASSUME IInv, SlotInv, MainStep PROVE SlotInv'
  OBVIOUS
<1> USE BoundsAssumption
<1>a. /\ cycle \in 0..MaxCycles /\ state_ \in 0..cycle
      /\ pc \in [Workers -> {"none", "ready", "asleep", "busy", "settled", "exited"}]
      /\ queue \in [Cycles -> Seq(Items)]
  BY DEF IInv, ControlTypeOK, HandleInv
<1>b. OwnersAreBusy /\ FreshIsEmpty
  BY DEF SlotInv
<1>1. CASE Start
  <2>1. \A c \in Cycles : c = state_' /\ stage' # "drop" =>
            (c = state_ /\ stage # "drop") \/ c > cycle
    BY <1>1, <1>a DEF Start
  <2>2. UNCHANGED <<queue, inflight, item, last_id>>
    BY <1>1 DEF Start, cyclevars
  <2>3. OwnersAreBusy'
    <3>1. \A w \in Workers : w[1] = cycle + 1 => pc[w] = "none"
      BY <1>1, <1>a, <1>b, WorkerPair DEF FreshIsEmpty
    <3> QED
      BY <1>1, <1>a, <1>b, <3>1 DEF Start, OwnersAreBusy
  <2>4. FreshIsEmpty'
    BY <1>1, <1>a, <1>b, <2>2 DEF Start, FreshIsEmpty, Cycles
  <2> QED
    BY <2>1, <2>2, <2>3, <2>4, SlotsKept DEF SlotInv
<1>2. CASE BeginStop \/ Join \/ Detach \/ EndJoin \/ EndStop
  <2>1. \A c \in Cycles : c = state_' /\ stage' # "drop" =>
            (c = state_ /\ stage # "drop") \/ c > cycle
    BY <1>2 DEF BeginStop, Join, Detach, EndJoin, EndStop, Cycles
  <2>2. UNCHANGED <<queue, inflight, item, last_id, pc, cycle>>
    BY <1>2 DEF BeginStop, Join, Detach, EndJoin, EndStop, cyclevars, workervars
  <2>3. OwnersAreBusy' /\ FreshIsEmpty'
    BY <1>b, <2>2 DEF OwnersAreBusy, FreshIsEmpty
  <2> QED
    BY <2>1, <2>2, <2>3, SlotsKept DEF SlotInv
<1>3. CASE NotifyAll
  <2>1. \A c \in Cycles : c = state_' /\ stage' # "drop" =>
            (c = state_ /\ stage # "drop") \/ c > cycle
    BY <1>3 DEF NotifyAll
  <2>2. UNCHANGED <<queue, inflight, item, last_id, cycle>>
    BY <1>3 DEF NotifyAll, cyclevars
  <2>3. OwnersAreBusy'
    BY <1>3, <1>a, <1>b DEF NotifyAll, OwnersAreBusy
  <2>4. FreshIsEmpty'
    BY <1>3, <1>a, <1>b, <2>2 DEF NotifyAll, FreshIsEmpty
  <2> QED
    BY <2>1, <2>2, <2>3, <2>4, SlotsKept DEF SlotInv
<1>4. CASE DropLeftover
  <2>1. /\ queue' = [queue EXCEPT ![state_] = <<>>] /\ stage' = "drop"
        /\ UNCHANGED <<inflight, item, last_id, pc, cycle, state_>>
    BY <1>4 DEF DropLeftover, workervars
  <2>2. \A c \in Cycles : queue'[c] = queue[c] \/ queue'[c] = <<>>
    BY <1>a, <2>1
  <2>3. \A c \in Cycles : Unfinished(c)' = Unfinished(c)
    BY <2>1 DEF Unfinished
  <2>4. DOMAIN <<>> = {} /\ Len(<<>>) = 0
    OBVIOUS
  <2>5. (inflight \in [Cycles -> Nat] /\ OwnersAreBusy /\ FreshIsEmpty /\ NumberedInOrder)'
    BY <2>1, <2>2, <2>4 DEF SlotInv, OwnersAreBusy, FreshIsEmpty, NumberedInOrder
  <2>6. StartsInOrder'
    BY <2>1, <2>2, <2>3, <2>4 DEF SlotInv, StartsInOrder
  <2>7. SlotsAreHeld'
    <3> SUFFICES ASSUME NEW c \in Cycles
                 PROVE  inflight'[c] >= Len(queue'[c]) + Cardinality(Unfinished(c)')
      BY <2>1 DEF SlotsAreHeld
    <3>1. inflight[c] >= Len(queue[c]) + Cardinality(Unfinished(c))
      BY DEF SlotInv, SlotsAreHeld
    <3>2. Len(queue[c]) \in Nat /\ Cardinality(Unfinished(c)) \in Nat /\ inflight[c] \in Nat
      BY <1>a, UnfinishedFinite, FS_CardinalityType DEF SlotInv
    <3> QED
      BY <2>1, <2>2, <2>3, <2>4, <3>1, <3>2
  <2> QED
    BY <2>5, <2>6, <2>7 DEF SlotInv
<1> QED
  BY <1>1, <1>2, <1>3, <1>4 DEF MainStep, StopStep

(* An accepted item takes a slot of the cycle it is queued in.             *)
LEMMA SubmitStepSlots == IInv /\ SlotInv /\ AnySubmitStep => SlotInv'
<1> SUFFICES ASSUME IInv, SlotInv, NEW s \in Submitters,
                    \/ SubmitLoad(s) \/ SubmitReject(s) \/ NotifyOne(s) \/ RunSyncReturns(s)
                    \/ \E sync \in BOOLEAN : SubmitEnqueue(s, sync)
             PROVE  SlotInv'
  BY DEF AnySubmitStep
<1> USE BoundsAssumption
<1>a. /\ cycle \in 0..MaxCycles /\ last_id \in 0..MaxItems
      /\ pc \in [Workers -> {"none", "ready", "asleep", "busy", "settled", "exited"}]
      /\ queue \in [Cycles -> Seq(Items)] /\ inflight \in [Cycles -> Nat]
      /\ item \in [Workers -> 0..MaxItems]
  BY DEF IInv, ControlTypeOK, SlotInv
<1>b. OwnersAreBusy /\ FreshIsEmpty
  BY DEF SlotInv
<1>1. CASE SubmitLoad(s) \/ SubmitReject(s) \/ NotifyOne(s) \/ RunSyncReturns(s)
  <2>1. UNCHANGED <<queue, inflight, item, last_id, cycle, state_, stage>>
    BY <1>1 DEF SubmitLoad, SubmitReject, NotifyOne, RunSyncReturns, cyclevars, workervars, mainvars
  <2>2. \A w \in Workers : pc'[w] = pc[w] \/ (pc[w] = "asleep" /\ pc'[w] = "ready")
    BY <1>1, <1>a DEF SubmitLoad, SubmitReject, NotifyOne, RunSyncReturns, workervars
  <2>3. OwnersAreBusy' /\ FreshIsEmpty'
    BY <1>b, <2>1, <2>2 DEF OwnersAreBusy, FreshIsEmpty
  <2> QED
    BY <2>1, <2>3, SlotsKept DEF SlotInv
<1>2. ASSUME NEW sync \in BOOLEAN, SubmitEnqueue(s, sync) PROVE SlotInv'
  <2> DEFINE h == held[s]
             n == last_id + 1
  <2>1. h \in Cycles /\ h <= cycle
    BY <1>2, HandleIsCycle DEF SubmitEnqueue, IInv, ControlTypeOK, HandleInv
  <2>2. /\ n \in Items /\ last_id' = n
        /\ inflight' = [inflight EXCEPT ![h] = @ + 1]
        /\ queue' = [queue EXCEPT ![h] = Append(@, n)]
        /\ UNCHANGED <<item, pc, cycle, state_, stage>>
    BY <1>2, <1>a DEF SubmitEnqueue, Items, workervars, mainvars
  <2> HIDE DEF h, n
  <2>3. \A c \in Cycles : Unfinished(c)' = Unfinished(c)
    BY <2>2 DEF Unfinished
  <2>4. \A c \in Cycles : c # h => queue'[c] = queue[c] /\ inflight'[c] = inflight[c]
    BY <1>a, <2>2
  <2>5. /\ queue'[h] = Append(queue[h], n) /\ inflight'[h] = inflight[h] + 1
        /\ queue[h] \in Seq(Items) /\ inflight[h] \in Nat
    BY <1>a, <2>1, <2>2
  <2>6. /\ Len(queue'[h]) = Len(queue[h]) + 1 /\ Len(queue[h]) \in Nat
        /\ DOMAIN queue'[h] = DOMAIN queue[h] \cup {Len(queue[h]) + 1}
        /\ \A k \in DOMAIN queue[h] : queue'[h][k] = queue[h][k]
        /\ queue'[h][Len(queue[h]) + 1] = n
        /\ DOMAIN queue[h] = 1..Len(queue[h])
    BY <2>2, <2>5
  <2>7. inflight' \in [Cycles -> Nat]
    BY <1>a, <2>1, <2>2, <2>5
  <2>8. OwnersAreBusy' /\ FreshIsEmpty'
    BY <1>a, <1>b, <2>1, <2>2, <2>4 DEF OwnersAreBusy, FreshIsEmpty, Cycles
  <2>9. n > last_id
    BY <1>a DEF n
  <2>10. NumberedInOrder'
    <3>1. \A c \in Cycles : \A k \in DOMAIN queue'[c] : queue'[c][k] <= n
      <4> SUFFICES ASSUME NEW c \in Cycles, NEW k \in DOMAIN queue'[c] PROVE queue'[c][k] <= n
        OBVIOUS
      <4>1. CASE k \in DOMAIN queue[c] /\ queue'[c][k] = queue[c][k]
        <5>1. queue[c][k] <= last_id /\ queue[c][k] \in Items
          BY <4>1, <1>a DEF SlotInv, NumberedInOrder
        <5> QED
          BY <4>1, <5>1, <2>9, <1>a, <2>2 DEF Items
      <4>2. CASE c = h /\ k = Len(queue[h]) + 1
        BY <4>2, <2>2, <2>6 DEF Items
      <4> QED
        BY <4>1, <4>2, <2>4, <2>6
    <3>2. \A w \in Workers : item'[w] <= n
      BY <1>a, <2>2, <2>9 DEF SlotInv, NumberedInOrder, Items
    <3> QED
      BY <2>2, <3>1, <3>2 DEF NumberedInOrder
  <2>11. StartsInOrder'
    <3> SUFFICES ASSUME NEW c \in Cycles, NEW k \in DOMAIN queue'[c]
                 PROVE  /\ \A j \in 1..(k - 1) : queue'[c][j] < queue'[c][k]
                        /\ \A w \in Unfinished(c)' : item'[w] < queue'[c][k]
      BY DEF StartsInOrder
    <3>1. CASE k \in DOMAIN queue[c] /\ queue'[c][k] = queue[c][k]
      <4>1. DOMAIN queue[c] = 1..Len(queue[c]) /\ Len(queue[c]) \in Nat
        BY <1>a
      <4>2. \A j \in DOMAIN queue[c] : queue'[c][j] = queue[c][j]
        BY <2>4, <2>6
      <4>3. \A j \in 1..(k - 1) : j \in DOMAIN queue[c] /\ queue'[c][j] = queue[c][j]
        BY <3>1, <4>1, <4>2
      <4> QED
        BY <2>2, <2>3, <3>1, <4>3 DEF SlotInv, StartsInOrder
    <3>2. CASE c = h /\ k = Len(queue[h]) + 1
      <4>1. \A j \in 1..(k - 1) : j \in DOMAIN queue[h] /\ queue'[h][j] = queue[h][j]
        BY <2>6, <3>2
      <4>2. \A j \in DOMAIN queue[h] : queue[h][j] <= last_id /\ queue[h][j] \in Items
        BY <1>a, <2>1 DEF SlotInv, NumberedInOrder
      <4>3. \A w \in Workers : item[w] <= last_id /\ item[w] \in 0..MaxItems
        BY <1>a DEF SlotInv, NumberedInOrder
      <4>4. \A j \in 1..(k - 1) : queue'[c][j] < queue'[c][k]
        <5>1. \A j \in 1..(k - 1) : queue[h][j] <= last_id /\ queue[h][j] \in Nat
          BY <4>1, <4>2 DEF Items
        <5>2. queue'[c][k] = n /\ n \in Nat /\ last_id \in Nat
          BY <3>2, <2>6, <1>a, <2>2 DEF Items
        <5> QED
          BY <3>2, <4>1, <5>1, <5>2, <2>9
      <4>5. \A w \in Unfinished(c)' : item'[w] < queue'[c][k]
        BY <4>3, <3>2, <2>2, <2>6, <2>9, <1>a DEF Unfinished, Items
      <4> QED
        BY <4>4, <4>5
    <3> QED
      BY <3>1, <3>2, <2>4, <2>6
  <2>12. SlotsAreHeld'
    <3> SUFFICES ASSUME NEW c \in Cycles
                 PROVE  /\ inflight'[c] >= Len(queue'[c]) + Cardinality(Unfinished(c)')
                        /\ c = state_' /\ stage' # "drop" =>
                               inflight'[c] = Len(queue'[c]) + Cardinality(Unfinished(c)')
      BY DEF SlotsAreHeld
    <3>1. /\ inflight[c] >= Len(queue[c]) + Cardinality(Unfinished(c))
          /\ c = state_ /\ stage # "drop" =>
                 inflight[c] = Len(queue[c]) + Cardinality(Unfinished(c))
      BY DEF SlotInv, SlotsAreHeld
    <3>2. Cardinality(Unfinished(c)) \in Nat
      BY UnfinishedFinite, FS_CardinalityType
    <3>3. CASE c = h
      <4>1. /\ inflight'[c] = inflight[c] + 1 /\ inflight[c] \in Nat
            /\ Len(queue'[c]) = Len(queue[c]) + 1 /\ Len(queue[c]) \in Nat
            /\ Cardinality(Unfinished(c)') = Cardinality(Unfinished(c))
        BY <2>3, <2>5, <2>6, <3>3
      <4>2. state_' = state_ /\ stage' = stage
        BY <2>2
      <4>3. /\ inflight'[c] >= Len(queue'[c]) + Cardinality(Unfinished(c)')
            /\ inflight[c] = Len(queue[c]) + Cardinality(Unfinished(c)) =>
                   inflight'[c] = Len(queue'[c]) + Cardinality(Unfinished(c)')
        BY <3>1, <3>2, <4>1
      <4> QED
        BY <3>1, <4>2, <4>3
    <3>4. CASE c # h
      BY <2>2, <2>3, <2>4, <3>1, <3>4
    <3> QED
      BY <3>3, <3>4
  <2> QED
    BY <2>7, <2>8, <2>10, <2>11, <2>12 DEF SlotInv
<1> QED
  BY <1>1, <1>2

(* The queue of a cycle after a Take is the old one, moved up by one.      *)
LEMMA TakeMovesUp ==
    ASSUME NEW q \in Seq(Items), q # <<>>
    PROVE  /\ Head(q) = q[1] /\ Len(q) \in Nat \ {0} /\ DOMAIN q = 1..Len(q)
           /\ Len(Tail(q)) = Len(q) - 1 /\ DOMAIN Tail(q) = 1..(Len(q) - 1)
           /\ \A k \in DOMAIN Tail(q) : Tail(q)[k] = q[k + 1]
  OBVIOUS

(* A worker moves a slot from the queue to itself, and gives it back last. *)
LEMMA WorkerStepSlots == IInv /\ SlotInv /\ AnyWorkerStep => SlotInv'
<1> SUFFICES ASSUME IInv, SlotInv, NEW w \in Workers,
                    \/ Sleep(w) \/ WakeSpuriously(w) \/ Exit(w) \/ Take(w) \/ Release(w)
                    \/ \E o \in {"done", "failed"} : Settle(w, o)
             PROVE  SlotInv'
  BY DEF AnyWorkerStep
<1> USE BoundsAssumption
<1> DEFINE d == w[1]
<1>a. /\ cycle \in 0..MaxCycles /\ last_id \in 0..MaxItems
      /\ pc \in [Workers -> {"none", "ready", "asleep", "busy", "settled", "exited"}]
      /\ queue \in [Cycles -> Seq(Items)] /\ inflight \in [Cycles -> Nat]
      /\ item \in [Workers -> 0..MaxItems]
  BY DEF IInv, ControlTypeOK, SlotInv
<1>b. OwnersAreBusy /\ FreshIsEmpty /\ SlotsAreHeld /\ StartsInOrder /\ NumberedInOrder
  BY DEF SlotInv
<1>c. d \in Cycles
  BY WorkerPair
<1>d. pc[w] # "none" => d <= cycle
  BY <1>a, <1>b, <1>c DEF FreshIsEmpty, Cycles
<1> HIDE DEF d
<1>1. CASE Sleep(w) \/ WakeSpuriously(w) \/ Exit(w) \/ \E o \in {"done", "failed"} : Settle(w, o)
  <2>1. UNCHANGED <<queue, inflight, item, last_id, cycle, state_, stage>>
    BY <1>1 DEF Sleep, WakeSpuriously, Exit, Settle, cyclevars, mainvars
  <2>2. /\ \A v \in Workers : v # w => pc'[v] = pc[v]
        /\ \/ pc[w] \in {"ready", "asleep"} /\ pc'[w] \in {"ready", "asleep", "exited"}
           \/ pc[w] = "busy" /\ pc'[w] = "settled"
    BY <1>1, <1>a DEF Sleep, WakeSpuriously, Exit, Settle
  <2>3. OwnersAreBusy' /\ FreshIsEmpty'
    BY <1>b, <2>1, <2>2 DEF OwnersAreBusy, FreshIsEmpty
  <2> QED
    BY <2>1, <2>3, SlotsKept DEF SlotInv
<1>2. CASE Take(w)
  <2> DEFINE i == Head(queue[d])
  <2>1. /\ queue[d] # <<>> /\ pc[w] = "ready"
        /\ queue' = [queue EXCEPT ![d] = Tail(@)] /\ item' = [item EXCEPT ![w] = i]
        /\ pc' = [pc EXCEPT ![w] = "busy"]
        /\ UNCHANGED <<inflight, last_id, cycle, state_, stage>>
    BY <1>2 DEF Take, mainvars, d
  <2>2. /\ i \in Items /\ i = queue[d][1] /\ Len(queue[d]) \in Nat \ {0}
        /\ DOMAIN queue[d] = 1..Len(queue[d]) /\ queue[d] \in Seq(Items)
        /\ queue'[d] = Tail(queue[d]) /\ Len(queue'[d]) = Len(queue[d]) - 1
        /\ DOMAIN queue'[d] = 1..(Len(queue[d]) - 1)
        /\ \A k \in DOMAIN queue'[d] : queue'[d][k] = queue[d][k + 1]
    <3>1. queue[d] \in Seq(Items) /\ queue'[d] = Tail(queue[d])
      BY <1>a, <1>c, <2>1
    <3> QED
      BY <2>1, <3>1, TakeKeepsItems, TakeMovesUp
  <2> HIDE DEF i
  <2>3. \A c \in Cycles : c # d => queue'[c] = queue[c] /\ Unfinished(c)' = Unfinished(c)
    BY <1>a, <1>c, <2>1 DEF Unfinished, d
  <2>4. item[w] = 0 /\ w \notin Unfinished(d) /\ Unfinished(d)' = Unfinished(d) \cup {w}
    <3>1. item[w] = 0
      BY <1>b, <2>1 DEF OwnersAreBusy
    <3>2. i # 0
      BY <2>2 DEF Items
    <3> QED
      BY <1>a, <2>1, <3>1, <3>2 DEF Unfinished, d
  <2>5. OwnersAreBusy'
    BY <1>a, <1>b, <2>1, <2>2 DEF OwnersAreBusy, Items
  <2>6. FreshIsEmpty'
    BY <1>a, <1>b, <1>d, <2>1, <2>3 DEF FreshIsEmpty, Cycles, d
  <2>7. NumberedInOrder'
    <3>1. \A k \in DOMAIN queue[d] : queue[d][k] <= last_id
      BY <1>b, <1>c DEF NumberedInOrder
    <3>2. \A k \in DOMAIN queue'[d] : k + 1 \in DOMAIN queue[d] /\ queue'[d][k] = queue[d][k + 1]
      BY <2>2
    <3>3. 1 \in DOMAIN queue[d] /\ i <= last_id
      BY <2>2, <3>1
    <3>4. \A c \in Cycles : \A k \in DOMAIN queue'[c] : queue'[c][k] <= last_id
      BY <1>b, <2>3, <3>1, <3>2 DEF NumberedInOrder
    <3>5. \A v \in Workers : item'[v] <= last_id
      BY <1>a, <1>b, <2>1, <3>3 DEF NumberedInOrder
    <3> QED
      BY <2>1, <3>4, <3>5 DEF NumberedInOrder
  <2>8. StartsInOrder'
    <3> SUFFICES ASSUME NEW c \in Cycles, NEW k \in DOMAIN queue'[c]
                 PROVE  /\ \A j \in 1..(k - 1) : queue'[c][j] < queue'[c][k]
                        /\ \A v \in Unfinished(c)' : item'[v] < queue'[c][k]
      BY DEF StartsInOrder
    <3>1. CASE c = d
      <4>1. /\ k + 1 \in DOMAIN queue[d] /\ queue'[d][k] = queue[d][k + 1] /\ k \in Nat \ {0}
            /\ \A j \in 1..(k - 1) : queue'[d][j] = queue[d][j + 1] /\ j + 1 \in 1..((k + 1) - 1)
            /\ 1 \in 1..((k + 1) - 1)
        <5>1. k \in 1..(Len(queue[d]) - 1) /\ Len(queue[d]) \in Nat
          BY <2>2, <3>1
        <5>2. k + 1 \in DOMAIN queue[d] /\ queue'[d][k] = queue[d][k + 1] /\ k \in Nat \ {0}
          BY <2>2, <5>1
        <5>3. \A j \in 1..(k - 1) : j \in DOMAIN queue'[d] /\ j + 1 \in 1..((k + 1) - 1)
          BY <2>2, <5>1
        <5>4. \A j \in 1..(k - 1) : queue'[d][j] = queue[d][j + 1]
          BY <2>2, <5>3
        <5>5. 1 \in 1..((k + 1) - 1)
          BY <5>1
        <5> QED
          BY <5>2, <5>3, <5>4, <5>5
      <4>2. /\ \A j \in 1..((k + 1) - 1) : queue[d][j] < queue[d][k + 1]
            /\ \A v \in Unfinished(d) : item[v] < queue[d][k + 1]
        BY <1>b, <1>c, <4>1 DEF StartsInOrder
      <4>3. i < queue[d][k + 1]
        BY <2>2, <4>1, <4>2
      <4>4. \A v \in Unfinished(d)' : item'[v] < queue[d][k + 1]
        BY <1>a, <2>1, <2>4, <4>2, <4>3 DEF Unfinished
      <4> QED
        BY <3>1, <4>1, <4>2, <4>4
    <3>2. CASE c # d
      <4>1. \A v \in Unfinished(c) : item'[v] = item[v]
        BY <1>a, <2>1, <3>2 DEF Unfinished, d
      <4> QED
        BY <1>b, <2>3, <3>2, <4>1 DEF StartsInOrder
    <3> QED
      BY <3>1, <3>2
  <2>9. SlotsAreHeld'
    <3> SUFFICES ASSUME NEW c \in Cycles
                 PROVE  /\ inflight'[c] >= Len(queue'[c]) + Cardinality(Unfinished(c)')
                        /\ c = state_' /\ stage' # "drop" =>
                               inflight'[c] = Len(queue'[c]) + Cardinality(Unfinished(c)')
      BY DEF SlotsAreHeld
    <3>1. /\ inflight[c] >= Len(queue[c]) + Cardinality(Unfinished(c))
          /\ c = state_ /\ stage # "drop" =>
                 inflight[c] = Len(queue[c]) + Cardinality(Unfinished(c))
      BY <1>b DEF SlotsAreHeld
    <3>2. CASE c = d
      <4>1. Cardinality(Unfinished(c)') = Cardinality(Unfinished(c)) + 1
        BY <2>4, <3>2, UnfinishedFinite, FS_AddElement
      <4>2. Cardinality(Unfinished(c)) \in Nat
        BY UnfinishedFinite, FS_CardinalityType
      <4>3. Len(queue'[c]) = Len(queue[c]) - 1 /\ Len(queue[c]) \in Nat
        BY <2>2, <3>2
      <4>4. inflight'[c] = inflight[c] /\ state_' = state_ /\ stage' = stage
        BY <2>1
      <4> QED
        BY <3>1, <4>1, <4>2, <4>3, <4>4
    <3>3. CASE c # d
      BY <2>1, <2>3, <3>1, <3>3
    <3> QED
      BY <3>2, <3>3
  <2>10. (inflight \in [Cycles -> Nat])'
    BY <1>a, <2>1
  <2> QED
    BY <2>5, <2>6, <2>7, <2>8, <2>9, <2>10 DEF SlotInv
<1>3. CASE Release(w)
  <2>1. /\ pc[w] = "settled" /\ item' = [item EXCEPT ![w] = 0]
        /\ inflight' = [inflight EXCEPT ![d] = @ - 1]
        /\ pc' = [pc EXCEPT ![w] = "ready"]
        /\ UNCHANGED <<queue, last_id, cycle, state_, stage>>
    BY <1>3 DEF Release, mainvars, d
  <2>2. \A c \in Cycles : c # d => inflight'[c] = inflight[c] /\ Unfinished(c)' = Unfinished(c)
    BY <1>a, <1>c, <2>1 DEF Unfinished, d
  <2>3. w \in Unfinished(d) /\ Unfinished(d)' = Unfinished(d) \ {w}
    <3>1. item[w] # 0
      BY <1>b, <2>1 DEF OwnersAreBusy
    <3> QED
      BY <1>a, <2>1, <3>1 DEF Unfinished, d
  <2>4. Cardinality(Unfinished(d)') = Cardinality(Unfinished(d)) - 1
    BY <1>c, <2>3, UnfinishedFinite, FS_RemoveElement
  <2>5. /\ Cardinality(Unfinished(d)) \in Nat /\ Cardinality(Unfinished(d)') \in Nat
        /\ Len(queue[d]) \in Nat
    BY <1>a, <1>c, UnfinishedFinite, FS_CardinalityType
  <2>6. inflight'[d] = inflight[d] - 1 /\ inflight[d] \in Nat
    BY <1>a, <1>c, <2>1
  <2>7. /\ inflight[d] >= Len(queue[d]) + Cardinality(Unfinished(d))
        /\ d = state_ /\ stage # "drop" =>
               inflight[d] = Len(queue[d]) + Cardinality(Unfinished(d))
    BY <1>b, <1>c DEF SlotsAreHeld
  <2>8. (inflight \in [Cycles -> Nat])'
    <3>1. inflight[d] - 1 \in Nat
      BY <2>4, <2>5, <2>6, <2>7
    <3> QED
      BY <1>a, <1>c, <2>1, <3>1
  <2>9. OwnersAreBusy'
    BY <1>a, <1>b, <2>1 DEF OwnersAreBusy
  <2>10. FreshIsEmpty'
    BY <1>a, <1>b, <1>d, <2>1, <2>2 DEF FreshIsEmpty, Cycles, d
  <2>11. NumberedInOrder'
    BY <1>a, <1>b, <2>1 DEF NumberedInOrder
  <2>12. StartsInOrder'
    <3>1. \A c \in Cycles : \A v \in Unfinished(c)' : v \in Unfinished(c) /\ item'[v] = item[v]
      BY <1>a, <2>1 DEF Unfinished
    <3> QED
      BY <1>b, <2>1, <3>1 DEF StartsInOrder
  <2>13. SlotsAreHeld'
    <3> SUFFICES ASSUME NEW c \in Cycles
                 PROVE  /\ inflight'[c] >= Len(queue'[c]) + Cardinality(Unfinished(c)')
                        /\ c = state_' /\ stage' # "drop" =>
                               inflight'[c] = Len(queue'[c]) + Cardinality(Unfinished(c)')
      BY DEF SlotsAreHeld
    <3>1. CASE c = d
      <4>1. queue'[c] = queue[c] /\ state_' = state_ /\ stage' = stage
        BY <2>1
      <4> QED
        BY <2>4, <2>5, <2>6, <2>7, <3>1, <4>1
    <3>2. CASE c # d
      BY <1>b, <2>1, <2>2, <3>2 DEF SlotsAreHeld
    <3> QED
      BY <3>1, <3>2
  <2> QED
    BY <2>8, <2>9, <2>10, <2>11, <2>12, <2>13 DEF SlotInv
<1> QED
  BY <1>1, <1>2, <1>3

(* No slot exists before the first start.                                  *)
LEMMA InitSlots == Init => SlotInv
<1> SUFFICES ASSUME Init PROVE SlotInv
  OBVIOUS
<1>1. \A c \in Cycles : queue[c] = <<>> /\ inflight[c] = 0 /\ Unfinished(c) = {}
  BY DEF Init, Unfinished
<1>2. DOMAIN <<>> = {} /\ Len(<<>>) = 0 /\ Cardinality({}) = 0
  BY FS_EmptySet
<1>3. inflight \in [Cycles -> Nat] /\ OwnersAreBusy /\ FreshIsEmpty
  BY <1>1 DEF Init, OwnersAreBusy, FreshIsEmpty
<1>4. SlotsAreHeld
  <2> SUFFICES ASSUME NEW c \in Cycles
               PROVE  inflight[c] = 0 /\ Len(queue[c]) = 0 /\ Cardinality(Unfinished(c)) = 0
    BY DEF SlotsAreHeld
  <2> QED
    BY <1>1, <1>2
<1>5. StartsInOrder /\ NumberedInOrder
  BY <1>1, <1>2 DEF Init, StartsInOrder, NumberedInOrder
<1> QED
  BY <1>3, <1>4, <1>5 DEF SlotInv

(* The three invariants of the slots are kept together.                    *)
LEMMA SlotInvariance == Spec => [](IInv /\ SlotInv)
<1>1. IInv /\ SlotInv /\ [Next]_vars => SlotInv'
  <2>1. IInv /\ SlotInv /\ UNCHANGED vars => SlotInv'
    <3> SUFFICES ASSUME IInv, SlotInv, UNCHANGED vars PROVE SlotInv'
      OBVIOUS
    <3>1. UNCHANGED <<queue, inflight, item, last_id, pc, cycle, state_, stage>>
      BY DEF vars, cyclevars, workervars, mainvars
    <3>2. OwnersAreBusy' /\ FreshIsEmpty'
      BY <3>1 DEF SlotInv, OwnersAreBusy, FreshIsEmpty
    <3> QED
      BY <3>1, <3>2, SlotsKept DEF SlotInv
  <2> QED
    BY <2>1, NextSteps, MainStepSlots, SubmitStepSlots, WorkerStepSlots
<1> QED
  BY <1>1, InitSlots, Invariance, PTL DEF Spec

-----------------------------------------------------------------------------
(* The futures: where the item of an unsettled one is.                     *)

(* The inductive invariant behind FuturesAreHeld, on top of SlotInv: an    *)
(* item whose worker is past its run has a settled future, and an item not *)
(* accepted yet has none.                                                  *)
FutureInv ==
    /\ FuturesAreHeld
    /\ \A w \in Workers : pc[w] = "settled" => outcome[item[w]] \in Settled
    /\ \A i \in Items : i > last_id => outcome[i] = "none"

(* What the types say of the queues, the workers and the futures.          *)
LEMMA FutureTypes ==
    ASSUME IInv
    PROVE  /\ last_id \in 0..MaxItems
           /\ pc \in [Workers -> {"none", "ready", "asleep", "busy", "settled", "exited"}]
           /\ queue \in [Cycles -> Seq(Items)] /\ item \in [Workers -> 0..MaxItems]
           /\ outcome \in [Items -> {"none", "queued", "running"} \cup Settled]
  BY DEF IInv, ControlTypeOK

(* An item is queued at one place of one cycle.                            *)
LEMMA QueuedOnce ==
    ASSUME IInv, SlotInv, NEW c \in Cycles, NEW d \in Cycles,
           NEW k \in DOMAIN queue[c], NEW j \in DOMAIN queue[d], queue[c][k] = queue[d][j]
    PROVE  c = d /\ k = j
<1>1. /\ queue[c] \in Seq(Items) /\ queue[d] \in Seq(Items)
      /\ DOMAIN queue[c] = 1..Len(queue[c]) /\ Len(queue[c]) \in Nat
  BY FutureTypes
<1>2. queue[c] # <<>> /\ queue[d] # <<>>
  BY <1>1
<1>3. c = d
  BY <1>2 DEF IInv, NoStrandedPromise
<1>4. \A m \in DOMAIN queue[c] : queue[c][m] \in Nat
  <2>1. Items \subseteq Nat
    BY BoundsAssumption DEF Items
  <2>2. \A m \in DOMAIN queue[c] : queue[c][m] \in Items
    BY <1>1
  <2> QED
    BY <2>1, <2>2
<1>5. \A m, n \in DOMAIN queue[c] : m < n => queue[c][m] < queue[c][n]
  <2> SUFFICES ASSUME NEW m \in DOMAIN queue[c], NEW n \in DOMAIN queue[c], m < n
               PROVE  queue[c][m] < queue[c][n]
    OBVIOUS
  <2>1. m \in 1..(n - 1)
    BY <1>1
  <2> QED
    BY <2>1 DEF SlotInv, StartsInOrder
<1>6. k \in DOMAIN queue[c] /\ j \in DOMAIN queue[c] /\ queue[c][k] = queue[c][j]
  BY <1>3
<1>7. k < j \/ k = j \/ j < k
  BY <1>1, <1>6
<1> QED
  BY <1>3, <1>4, <1>5, <1>6, <1>7

(* A step that moves no item and settles no future keeps them together.    *)
LEMMA FuturesKept ==
    ASSUME FutureInv, UNCHANGED <<queue, outcome, last_id>>,
           \A w \in Workers :
               /\ pc'[w] = "busy" <=> pc[w] = "busy"
               /\ pc'[w] = "settled" => pc[w] = "settled"
               /\ item'[w] = item[w] \/ (pc'[w] = "ready" /\ item'[w] = 0)
    PROVE  FutureInv'
<1>1. \A i \in Items : InQueue(i)' <=> InQueue(i)
  BY DEF InQueue
<1>2. \A i \in Items : InWork(i)' <=> InWork(i)
  BY DEF InWork
<1>3. \A v, w \in Workers : item'[v] # 0 /\ item'[v] = item'[w] => v = w
  BY DEF FutureInv, FuturesAreHeld
<1>4. FuturesAreHeld'
  BY <1>1, <1>2, <1>3 DEF FutureInv, FuturesAreHeld
<1>5. \A w \in Workers : pc'[w] = "settled" => outcome'[item'[w]] \in Settled
  BY DEF FutureInv
<1>6. \A i \in Items : i > last_id' => outcome'[i] = "none"
  BY DEF FutureInv
<1> QED
  BY <1>4, <1>5, <1>6 DEF FutureInv

(* stop() breaks the promises of the items it sweeps, and of no other.     *)
LEMMA SweepKeepsFutures == ASSUME IInv, SlotInv, FutureInv, DropLeftover PROVE FutureInv'
<1>1. /\ queue' = [queue EXCEPT ![state_] = <<>>]
      /\ outcome' = [i \in Items |-> IF Leftover(i) THEN "broken" ELSE outcome[i]]
      /\ UNCHANGED <<pc, item, last_id>>
  BY DEF DropLeftover, workervars
<1>2. state_ \in Cycles
  BY HandleIsCycle DEF IInv, ControlTypeOK, HandleInv, DropLeftover
<1>3. \A c \in Cycles : queue'[c] = <<>>
  BY <1>1, <1>2, FutureTypes DEF IInv, NoStrandedPromise
<1>4. \A i \in Items : ~InQueue(i)'
  BY <1>3 DEF InQueue
<1>5. \A i \in Items : Leftover(i) <=> InQueue(i)
  <2>1. \A c \in Cycles : \A k \in DOMAIN queue[c] : c = state_
    <3> SUFFICES ASSUME NEW c \in Cycles, NEW k \in DOMAIN queue[c] PROVE c = state_
      OBVIOUS
    <3>1. queue[c] # <<>>
      OBVIOUS
    <3> QED
      BY <3>1 DEF IInv, NoStrandedPromise
  <2> QED
    BY <1>2, <2>1 DEF Leftover, InQueue
<1>6. \A i \in Items : outcome'[i] = IF InQueue(i) THEN "broken" ELSE outcome[i]
  BY <1>1, <1>5
<1>7. \A i \in Items : (outcome[i] = "queued" <=> InQueue(i)) /\ (outcome[i] = "running" <=> InWork(i))
  BY DEF FutureInv, FuturesAreHeld
<1>8. \A i \in Items : InWork(i)' <=> InWork(i)
  BY <1>1 DEF InWork
<1>9. FuturesAreHeld'
  <2>1. \A i \in Items : (outcome'[i] = "queued" <=> InQueue(i)') /\ (outcome'[i] = "running" <=> InWork(i)')
    BY <1>4, <1>6, <1>7, <1>8
  <2>2. \A v, w \in Workers : item'[v] # 0 /\ item'[v] = item'[w] => v = w
    BY <1>1 DEF FutureInv, FuturesAreHeld
  <2> QED
    BY <2>1, <2>2 DEF FuturesAreHeld
<1>10. ASSUME NEW w \in Workers, pc'[w] = "settled" PROVE outcome'[item'[w]] \in Settled
  <2>1. item'[w] = item[w] /\ pc[w] = "settled"
    BY <1>1, <1>10
  <2>2. item[w] \in Items
    BY <2>1, FutureTypes DEF SlotInv, OwnersAreBusy, Items
  <2>3. outcome[item[w]] \in Settled
    BY <2>1 DEF FutureInv
  <2> QED
    BY <1>6, <2>1, <2>2, <2>3 DEF Settled
<1>11. \A i \in Items : i > last_id' => outcome'[i] = "none"
  BY <1>1, <1>6, <1>7 DEF FutureInv
<1> QED
  BY <1>9, <1>10, <1>11 DEF FutureInv

(* No step of the main thread loses an item.                               *)
LEMMA MainStepFutures == IInv /\ SlotInv /\ FutureInv /\ MainStep => FutureInv'
<1> SUFFICES ASSUME IInv, SlotInv, FutureInv, MainStep PROVE FutureInv'
  OBVIOUS
<1>1. CASE Start
  <2>1. UNCHANGED <<queue, outcome, last_id, item>>
    BY <1>1 DEF Start, cyclevars
  <2>2. \A w \in Workers : w[1] = cycle + 1 => pc[w] = "none"
    <3>1. cycle + 1 \in Cycles /\ cycle + 1 > cycle
      BY <1>1, BoundsAssumption DEF Start, IInv, ControlTypeOK, Cycles
    <3> QED
      BY <3>1 DEF SlotInv, FreshIsEmpty
  <2>3. \A w \in Workers : pc'[w] = pc[w] \/ (pc[w] = "none" /\ pc'[w] = "ready")
    BY <1>1, <2>2 DEF Start
  <2> QED
    BY <2>1, <2>3, FuturesKept
<1>2. CASE BeginStop \/ Join \/ Detach \/ EndJoin \/ EndStop
  <2>1. UNCHANGED <<queue, outcome, last_id, item, pc>>
    BY <1>2 DEF BeginStop, Join, Detach, EndJoin, EndStop, cyclevars, workervars
  <2> QED
    BY <2>1, FuturesKept
<1>3. CASE NotifyAll
  <2>1. UNCHANGED <<queue, outcome, last_id, item>>
    BY <1>3 DEF NotifyAll, cyclevars
  <2>2. \A w \in Workers : pc'[w] = pc[w] \/ (pc[w] = "asleep" /\ pc'[w] = "ready")
    BY <1>3 DEF NotifyAll
  <2> QED
    BY <2>1, <2>2, FuturesKept
<1>4. CASE DropLeftover
  BY <1>4, SweepKeepsFutures
<1> QED
  BY <1>1, <1>2, <1>3, <1>4 DEF MainStep, StopStep

(* An accepted item is new, and it is in the queue and nowhere else.       *)
LEMMA EnqueueKeepsFutures ==
    ASSUME IInv, SlotInv, FutureInv, NEW s \in Submitters, NEW sync \in BOOLEAN, SubmitEnqueue(s, sync)
    PROVE  FutureInv'
<1>1. PICK h, n : h = held[s] /\ n = last_id + 1
  OBVIOUS
<1>2. h \in Cycles
  BY <1>1, HandleIsCycle DEF SubmitEnqueue, IInv, ControlTypeOK
<1>3. /\ queue' = [queue EXCEPT ![h] = Append(@, n)]
      /\ outcome' = [outcome EXCEPT ![n] = "queued"]
      /\ last_id' = n /\ UNCHANGED <<pc, item>>
  BY <1>1 DEF SubmitEnqueue, workervars
<1>4. n \in Items /\ n > last_id /\ last_id \in Nat /\ n = last_id + 1
  BY <1>1, BoundsAssumption DEF SubmitEnqueue, IInv, ControlTypeOK, Items
<1>5. outcome[n] = "none"
  BY <1>4 DEF FutureInv
<1>6. \A i \in Items : outcome'[i] = IF i = n THEN "queued" ELSE outcome[i]
  BY <1>3, FutureTypes
<1>7. \A i \in Items : InQueue(i)' <=> InQueue(i) \/ i = n
  <2>1. queue[h] \in Seq(Items) /\ \A c \in Cycles : c # h => queue'[c] = queue[c]
    BY <1>2, <1>3, FutureTypes
  <2>2. queue'[h] = Append(queue[h], n)
    BY <1>2, <1>3, FutureTypes
  <2>3. /\ DOMAIN queue'[h] = DOMAIN queue[h] \cup {Len(queue[h]) + 1}
        /\ \A k \in DOMAIN queue[h] : queue'[h][k] = queue[h][k]
        /\ queue'[h][Len(queue[h]) + 1] = n
    BY <1>4, <2>1, <2>2
  <2>4. ASSUME NEW i \in Items, InQueue(i) PROVE InQueue(i)'
    <3>0. PICK c \in Cycles : \E k \in DOMAIN queue[c] : queue[c][k] = i
      BY <2>4 DEF InQueue
    <3>1. PICK k \in DOMAIN queue[c] : queue[c][k] = i
      BY <3>0
    <3>2. k \in DOMAIN queue'[c] /\ queue'[c][k] = i
      BY <2>1, <2>3, <3>1
    <3> QED
      BY <3>2 DEF InQueue
  <2>5. InQueue(n)'
    BY <1>2, <2>3 DEF InQueue
  <2>6. ASSUME NEW i \in Items, InQueue(i)' PROVE InQueue(i) \/ i = n
    <3>0. PICK c \in Cycles : \E k \in DOMAIN queue'[c] : queue'[c][k] = i
      BY <2>6 DEF InQueue
    <3>1. PICK k \in DOMAIN queue'[c] : queue'[c][k] = i
      BY <3>0
    <3>2. (k \in DOMAIN queue[c] /\ queue[c][k] = i) \/ i = n
      BY <2>1, <2>3, <3>1
    <3> QED
      BY <3>2 DEF InQueue
  <2> QED
    BY <2>4, <2>5, <2>6
<1>8. \A i \in Items : (outcome[i] = "queued" <=> InQueue(i)) /\ (outcome[i] = "running" <=> InWork(i))
  BY DEF FutureInv, FuturesAreHeld
<1>9. \A i \in Items : InWork(i)' <=> InWork(i)
  BY <1>3 DEF InWork
<1>10. FuturesAreHeld'
  <2>1. \A i \in Items : (outcome'[i] = "queued" <=> InQueue(i)') /\ (outcome'[i] = "running" <=> InWork(i)')
    BY <1>5, <1>6, <1>7, <1>8, <1>9
  <2>2. \A v, w \in Workers : item'[v] # 0 /\ item'[v] = item'[w] => v = w
    BY <1>3 DEF FutureInv, FuturesAreHeld
  <2> QED
    BY <2>1, <2>2 DEF FuturesAreHeld
<1>11. ASSUME NEW w \in Workers, pc'[w] = "settled" PROVE outcome'[item'[w]] \in Settled
  <2>1. item'[w] = item[w] /\ pc[w] = "settled"
    BY <1>3, <1>11
  <2>2. item[w] \in Items
    BY <2>1, FutureTypes DEF SlotInv, OwnersAreBusy, Items
  <2>3. outcome[item[w]] \in Settled
    BY <2>1 DEF FutureInv
  <2>4. item[w] # n
    BY <1>5, <2>3 DEF Settled
  <2> QED
    BY <1>6, <2>1, <2>2, <2>3, <2>4
<1>12. \A i \in Items : i > last_id' => outcome'[i] = "none"
  <2>1. \A i \in Items : i > n => i > last_id /\ i # n
    BY <1>4 DEF Items
  <2> QED
    BY <1>3, <1>6, <2>1 DEF FutureInv
<1> QED
  BY <1>10, <1>11, <1>12 DEF FutureInv

(* A submitter adds an item, or moves none.                                *)
LEMMA SubmitStepFutures == IInv /\ SlotInv /\ FutureInv /\ AnySubmitStep => FutureInv'
<1> SUFFICES ASSUME IInv, SlotInv, FutureInv, NEW s \in Submitters,
                    \/ SubmitLoad(s) \/ SubmitReject(s) \/ NotifyOne(s) \/ RunSyncReturns(s)
                    \/ \E sync \in BOOLEAN : SubmitEnqueue(s, sync)
             PROVE  FutureInv'
  BY DEF AnySubmitStep
<1>1. CASE SubmitLoad(s) \/ SubmitReject(s) \/ NotifyOne(s) \/ RunSyncReturns(s)
  <2>1. UNCHANGED <<queue, outcome, last_id, item>>
    BY <1>1 DEF SubmitLoad, SubmitReject, NotifyOne, RunSyncReturns, cyclevars, workervars
  <2>2. \A w \in Workers : pc'[w] = pc[w] \/ (pc[w] = "asleep" /\ pc'[w] = "ready")
    BY <1>1, FutureTypes DEF SubmitLoad, SubmitReject, NotifyOne, RunSyncReturns, workervars
  <2> QED
    BY <2>1, <2>2, FuturesKept
<1>2. CASE \E sync \in BOOLEAN : SubmitEnqueue(s, sync)
  BY <1>2, EnqueueKeepsFutures
<1> QED
  BY <1>1, <1>2

(* The front item goes from the queue to the hands of the worker.          *)
LEMMA TakeKeepsFutures ==
    ASSUME IInv, SlotInv, FutureInv, NEW w \in Workers, Take(w)
    PROVE  FutureInv'
<1>1. PICK c, h : c = w[1] /\ h = Head(queue[c])
  OBVIOUS
<1>2. /\ queue[c] # <<>> /\ pc[w] = "ready" /\ last_id' = last_id
      /\ queue' = [queue EXCEPT ![c] = Tail(@)] /\ item' = [item EXCEPT ![w] = h]
      /\ outcome' = [outcome EXCEPT ![h] = "running"] /\ pc' = [pc EXCEPT ![w] = "busy"]
  BY <1>1 DEF Take
<1>3. c \in Cycles
  BY <1>1, WorkerPair
<1>4. queue[c] \in Seq(Items) /\ queue'[c] = Tail(queue[c])
  BY <1>2, <1>3, FutureTypes
<1>5. /\ h \in Items /\ h = queue[c][1] /\ 1 \in DOMAIN queue[c]
      /\ DOMAIN queue[c] = 1..Len(queue[c]) /\ Len(queue[c]) \in Nat
      /\ DOMAIN queue'[c] = 1..(Len(queue[c]) - 1)
      /\ \A k \in DOMAIN queue'[c] : queue'[c][k] = queue[c][k + 1]
  <2>1. h \in Items
    BY <1>1, <1>2, <1>4, TakeKeepsItems
  <2>2. /\ Head(queue[c]) = queue[c][1] /\ Len(queue[c]) \in Nat \ {0}
        /\ DOMAIN queue[c] = 1..Len(queue[c])
        /\ DOMAIN Tail(queue[c]) = 1..(Len(queue[c]) - 1)
        /\ \A k \in DOMAIN Tail(queue[c]) : Tail(queue[c])[k] = queue[c][k + 1]
    BY <1>2, <1>4, TakeMovesUp
  <2>3. 1 \in DOMAIN queue[c]
    BY <2>2
  <2> QED
    BY <1>1, <1>4, <2>1, <2>2, <2>3
<1>6. \A i \in Items : outcome'[i] = IF i = h THEN "running" ELSE outcome[i]
  BY <1>2, FutureTypes
<1>7. \A v \in Workers : /\ item'[v] = IF v = w THEN h ELSE item[v]
                         /\ pc'[v] = IF v = w THEN "busy" ELSE pc[v]
  BY <1>2, FutureTypes
<1>8. \A d \in Cycles : d # c => queue'[d] = queue[d]
  BY <1>2, FutureTypes
<1>9. \A i \in Items : (outcome[i] = "queued" <=> InQueue(i)) /\ (outcome[i] = "running" <=> InWork(i))
  BY DEF FutureInv, FuturesAreHeld
<1>10. outcome[h] = "queued"
  BY <1>3, <1>5, <1>9 DEF InQueue
<1>11. \A i \in Items : InQueue(i)' <=> InQueue(i) /\ i # h
  <2>1. ASSUME NEW i \in Items, InQueue(i)' PROVE InQueue(i) /\ i # h
    <3>0. PICK d \in Cycles : \E k \in DOMAIN queue'[d] : queue'[d][k] = i
      BY <2>1 DEF InQueue
    <3>1. PICK k \in DOMAIN queue'[d] : queue'[d][k] = i
      BY <3>0
    <3>2. CASE d = c
      <4>1. k + 1 \in DOMAIN queue[c] /\ queue[c][k + 1] = i /\ k + 1 # 1
        <5>1. k \in 1..(Len(queue[c]) - 1) /\ queue[c][k + 1] = i
          BY <1>5, <3>1, <3>2
        <5>2. k + 1 \in 1..Len(queue[c]) /\ k + 1 # 1
          BY <1>5, <5>1
        <5> QED
          BY <1>5, <5>1, <5>2
      <4>2. i # h
        BY <1>3, <1>5, <4>1, QueuedOnce
      <4> QED
        BY <1>3, <4>1, <4>2 DEF InQueue
    <3>3. CASE d # c
      <4>1. k \in DOMAIN queue[d] /\ queue[d][k] = i
        BY <1>8, <3>1, <3>3
      <4>2. i # h
        BY <1>3, <1>5, <3>3, <4>1, QueuedOnce
      <4> QED
        BY <4>1, <4>2 DEF InQueue
    <3> QED
      BY <3>2, <3>3
  <2>2. ASSUME NEW i \in Items, InQueue(i), i # h PROVE InQueue(i)'
    <3>0. PICK d \in Cycles : \E k \in DOMAIN queue[d] : queue[d][k] = i
      BY <2>2 DEF InQueue
    <3>1. PICK k \in DOMAIN queue[d] : queue[d][k] = i
      BY <3>0
    <3>2. CASE d = c
      <4>1. k # 1 /\ k \in 1..Len(queue[c])
        BY <1>5, <2>2, <3>1, <3>2
      <4>2. k - 1 \in DOMAIN queue'[c] /\ (k - 1) + 1 = k
        BY <1>5, <4>1
      <4>3. queue'[c][k - 1] = i
        BY <1>5, <3>1, <3>2, <4>2
      <4> QED
        BY <1>3, <4>2, <4>3 DEF InQueue
    <3>3. CASE d # c
      BY <1>8, <3>1, <3>3 DEF InQueue
    <3> QED
      BY <3>2, <3>3
  <2> QED
    BY <2>1, <2>2
<1>12. \A i \in Items : InWork(i)' <=> InWork(i) \/ i = h
  BY <1>2, <1>7 DEF InWork
<1>13. \A v \in Workers : v # w => item[v] # h
  <2> SUFFICES ASSUME NEW v \in Workers, item[v] = h PROVE FALSE
    OBVIOUS
  <2>1. h # 0
    BY <1>5 DEF Items
  <2>2. pc[v] \in {"busy", "settled"}
    BY <2>1 DEF SlotInv, OwnersAreBusy
  <2>3. CASE pc[v] = "busy"
    BY <1>5, <1>9, <1>10, <2>3 DEF InWork
  <2>4. CASE pc[v] = "settled"
    BY <1>10, <2>4 DEF FutureInv, Settled
  <2> QED
    BY <2>2, <2>3, <2>4
<1>14. FuturesAreHeld'
  <2>1. \A i \in Items : (outcome'[i] = "queued" <=> InQueue(i)') /\ (outcome'[i] = "running" <=> InWork(i)')
    BY <1>6, <1>9, <1>11, <1>12
  <2>2. \A u, v \in Workers : item'[u] # 0 /\ item'[u] = item'[v] => u = v
    BY <1>7, <1>13 DEF FutureInv, FuturesAreHeld
  <2> QED
    BY <2>1, <2>2 DEF FuturesAreHeld
<1>15. ASSUME NEW v \in Workers, pc'[v] = "settled" PROVE outcome'[item'[v]] \in Settled
  <2>1. v # w /\ item'[v] = item[v] /\ pc[v] = "settled"
    BY <1>7, <1>15
  <2>2. item[v] \in Items /\ item[v] # h
    BY <1>13, <2>1, FutureTypes DEF SlotInv, OwnersAreBusy, Items
  <2>3. outcome[item[v]] \in Settled
    BY <2>1 DEF FutureInv
  <2> QED
    BY <1>6, <2>1, <2>2, <2>3
<1>16. \A i \in Items : i > last_id' => outcome'[i] = "none"
  BY <1>2, <1>6, <1>10 DEF FutureInv
<1> QED
  BY <1>14, <1>15, <1>16 DEF FutureInv

(* A worker that is inside an item holds a future that is running, and no  *)
(* other worker holds it.                                                  *)
LEMMA BusyRuns ==
    ASSUME IInv, SlotInv, FutureInv, NEW w \in Workers, pc[w] = "busy"
    PROVE  /\ item[w] \in Items /\ outcome[item[w]] = "running"
           /\ \A v \in Workers : item[v] = item[w] => v = w
<1>1. item[w] # 0 /\ item[w] \in Items
  BY FutureTypes DEF SlotInv, OwnersAreBusy, Items
<1>2. outcome[item[w]] = "running"
  BY <1>1 DEF FutureInv, FuturesAreHeld, InWork
<1> QED
  BY <1>1, <1>2 DEF FutureInv, FuturesAreHeld

(* The run of an item settles its future, and the item leaves the hands.   *)
LEMMA SettleKeepsFutures ==
    ASSUME IInv, SlotInv, FutureInv, NEW w \in Workers, NEW o \in {"done", "failed"}, Settle(w, o)
    PROVE  FutureInv'
<1>1. PICK h : h = item[w]
  OBVIOUS
<1>2. /\ pc[w] = "busy" /\ outcome' = [outcome EXCEPT ![h] = o]
      /\ pc' = [pc EXCEPT ![w] = "settled"] /\ UNCHANGED <<queue, item, last_id>>
  BY <1>1 DEF Settle, cyclevars
<1>3. h \in Items /\ outcome[h] = "running" /\ \A v \in Workers : item[v] = h => v = w
  BY <1>1, <1>2, BusyRuns
<1>4. \A i \in Items : outcome'[i] = IF i = h THEN o ELSE outcome[i]
  BY <1>2, FutureTypes
<1>5. \A v \in Workers : pc'[v] = IF v = w THEN "settled" ELSE pc[v]
  BY <1>2, FutureTypes
<1>6. o \in Settled
  BY DEF Settled
<1>7. \A i \in Items : (outcome[i] = "queued" <=> InQueue(i)) /\ (outcome[i] = "running" <=> InWork(i))
  BY DEF FutureInv, FuturesAreHeld
<1>8. \A i \in Items : InQueue(i)' <=> InQueue(i)
  BY <1>2 DEF InQueue
<1>9. \A i \in Items : InWork(i)' <=> InWork(i) /\ i # h
  BY <1>1, <1>2, <1>3, <1>5 DEF InWork
<1>10. FuturesAreHeld'
  <2>1. \A i \in Items : (outcome'[i] = "queued" <=> InQueue(i)') /\ (outcome'[i] = "running" <=> InWork(i)')
    BY <1>3, <1>4, <1>7, <1>8, <1>9
  <2>2. \A u, v \in Workers : item'[u] # 0 /\ item'[u] = item'[v] => u = v
    BY <1>2 DEF FutureInv, FuturesAreHeld
  <2> QED
    BY <2>1, <2>2 DEF FuturesAreHeld
<1>11. ASSUME NEW v \in Workers, pc'[v] = "settled" PROVE outcome'[item'[v]] \in Settled
  <2>1. CASE v = w
    BY <1>1, <1>2, <1>3, <1>4, <1>6, <2>1
  <2>2. CASE v # w
    <3>1. pc[v] = "settled" /\ item'[v] = item[v] /\ item[v] # h
      BY <1>2, <1>3, <1>5, <1>11, <2>2
    <3>2. item[v] \in Items
      BY <3>1, FutureTypes DEF SlotInv, OwnersAreBusy, Items
    <3>3. outcome[item[v]] \in Settled
      BY <3>1 DEF FutureInv
    <3> QED
      BY <1>4, <3>1, <3>2, <3>3
  <2> QED
    BY <2>1, <2>2
<1>12. \A i \in Items : i > last_id' => outcome'[i] = "none"
  <2>1. ~(h > last_id)
    BY <1>3 DEF FutureInv
  <2> QED
    BY <1>2, <1>4, <2>1 DEF FutureInv
<1> QED
  BY <1>10, <1>11, <1>12 DEF FutureInv

(* A worker moves an item, settles it, or leaves every future alone.       *)
LEMMA WorkerStepFutures == IInv /\ SlotInv /\ FutureInv /\ AnyWorkerStep => FutureInv'
<1> SUFFICES ASSUME IInv, SlotInv, FutureInv, NEW w \in Workers,
                    \/ Sleep(w) \/ WakeSpuriously(w) \/ Exit(w) \/ Take(w) \/ Release(w)
                    \/ \E o \in {"done", "failed"} : Settle(w, o)
             PROVE  FutureInv'
  BY DEF AnyWorkerStep
<1>1. CASE Sleep(w) \/ WakeSpuriously(w) \/ Exit(w)
  <2>1. UNCHANGED <<queue, outcome, last_id, item>>
    BY <1>1 DEF Sleep, WakeSpuriously, Exit, cyclevars
  <2>2. \A v \in Workers : pc'[v] = pc[v]
            \/ (pc[v] \in {"ready", "asleep"} /\ pc'[v] \in {"ready", "asleep", "exited"})
    BY <1>1, FutureTypes DEF Sleep, WakeSpuriously, Exit
  <2> QED
    BY <2>1, <2>2, FuturesKept
<1>2. CASE Release(w)
  <2>1. UNCHANGED <<queue, outcome, last_id>>
    BY <1>2 DEF Release
  <2>2. /\ \A v \in Workers : v # w => pc'[v] = pc[v] /\ item'[v] = item[v]
        /\ pc[w] = "settled" /\ pc'[w] = "ready" /\ item'[w] = 0
    BY <1>2, FutureTypes DEF Release
  <2> QED
    BY <2>1, <2>2, FuturesKept
<1>3. CASE Take(w)
  BY <1>3, TakeKeepsFutures
<1>4. CASE \E o \in {"done", "failed"} : Settle(w, o)
  BY <1>4, SettleKeepsFutures
<1> QED
  BY <1>1, <1>2, <1>3, <1>4

(* The futures stay with their items, together with the slots.             *)
LEMMA FutureInvariance == Spec => [](IInv /\ SlotInv /\ FutureInv)
<1>1. Init => FutureInv
  <2> SUFFICES ASSUME Init PROVE FutureInv
    OBVIOUS
  <2>1. \A i \in Items : outcome[i] = "none" /\ ~InQueue(i) /\ ~InWork(i)
    BY DEF Init, InQueue, InWork
  <2>2. \A w \in Workers : item[w] = 0 /\ pc[w] # "settled"
    BY DEF Init
  <2> QED
    BY <2>1, <2>2 DEF FutureInv, FuturesAreHeld
<1>2. IInv /\ SlotInv /\ FutureInv /\ [Next]_vars => FutureInv'
  <2>1. FutureInv /\ UNCHANGED vars => FutureInv'
    <3> SUFFICES ASSUME FutureInv, UNCHANGED vars PROVE FutureInv'
      OBVIOUS
    <3>1. UNCHANGED <<queue, outcome, last_id, pc, item>>
      BY DEF vars, cyclevars, workervars
    <3> QED
      BY <3>1, FuturesKept
  <2> QED
    BY <2>1, NextSteps, MainStepFutures, SubmitStepFutures, WorkerStepFutures
<1> QED
  BY <1>1, <1>2, SlotInvariance, PTL DEF Spec

(* A slot is counted from the enqueue to the destruction of the item,      *)
(* through throws, detached workers, sweeps and restarts, no item          *)
(* overtakes an older one of its cycle, and the item of an unsettled       *)
(* future is in one queue or in the hands of one worker.                   *)
THEOREM SlotsStayIntact == Spec => []CyclesAreIntact
<1>1. IInv /\ SlotInv /\ FutureInv => CyclesAreIntact
  <2> SUFFICES ASSUME IInv, SlotInv, FutureInv PROVE CyclesAreIntact
    OBVIOUS
  <2>1. state_ # 0 => state_ \in Cycles
    BY HandleIsCycle DEF IInv, ControlTypeOK
  <2>2. InflightIsExact
    BY <2>1 DEF SlotInv, SlotsAreHeld, InflightIsExact
  <2>3. TypeOK /\ StartsInOrder /\ FuturesAreHeld
    BY DEF IInv, SlotInv, FutureInv, TypeOK
  <2> QED
    BY <2>2, <2>3 DEF CyclesAreIntact
<1> QED
  BY <1>1, FutureInvariance, PTL

-----------------------------------------------------------------------------
(* The executor implements the one-shot promise.                           *)

(* The futures not settled yet, those that are, and what their callers     *)
(* got, as the promise sees them.                                          *)
OpenItems == {i \in Items : outcome[i] \in {"queued", "running"}}
ClosedItems == {i \in Items : outcome[i] \in Settled}
Answers == [i \in Items |-> IF outcome[i] \in {"done", "failed"} THEN <<outcome[i]>> ELSE <<>>]

(* A step that leaves the futures alone is a stutter of the promise.       *)
LEMMA SameOutcomes ==
    ASSUME UNCHANGED outcome
    PROVE  [Promise!Next]_(Promise!vars)
<1>1. UNCHANGED <<OpenItems, ClosedItems, Answers>>
  BY DEF OpenItems, ClosedItems, Answers
<1> QED
  BY <1>1 DEF Promise!vars, OpenItems, ClosedItems, Answers

(* Queueing an item begins its operation.                                  *)
LEMMA EnqueueBegins ==
    ASSUME IInv, FutureInv, NEW s \in Submitters, NEW sync \in BOOLEAN, SubmitEnqueue(s, sync)
    PROVE  \E i \in Items : Promise!Begin(i)
<1>1. PICK n : n = last_id + 1
  OBVIOUS
<1>2. n \in Items /\ n > last_id
  BY <1>1, BoundsAssumption DEF SubmitEnqueue, IInv, ControlTypeOK, Items
<1>3. outcome' = [outcome EXCEPT ![n] = "queued"] /\ outcome[n] = "none"
  BY <1>1, <1>2 DEF SubmitEnqueue, FutureInv
<1>4. \A i \in Items : outcome'[i] = IF i = n THEN "queued" ELSE outcome[i]
  BY <1>3, FutureTypes
<1>5. OpenItems' = OpenItems \cup {n} /\ n \notin OpenItems
  BY <1>2, <1>3, <1>4 DEF OpenItems
<1>6. ClosedItems' = ClosedItems /\ n \notin ClosedItems
  BY <1>2, <1>3, <1>4 DEF ClosedItems, Settled
<1>7. Answers' = Answers
  BY <1>2, <1>3, <1>4 DEF Answers
<1>8. Promise!Begin(n)
  BY <1>5, <1>6, <1>7 DEF Promise!Begin, OpenItems, ClosedItems, Answers
<1> QED
  BY <1>2, <1>8

(* The run of an item settles its operation with the run's outcome.        *)
LEMMA RunSettles ==
    ASSUME IInv, SlotInv, FutureInv, NEW w \in Workers, NEW o \in {"done", "failed"}, Settle(w, o)
    PROVE  \E i \in Items, p \in {"done", "failed"} : Promise!Settle(i, p)
<1>1. PICK h : h = item[w]
  OBVIOUS
<1>2. pc[w] = "busy" /\ outcome' = [outcome EXCEPT ![h] = o]
  BY <1>1 DEF Settle
<1>3. h \in Items /\ outcome[h] = "running"
  BY <1>1, <1>2, BusyRuns
<1>4. \A i \in Items : outcome'[i] = IF i = h THEN o ELSE outcome[i]
  BY <1>2, FutureTypes
<1>5. OpenItems' = OpenItems \ {h} /\ h \in OpenItems
  BY <1>3, <1>4 DEF OpenItems
<1>6. ClosedItems' = ClosedItems \cup {h}
  BY <1>3, <1>4 DEF ClosedItems, Settled
<1>7. Answers' = [Answers EXCEPT ![h] = <<o>>]
  BY <1>3, <1>4 DEF Answers
<1>8. Promise!Settle(h, o)
  BY <1>5, <1>6, <1>7 DEF Promise!Settle, OpenItems, ClosedItems, Answers
<1> QED
  BY <1>3, <1>8

(* A sweep withdraws the operations it finds queued, if any.               *)
LEMMA SweepWithdraws ==
    ASSUME IInv, FutureInv, DropLeftover
    PROVE  [Promise!Next]_(Promise!vars)
<1>1. PICK S : S = {i \in Items : Leftover(i)}
  OBVIOUS
<1>2. \A i \in Items : outcome'[i] = IF i \in S THEN "broken" ELSE outcome[i]
  BY <1>1 DEF DropLeftover
<1>3. S \subseteq Items /\ \A i \in S : outcome[i] = "queued"
  <2>1. state_ \in Cycles
    BY HandleIsCycle DEF IInv, ControlTypeOK, HandleInv, DropLeftover
  <2> QED
    BY <1>1, <2>1 DEF Leftover, InQueue, FutureInv, FuturesAreHeld
<1>4. OpenItems' = OpenItems \ S /\ S \in SUBSET OpenItems
  BY <1>2, <1>3 DEF OpenItems
<1>5. ClosedItems' = ClosedItems \cup S
  BY <1>2, <1>3 DEF ClosedItems, Settled
<1>6. Answers' = Answers
  BY <1>2, <1>3 DEF Answers
<1>7. CASE S = {}
  <2>1. UNCHANGED <<OpenItems, ClosedItems, Answers>>
    BY <1>4, <1>5, <1>6, <1>7
  <2> QED
    BY <2>1 DEF Promise!vars, OpenItems, ClosedItems, Answers
<1>8. CASE S # {}
  <2>1. Promise!Withdraw(S)
    BY <1>4, <1>5, <1>6, <1>8 DEF Promise!Withdraw, OpenItems, ClosedItems, Answers
  <2>2. \E T \in SUBSET OpenItems : Promise!Withdraw(T)
    BY <1>4, <2>1
  <2> QED
    BY <2>2 DEF Promise!Next, OpenItems
<1> QED
  BY <1>7, <1>8

(* Starting an item changes nothing its caller can see.                    *)
LEMMA TakeIsSilent ==
    ASSUME IInv, FutureInv, NEW w \in Workers, Take(w)
    PROVE  [Promise!Next]_(Promise!vars)
<1>1. PICK c, h : c = w[1] /\ h = Head(queue[c])
  OBVIOUS
<1>2. queue[c] # <<>> /\ outcome' = [outcome EXCEPT ![h] = "running"]
  BY <1>1 DEF Take
<1>3. c \in Cycles /\ queue[c] \in Seq(Items)
  BY <1>1, WorkerPair, FutureTypes
<1>4. h \in Items /\ 1 \in DOMAIN queue[c] /\ queue[c][1] = h
  BY <1>1, <1>2, <1>3
<1>5. outcome[h] = "queued"
  BY <1>3, <1>4 DEF FutureInv, FuturesAreHeld, InQueue
<1>6. \A i \in Items : outcome'[i] = IF i = h THEN "running" ELSE outcome[i]
  BY <1>2, FutureTypes
<1>7. OpenItems' = OpenItems /\ ClosedItems' = ClosedItems
  BY <1>5, <1>6 DEF OpenItems, ClosedItems, Settled
<1>8. Answers' = Answers
  BY <1>5, <1>6 DEF Answers
<1> QED
  BY <1>7, <1>8 DEF Promise!vars, OpenItems, ClosedItems, Answers

(* Every run of the executor is a run of the promise: whatever stop() and  *)
(* start(), detached workers and late submitters do, the future of an      *)
(* accepted item gets one outcome of one run, or breaks before any run.    *)
THEOREM OneOutcomePerFuture == Spec => ImplementsOneShot
<1>1. Init => Promise!Init
  <2> SUFFICES ASSUME Init PROVE Promise!Init
    OBVIOUS
  <2>1. \A i \in Items : outcome[i] = "none"
    BY DEF Init
  <2>2. OpenItems = {} /\ ClosedItems = {} /\ Answers = [i \in Items |-> <<>>]
    BY <2>1 DEF OpenItems, ClosedItems, Answers, Settled
  <2> QED
    BY <2>2 DEF Promise!Init, OpenItems, ClosedItems, Answers
<1>2. IInv /\ SlotInv /\ FutureInv /\ [Next]_vars => [Promise!Next]_(Promise!vars)
  <2> SUFFICES ASSUME IInv, SlotInv, FutureInv, [Next]_vars PROVE [Promise!Next]_(Promise!vars)
    OBVIOUS
  <2>1. CASE \E s \in Submitters, sync \in BOOLEAN : SubmitEnqueue(s, sync)
    BY <2>1, EnqueueBegins DEF Promise!Next
  <2>2. CASE \E w \in Workers, o \in {"done", "failed"} : Settle(w, o)
    BY <2>2, RunSettles DEF Promise!Next
  <2>3. CASE DropLeftover
    BY <2>3, SweepWithdraws
  <2>4. CASE \E w \in Workers : Take(w)
    BY <2>4, TakeIsSilent
  <2>5. CASE UNCHANGED outcome
    BY <2>5, SameOutcomes
  <2>6. \/ \E s \in Submitters, sync \in BOOLEAN : SubmitEnqueue(s, sync)
        \/ \E w \in Workers, o \in {"done", "failed"} : Settle(w, o)
        \/ DropLeftover
        \/ \E w \in Workers : Take(w)
        \/ UNCHANGED outcome
    BY DEF Next, vars, Start, BeginStop, NotifyAll, Join, Detach, EndJoin, EndStop,
           SubmitLoad, SubmitReject, NotifyOne, RunSyncReturns, Sleep, WakeSpuriously, Exit, Release
  <2> QED
    BY <2>1, <2>2, <2>3, <2>4, <2>5, <2>6
<1> QED
  BY <1>1, <1>2, FutureInvariance, PTL DEF Spec, ImplementsOneShot, Promise!Spec
=============================================================================
