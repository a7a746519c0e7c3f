----------------------------- MODULE HttpExecutor -----------------------------
(***************************************************************************)
(* helix::http::HttpExecutor: a FIFO queue served by WorkerCount threads.  *)
(* start() makes a fresh SharedState and its workers (a start cycle);      *)
(* stop() signals them, joins each until one shared deadline, detaches     *)
(* the ones still inside an item, breaks the promises left in the queue    *)
(* and drops its handle.  submit() reads the handle with an atomic load,   *)
(* outside every lock, so it may act on a cycle that is already stopping   *)
(* or gone, or on one older than the cycle now running.  fast() is this    *)
(* module with four workers, slow() with one.                              *)
(***************************************************************************)
EXTENDS Naturals, Sequences, FiniteSets

CONSTANTS WorkerCount, \* worker_count_
          Submitters,  \* threads that call submit() and run_sync()
          MaxCycles,   \* bound: calls of start() that make a new state
          MaxItems     \* bound: items accepted by a queue

ASSUME WorkerCountAssumption == WorkerCount \in Nat \ {0}
ASSUME BoundsAssumption == {MaxCycles, MaxItems} \subseteq Nat

Cycles == 1..MaxCycles
Items == 1..MaxItems
Workers == Cycles \X (1..WorkerCount)

VARIABLES
    state_,    \* the cycle whose SharedState the executor holds, 0 for null
    cycle,     \* start cycles so far
    running_,  \* main thread's flag
    queue,     \* queue[c]: items of cycle c, oldest first
    stopping,  \* cycles whose SharedState has stopping set
    inflight,  \* inflight[c]: the counter of cycle c
    pc,        \* pc[w]: where worker w is in loop()
    item,      \* item[w]: the item w has dequeued, 0 for none
    detached,  \* workers that stop() gave up on
    stage,     \* where the main thread is in stop()
    joining,   \* the worker stop() waits for
    held,      \* held[s]: the cycle submit() has loaded, 0 for none
    notifying, \* notifying[s]: the cycle whose cv s is about to notify
    waiting,   \* waiting[s]: the item whose future run_sync() waits for
    last_id,   \* items accepted so far
    outcome    \* outcome[i]: the state of item i's future

cyclevars == <<queue, stopping, inflight>>
workervars == <<pc, item, detached>>
mainvars == <<state_, cycle, running_, stage, joining>>
submitvars == <<held, notifying, waiting>>
vars == <<cyclevars, workervars, mainvars, submitvars, last_id, outcome>>

Settled == {"done", "failed", "broken"}

\* The types of everything but the counter.
ControlTypeOK ==
    /\ state_ \in 0..MaxCycles
    /\ cycle \in 0..MaxCycles
    /\ running_ \in BOOLEAN
    /\ queue \in [Cycles -> Seq(Items)]
    /\ stopping \subseteq Cycles
    /\ pc \in [Workers -> {"none", "ready", "asleep", "busy", "settled", "exited"}]
    /\ item \in [Workers -> 0..MaxItems]
    /\ detached \subseteq Workers
    /\ stage \in {"none", "notify", "join", "clear", "drop"}
    /\ joining \in 1..(WorkerCount + 1)
    /\ held \in [Submitters -> 0..MaxCycles]
    /\ notifying \in [Submitters -> 0..MaxCycles]
    /\ waiting \in [Submitters -> 0..MaxItems]
    /\ last_id \in 0..MaxItems
    /\ outcome \in [Items -> {"none", "queued", "running"} \cup Settled]

(* Every variable keeps its type; in particular the size_t inflight never  *)
(* goes below zero, in whatever order an item's throw, a detached worker's *)
(* late return and stop()'s sweep give slots back.                         *)
TypeOK == ControlTypeOK /\ inflight \in [Cycles -> Nat]

Init ==
    /\ state_ = 0
    /\ cycle = 0
    /\ running_ = FALSE
    /\ queue = [c \in Cycles |-> <<>>]
    /\ stopping = {}
    /\ inflight = [c \in Cycles |-> 0]
    /\ pc = [w \in Workers |-> "none"]
    /\ item = [w \in Workers |-> 0]
    /\ detached = {}
    /\ stage = "none"
    /\ joining = 1
    /\ held = [s \in Submitters |-> 0]
    /\ notifying = [s \in Submitters |-> 0]
    /\ waiting = [s \in Submitters |-> 0]
    /\ last_id = 0
    /\ outcome = [i \in Items |-> "none"]

-----------------------------------------------------------------------------
(* The main thread.                                                        *)

\* start(): returns early while running_; otherwise a fresh SharedState, and
\* workers that hold it.
Start ==
    /\ stage = "none"
    /\ ~running_
    /\ cycle < MaxCycles
    /\ cycle' = cycle + 1
    /\ state_' = cycle + 1
    /\ running_' = TRUE
    /\ pc' = [w \in Workers |-> IF w[1] = cycle + 1 THEN "ready" ELSE pc[w]]
    /\ UNCHANGED <<cyclevars, item, detached, stage, joining, submitvars, last_id, outcome>>

\* stop(): under mu, mark the cycle as stopping.
BeginStop ==
    /\ stage = "none"
    /\ running_
    /\ running_' = FALSE
    /\ stopping' = stopping \cup {state_}
    /\ stage' = "notify"
    /\ UNCHANGED <<queue, inflight, workervars, state_, cycle, joining, submitvars,
                   last_id, outcome>>

\* cv.notify_all(), after the lock is released.
NotifyAll ==
    /\ stage = "notify"
    /\ pc' = [w \in Workers |-> IF w[1] = state_ /\ pc[w] = "asleep" THEN "ready" ELSE pc[w]]
    /\ stage' = "join"
    /\ joining' = 1
    /\ UNCHANGED <<cyclevars, item, detached, state_, cycle, running_, submitvars,
                   last_id, outcome>>

\* The worker whose turn it is has set done: join it.
Join ==
    /\ stage = "join"
    /\ joining <= WorkerCount
    /\ pc[<<state_, joining>>] = "exited"
    /\ joining' = joining + 1
    /\ UNCHANGED <<cyclevars, workervars, state_, cycle, running_, stage, submitvars,
                   last_id, outcome>>

\* The deadline passes first: detach it and go on with the next.
Detach ==
    /\ stage = "join"
    /\ joining <= WorkerCount
    /\ pc[<<state_, joining>>] # "exited"
    /\ detached' = detached \cup {<<state_, joining>>}
    /\ joining' = joining + 1
    /\ UNCHANGED <<cyclevars, pc, item, state_, cycle, running_, stage, submitvars,
                   last_id, outcome>>

\* Mutant: stop() clears workers_ before the join loop has passed every worker.
BugEndJoinEarly ==
    /\ stage = "join"
    /\ stage' = "clear"
    /\ UNCHANGED <<cyclevars, workervars, state_, cycle, running_, joining, submitvars,
                   last_id, outcome>>

\* workers_.clear() once every worker is joined or detached.
EndJoin ==
    /\ stage = "join"
    /\ joining = WorkerCount + 1
    /\ stage' = "clear"
    /\ UNCHANGED <<cyclevars, workervars, state_, cycle, running_, joining, submitvars,
                   last_id, outcome>>

\* Item i is still queued in the cycle that stop() ends.
Leftover(i) == \E k \in DOMAIN queue[state_] : queue[state_][k] = i

\* Under mu, move the leftovers out; their promises break.  inflight keeps
\* counting them: the handle is dropped next, and inflight() then answers 0.
DropLeftover ==
    /\ stage = "clear"
    /\ queue' = [queue EXCEPT ![state_] = <<>>]
    /\ outcome' = [i \in Items |-> IF Leftover(i) THEN "broken" ELSE outcome[i]]
    /\ stage' = "drop"
    /\ UNCHANGED <<stopping, inflight, workervars, state_, cycle, running_, joining,
                   submitvars, last_id>>

\* Drop the handle; stop() returns.
EndStop ==
    /\ stage = "drop"
    /\ state_' = 0
    /\ stage' = "none"
    /\ UNCHANGED <<cyclevars, workervars, cycle, running_, joining, submitvars,
                   last_id, outcome>>

-----------------------------------------------------------------------------
(* submit() and run_sync(), on any thread that waits for no future.        *)

Idle(s) == held[s] = 0 /\ notifying[s] = 0 /\ waiting[s] = 0

\* The atomic load.  A null handle breaks the promise at once: nothing is
\* submitted and the caller goes on.
SubmitLoad(s) ==
    /\ Idle(s)
    /\ state_ # 0
    /\ held' = [held EXCEPT ![s] = state_]
    /\ UNCHANGED <<cyclevars, workervars, mainvars, notifying, waiting, last_id, outcome>>

\* Mutant: stopping is not looked at under the lock.
BugSubmitEnqueueUnchecked(s, sync) ==
    LET c == held[s] IN
    /\ c # 0
    /\ last_id < MaxItems
    /\ last_id' = last_id + 1
    /\ inflight' = [inflight EXCEPT ![c] = @ + 1]
    /\ queue' = [queue EXCEPT ![c] = Append(@, last_id + 1)]
    /\ outcome' = [outcome EXCEPT ![last_id + 1] = "queued"]
    /\ notifying' = [notifying EXCEPT ![s] = c]
    /\ waiting' = [waiting EXCEPT ![s] = IF sync THEN last_id + 1 ELSE 0]
    /\ held' = [held EXCEPT ![s] = 0]
    /\ UNCHANGED <<stopping, workervars, mainvars>>

\* Under mu: reject (the promise is dropped) or count the item and queue it;
\* run_sync() goes on to wait for its future.
SubmitEnqueue(s, sync) ==
    LET c == held[s] IN
    /\ c # 0
    /\ c \notin stopping
    /\ last_id < MaxItems
    /\ last_id' = last_id + 1
    /\ inflight' = [inflight EXCEPT ![c] = @ + 1]
    /\ queue' = [queue EXCEPT ![c] = Append(@, last_id + 1)]
    /\ outcome' = [outcome EXCEPT ![last_id + 1] = "queued"]
    /\ notifying' = [notifying EXCEPT ![s] = c]
    /\ waiting' = [waiting EXCEPT ![s] = IF sync THEN last_id + 1 ELSE 0]
    /\ held' = [held EXCEPT ![s] = 0]
    /\ UNCHANGED <<stopping, workervars, mainvars>>

SubmitReject(s) ==
    /\ held[s] \in stopping
    /\ held' = [held EXCEPT ![s] = 0]
    /\ UNCHANGED <<cyclevars, workervars, mainvars, notifying, waiting, last_id, outcome>>

\* Mutant: submit() forgets to notify.
BugNotifyOneMissing(s) ==
    /\ notifying[s] # 0
    /\ notifying' = [notifying EXCEPT ![s] = 0]
    /\ UNCHANGED <<cyclevars, workervars, mainvars, held, waiting, last_id, outcome>>

\* cv.notify_one(), after the lock is released: wakes a sleeping worker, if
\* there is one.
NotifyOne(s) ==
    LET asleep == {w \in Workers : w[1] = notifying[s] /\ pc[w] = "asleep"} IN
    /\ notifying[s] # 0
    /\ notifying' = [notifying EXCEPT ![s] = 0]
    /\ \/ asleep = {} /\ UNCHANGED pc
       \/ \E w \in asleep : pc' = [pc EXCEPT ![w] = "ready"]
    /\ UNCHANGED <<cyclevars, item, detached, mainvars, held, waiting, last_id, outcome>>

\* fut.get() in run_sync() returns or throws.
RunSyncReturns(s) ==
    /\ notifying[s] = 0
    /\ waiting[s] # 0
    /\ outcome[waiting[s]] \in Settled
    /\ waiting' = [waiting EXCEPT ![s] = 0]
    /\ UNCHANGED <<cyclevars, workervars, mainvars, held, notifying, last_id, outcome>>

-----------------------------------------------------------------------------
(* loop(), on each worker.                                                 *)

\* cv.wait: the predicate is false under mu, so the worker sleeps.
Sleep(w) ==
    /\ pc[w] = "ready"
    /\ w[1] \notin stopping
    /\ queue[w[1]] = <<>>
    /\ pc' = [pc EXCEPT ![w] = "asleep"]
    /\ UNCHANGED <<cyclevars, item, detached, mainvars, submitvars, last_id, outcome>>

\* A condition variable may wake without a notification.
WakeSpuriously(w) ==
    /\ pc[w] = "asleep"
    /\ pc' = [pc EXCEPT ![w] = "ready"]
    /\ UNCHANGED <<cyclevars, item, detached, mainvars, submitvars, last_id, outcome>>

\* stopping wins over a non-empty queue: the worker leaves the loop and sets
\* done.
Exit(w) ==
    /\ pc[w] = "ready"
    /\ w[1] \in stopping
    /\ pc' = [pc EXCEPT ![w] = "exited"]
    /\ UNCHANGED <<cyclevars, item, detached, mainvars, submitvars, last_id, outcome>>

\* Dequeue the front item and run it without the lock.
Take(w) ==
    LET c == w[1] IN
    /\ pc[w] = "ready"
    /\ c \notin stopping
    /\ queue[c] # <<>>
    /\ queue' = [queue EXCEPT ![c] = Tail(@)]
    /\ item' = [item EXCEPT ![w] = Head(queue[c])]
    /\ outcome' = [outcome EXCEPT ![Head(queue[c])] = "running"]
    /\ pc' = [pc EXCEPT ![w] = "busy"]
    /\ UNCHANGED <<stopping, inflight, detached, mainvars, submitvars, last_id>>

\* Mutant: inflight is given back before the item is destroyed.
BugSettleReleases(w, o) ==
    /\ pc[w] = "busy"
    /\ outcome' = [outcome EXCEPT ![item[w]] = o]
    /\ inflight' = [inflight EXCEPT ![w[1]] = @ - 1]
    /\ pc' = [pc EXCEPT ![w] = "settled"]
    /\ UNCHANGED <<queue, stopping, item, detached, mainvars, submitvars, last_id>>

\* The item returns (set_value) or throws (set_exception): its future is
\* settled, but the item and its captures still exist.
Settle(w, o) ==
    /\ pc[w] = "busy"
    /\ outcome' = [outcome EXCEPT ![item[w]] = o]
    /\ pc' = [pc EXCEPT ![w] = "settled"]
    /\ UNCHANGED <<cyclevars, item, detached, mainvars, submitvars, last_id>>

\* The end of the loop's scope: the item is destroyed, and only then does
\* InflightGuard, declared ahead of it, give the slot back.
Release(w) ==
    /\ pc[w] = "settled"
    /\ item' = [item EXCEPT ![w] = 0]
    /\ inflight' = [inflight EXCEPT ![w[1]] = @ - 1]
    /\ pc' = [pc EXCEPT ![w] = "ready"]
    /\ UNCHANGED <<queue, stopping, detached, mainvars, submitvars, last_id, outcome>>

-----------------------------------------------------------------------------

WorkerStep(w) ==
    Sleep(w) \/ Exit(w) \/ Take(w) \/ (\E o \in {"done", "failed"} : Settle(w, o)) \/ Release(w)

SubmitStep(s) ==
    (\E sync \in BOOLEAN : SubmitEnqueue(s, sync)) \/ SubmitReject(s) \/ NotifyOne(s)
        \/ RunSyncReturns(s)

StopStep == NotifyAll \/ Join \/ Detach \/ EndJoin \/ DropLeftover \/ EndStop

Next ==
    \/ Start
    \/ BeginStop
    \/ NotifyAll \/ Join \/ Detach \/ EndJoin \/ DropLeftover \/ EndStop
    \/ \E s \in Submitters :
          \/ SubmitLoad(s) \/ SubmitReject(s) \/ NotifyOne(s) \/ RunSyncReturns(s)
          \/ \E sync \in BOOLEAN : SubmitEnqueue(s, sync)
    \/ \E w \in Workers :
          \/ Sleep(w) \/ WakeSpuriously(w) \/ Exit(w) \/ Take(w) \/ Release(w)
          \/ \E o \in {"done", "failed"} : Settle(w, o)

Spec == Init /\ [][Next]_vars

\* Every thread that is able to go on does: a worker is never starved, its
\* item returns at last (libhv calls have a timeout), submit() holds no lock
\* another thread keeps, and the deadline bounds stop().  Nobody is obliged
\* to submit, to start or to stop, and no spurious wake-up is counted on.
FairSpec ==
    /\ Spec
    /\ WF_vars(StopStep)
    /\ \A s \in Submitters : WF_vars(SubmitStep(s))
    /\ \A w \in Workers : WF_vars(WorkerStep(w))

-----------------------------------------------------------------------------
(* Properties.                                                             *)

Unfinished(c) == {w \in Workers : w[1] = c /\ item[w] # 0}

(* A promise that sits in a queue belongs to the cycle the executor still  *)
(* holds, and stop() has yet to sweep that queue.  submit()'s second look  *)
(* at stopping, under the lock the sweep takes, is what keeps a submitter  *)
(* that loaded the handle before stop() from queueing behind it, where no  *)
(* worker and no sweep would ever settle the future.                       *)
NoStrandedPromise ==
    \A c \in Cycles : queue[c] # <<>> => state_ = c /\ stage # "drop"

(* inflight() counts every item from the enqueue to the destruction of the *)
(* item and its captures, a throwing item included: while the executor     *)
(* holds the cycle, the count is the queue plus the items workers still    *)
(* own, so a caller that sees 0 knows that no capture is alive.            *)
InflightIsExact ==
    (state_ # 0 /\ stage # "drop") =>
        inflight[state_] = Len(queue[state_]) + Cardinality(Unfinished(state_))

(* Items of one executor start in the order submit() queued them: no item  *)
(* starts, in any worker of any cycle, while an older one of its cycle is  *)
(* still queued.                                                           *)
StartsInOrder ==
    \A c \in Cycles : \A k \in DOMAIN queue[c] :
        /\ \A j \in 1..(k - 1) : queue[c][j] < queue[c][k]
        /\ \A w \in Unfinished(c) : item[w] < queue[c][k]

InQueue(i) == \E c \in Cycles : \E k \in DOMAIN queue[c] : queue[c][k] = i
InWork(i) == \E w \in Workers : pc[w] = "busy" /\ item[w] = i

(* A future that is not settled has its item in exactly one place, a queue *)
(* or the hands of one worker, and what those hold is not settled yet: no  *)
(* sweep, detached worker or restart loses an item or runs one twice.      *)
FuturesAreHeld ==
    /\ \A i \in Items : (outcome[i] = "queued" <=> InQueue(i))
                      /\ (outcome[i] = "running" <=> InWork(i))
    /\ \A v, w \in Workers : item[v] # 0 /\ item[v] = item[w] => v = w

(* What a cycle's queue, its counter, its workers and the futures agree on *)
(* at every moment: each slot is held once, none twice, oldest first.      *)
CyclesAreIntact == TypeOK /\ InflightIsExact /\ StartsInOrder /\ FuturesAreHeld

(* When stop() has returned, a worker of a past cycle is done or is one    *)
(* stop() detached: workers_.clear() never destroys a joinable thread      *)
(* (which would terminate the process).                                    *)
StopLeavesOnlyDetached ==
    \A w \in Workers :
        (w[1] \in stopping /\ (w[1] # state_ \/ stage \in {"clear", "drop"})) =>
            pc[w] = "exited" \/ w \in detached

\* Where stop() stands decides which cycles reject work: every cycle made so
\* far but the one that runs.
HandleInv ==
    /\ state_ <= cycle
    /\ running_ <=> state_ # 0 /\ stage = "none"
    /\ stage # "none" => state_ # 0
    /\ \A c \in Cycles : c \in stopping <=> c <= cycle /\ (c = state_ => stage # "none")
    /\ \A s \in Submitters : held[s] <= cycle

\* stop()'s loop leaves every worker it has passed joined or detached.
JoinInv ==
    stage = "join" => \A w \in Workers :
        w[1] = state_ /\ w[2] < joining => pc[w] = "exited" \/ w \in detached

(* The inductive invariant behind NoStrandedPromise and                    *)
(* StopLeavesOnlyDetached: a cycle rejects work exactly when it is not the *)
(* running one, whatever handle a submitter holds, and stop() has settled  *)
(* the fate of every worker its loop has passed.                           *)
IInv ==
    /\ ControlTypeOK
    /\ HandleInv
    /\ JoinInv
    /\ NoStrandedPromise
    /\ StopLeavesOnlyDetached

(* Every accepted item's future is settled: it ran, it threw, or its       *)
(* promise broke.  The worker that must run it may be asleep when it is    *)
(* queued, stop() may come in between, and the worker may be detached.     *)
EveryFutureSettles ==
    \A i \in Items : outcome[i] # "none" ~> outcome[i] \in Settled

Promise == INSTANCE OneShot WITH
    Ops <- Items, Outcomes <- {"done", "failed"}, Exclusive <- FALSE,
    open <- {i \in Items : outcome[i] \in {"queued", "running"}},
    closed <- {i \in Items : outcome[i] \in Settled},
    told <- [i \in Items |-> IF outcome[i] \in {"done", "failed"} THEN <<outcome[i]>> ELSE <<>>]

(* The executor implements the one-shot promise: an accepted item's future *)
(* gets one value or one exception, from the run of the item, or its       *)
(* promise breaks without the item having run.                             *)
ImplementsOneShot == Promise!Spec
=============================================================================
