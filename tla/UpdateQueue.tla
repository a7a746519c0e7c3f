----------------------------- MODULE UpdateQueue -----------------------------
(***************************************************************************)
(* helix::ui::UpdateQueue and helix::AsyncLifetimeGuard: how background    *)
(* threads get work done on the LVGL main thread.  Any thread posts under  *)
(* mutex_; the main thread swaps the queue into a local batch and runs it  *)
(* without the lock.  A callback may itself post, drain() (a nested        *)
(* batch), freeze the queue for a scope, or destroy the object a later     *)
(* callback captured; the guard's generation counter is what makes the     *)
(* later callback skip.  shutdown() and init() alternate when the printer  *)
(* is switched (PrinterSession::teardown_printer_scope / rebuild).         *)
(***************************************************************************)
EXTENDS Naturals, Sequences, FiniteSets, SequencesExt

CONSTANTS Producers,     \* background threads
          Owners,        \* objects with an AsyncLifetimeGuard
          NoOwner,       \* the owner of an unguarded queue_update()
          NoToken,       \* a producer that holds no LifetimeToken
          MaxCallbacks,  \* bound: callbacks accepted by the queue
          MaxDepth,      \* bound: nested drains
          MaxFreeze,     \* bound: nested ScopedFreezes
          MaxGeneration, \* bound: invalidations of one guard
          MaxEpoch       \* bound: shutdowns

ASSUME BoundsAssumption ==
    {MaxCallbacks, MaxDepth, MaxFreeze, MaxGeneration, MaxEpoch} \subseteq Nat
ASSUME NoOwnerAssumption == NoOwner \notin Owners

Ids == 1..MaxCallbacks
Tokens == [owner : Owners, snapshot : Nat]
Entries == [id : Ids, owner : Owners \cup {NoOwner}, snapshot : Nat, epoch : Nat]

ASSUME NoTokenAssumption == NoToken \notin Tokens

VARIABLES
    pending_,        \* accepted callbacks, oldest first
    frozen_buffer_,  \* callbacks accepted while a ScopedFreeze is alive
    freezes,         \* for each live ScopedFreeze, the drain depth it began at
    initialized_,    \* init() has created the drain timer
    shut_down_,      \* new callbacks are dropped
    closing,         \* the main thread is inside shutdown()'s final drain
    batches,         \* the local to_process queues of the nested drains
    running,         \* the head of the innermost batch is executing
    generation,      \* generation[o]: the guard's counter
    alive,           \* owners that have not been destroyed
    token,           \* token[p]: the LifetimeToken p captured
    checked,         \* p is between defer()'s expiry check and the enqueue
    last_id,         \* callbacks accepted so far
    epoch,           \* shutdowns so far
    fate             \* fate[i]: what became of callback i

queue == <<pending_, frozen_buffer_, freezes>>
lifecycle == <<initialized_, shut_down_, closing, epoch>>
guards == <<generation, alive>>
posting == <<token, checked>>
vars == <<queue, lifecycle, batches, running, guards, posting, last_id, fate>>

\* drain_depth_ and freeze_depth_ of the code.
drain_depth_ == Len(batches)
freeze_depth_ == Len(freezes)

TypeOK ==
    /\ pending_ \in Seq(Entries)
    /\ frozen_buffer_ \in Seq(Entries)
    /\ freezes \in Seq(Nat)
    /\ initialized_ \in BOOLEAN
    /\ shut_down_ \in BOOLEAN
    /\ closing \in BOOLEAN
    /\ batches \in Seq(Seq(Entries))
    /\ running \in BOOLEAN
    /\ generation \in [Owners -> Nat]
    /\ alive \subseteq Owners
    /\ token \in [Producers -> Tokens \cup {NoToken}]
    /\ checked \subseteq Producers
    /\ last_id \in 0..MaxCallbacks
    /\ epoch \in 0..MaxEpoch
    /\ fate \in [Ids -> {"none", "waiting", "ran", "skipped", "discarded"}]

Init ==
    /\ pending_ = <<>>
    /\ frozen_buffer_ = <<>>
    /\ freezes = <<>>
    /\ initialized_ = FALSE
    /\ shut_down_ = FALSE
    /\ closing = FALSE
    /\ batches = <<>>
    /\ running = FALSE
    /\ generation = [o \in Owners |-> 0]
    /\ alive = Owners
    /\ token = [p \in Producers |-> NoToken]
    /\ checked = {}
    /\ last_id = 0
    /\ epoch = 0
    /\ fate = [i \in Ids |-> "none"]

\* The main thread runs application code: a callback's body, or code outside
\* every batch.
MainFree == running \/ (batches = <<>> /\ ~closing)

-----------------------------------------------------------------------------
(* Posting.                                                                *)

\* queue_impl(), under mutex_: drop, divert into the freeze buffer, or push.
QueueImpl(o, s) ==
    \/ /\ shut_down_
       /\ UNCHANGED <<pending_, frozen_buffer_, last_id, fate>>
    \/ /\ ~shut_down_
       /\ last_id < MaxCallbacks
       /\ last_id' = last_id + 1
       /\ fate' = [fate EXCEPT ![last_id + 1] = "waiting"]
       /\ LET e == [id |-> last_id + 1, owner |-> o, snapshot |-> s, epoch |-> epoch]
          IN  IF freeze_depth_ > 0
              THEN /\ frozen_buffer_' = Append(frozen_buffer_, e)
                   /\ UNCHANGED pending_
              ELSE /\ pending_' = Append(pending_, e)
                   /\ UNCHANGED frozen_buffer_

\* A background operation starts and captures lifetime_.token().
TakeToken(p, o) ==
    /\ token[p] = NoToken
    /\ o \in alive
    /\ token' = [token EXCEPT ![p] = [owner |-> o, snapshot |-> generation[o]]]
    /\ UNCHANGED <<queue, lifecycle, batches, running, guards, checked, last_id, fate>>

\* The guard has been invalidated since t captured its generation; a plain
\* queue_update() carries no guard and never expires.
Expired(t) == t.owner \in Owners /\ generation[t.owner] # t.snapshot

\* LifetimeToken::defer() / bg_cb: skip before enqueueing if already expired.
CheckToken(p) ==
    /\ token[p] # NoToken
    /\ p \notin checked
    /\ \/ ~Expired(token[p]) /\ checked' = checked \cup {p} /\ UNCHANGED token
       \/ Expired(token[p]) /\ token' = [token EXCEPT ![p] = NoToken] /\ UNCHANGED checked
    /\ UNCHANGED <<queue, lifecycle, batches, running, guards, last_id, fate>>

\* ... and enqueue afterwards; the owner may have died in between.
PostDeferred(p) ==
    /\ p \in checked
    /\ QueueImpl(token[p].owner, token[p].snapshot)
    /\ checked' = checked \ {p}
    /\ token' = [token EXCEPT ![p] = NoToken]
    /\ UNCHANGED <<freezes, lifecycle, batches, running, guards>>

\* queue_update() without a guard, from a background thread.
PostRaw ==
    /\ QueueImpl(NoOwner, 0)
    /\ ~shut_down_
    /\ UNCHANGED <<freezes, lifecycle, batches, running, guards, posting>>

\* lifetime_.defer() by the main thread itself: token, check and enqueue.
PostFromMain(o) ==
    /\ MainFree
    /\ o \in alive
    /\ QueueImpl(o, generation[o])
    /\ ~shut_down_
    /\ UNCHANGED <<freezes, lifecycle, batches, running, guards, posting>>

-----------------------------------------------------------------------------
(* Running.                                                                *)

\* process_pending(): swap pending_ into a new innermost batch.
ProcessPending ==
    /\ pending_ # <<>>
    /\ batches' = Append(batches, pending_)
    /\ pending_' = <<>>
    /\ running' = FALSE

\* timer_cb from the main loop's lv_timer_handler().
TimerTick ==
    /\ initialized_
    /\ batches = <<>> /\ freezes = <<>> /\ ~closing
    /\ ProcessPending
    /\ UNCHANGED <<frozen_buffer_, freezes, lifecycle, guards, posting, last_id, fate>>

\* drain(), from a callback or from code outside every batch.
Drain ==
    /\ MainFree
    /\ drain_depth_ < MaxDepth
    /\ ProcessPending
    /\ UNCHANGED <<frozen_buffer_, freezes, lifecycle, guards, posting, last_id, fate>>

\* The innermost batch without the entry at its head.
PopHead == Append(Front(batches), Tail(Last(batches)))

\* Mutant: trusts the check made before enqueueing.
BugRunNextUnchecked ==
    /\ batches # <<>> /\ ~running /\ Last(batches) # <<>>
    /\ running' = TRUE
    /\ fate' = [fate EXCEPT ![Head(Last(batches)).id] = "ran"]
    /\ UNCHANGED <<queue, lifecycle, batches, guards, posting, last_id>>

\* The next callback of the innermost batch starts.  A deferred one compares
\* the generation once more and skips if the guard was invalidated.
RunNext ==
    /\ batches # <<>> /\ ~running /\ Last(batches) # <<>>
    /\ LET e == Head(Last(batches))
       IN  \/ /\ ~Expired(e)
              /\ running' = TRUE
              /\ fate' = [fate EXCEPT ![e.id] = "ran"]
              /\ UNCHANGED batches
           \/ /\ Expired(e)
              /\ batches' = PopHead
              /\ fate' = [fate EXCEPT ![e.id] = "skipped"]
              /\ UNCHANGED running
    /\ UNCHANGED <<queue, lifecycle, guards, posting, last_id>>

\* The callback returns or throws (exceptions are swallowed): its scopes have
\* ended, and it is popped.
Return ==
    /\ running
    /\ freezes # <<>> => Last(freezes) < drain_depth_
    /\ batches' = PopHead
    /\ running' = FALSE
    /\ UNCHANGED <<queue, lifecycle, guards, posting, last_id, fate>>

\* The innermost batch is done; the callback that drained goes on.
EndBatch ==
    /\ batches # <<>> /\ ~running /\ Last(batches) = <<>>
    /\ batches' = Front(batches)
    /\ running' = (drain_depth_ > 1)
    /\ UNCHANGED <<queue, lifecycle, guards, posting, last_id, fate>>

-----------------------------------------------------------------------------
(* Freezing, owners, shutdown and re-initialisation (main thread).         *)

\* ScopedFreeze(): ++freeze_depth_.
Freeze ==
    /\ MainFree
    /\ freeze_depth_ < MaxFreeze
    /\ freezes' = Append(freezes, drain_depth_)
    /\ UNCHANGED <<pending_, frozen_buffer_, lifecycle, batches, running, guards,
                   posting, last_id, fate>>

\* ~ScopedFreeze(): --freeze_depth_, at the end of the scope that froze.
EndFreeze ==
    /\ MainFree
    /\ freezes # <<>> /\ Last(freezes) = drain_depth_
    /\ freezes' = Front(freezes)
    /\ UNCHANGED <<lifecycle, batches, running, guards, posting, last_id, fate>>

\* Mutant: splices the buffer in front of the older callbacks.
BugThawInFront ==
    /\ EndFreeze
    /\ freeze_depth_ = 1
    /\ pending_' = frozen_buffer_ \o pending_
    /\ frozen_buffer_' = <<>>

\* Mutant: not reference-counted, every thaw splices.
BugThawNotCounted ==
    /\ EndFreeze
    /\ pending_' = pending_ \o frozen_buffer_
    /\ frozen_buffer_' = <<>>

\* Mutant: the buffer is never spliced back.
BugThawNoSplice ==
    /\ EndFreeze
    /\ UNCHANGED <<pending_, frozen_buffer_>>

\* ... and the last freeze to end splices the buffer behind the queue.
Thaw ==
    /\ EndFreeze
    /\ IF freeze_depth_ = 1
       THEN /\ pending_' = pending_ \o frozen_buffer_
            /\ frozen_buffer_' = <<>>
       ELSE UNCHANGED <<pending_, frozen_buffer_>>

\* AsyncLifetimeGuard::invalidate() by a living owner.
Invalidate(o) ==
    /\ MainFree
    /\ o \in alive
    /\ generation[o] < MaxGeneration
    /\ generation' = [generation EXCEPT ![o] = @ + 1]
    /\ UNCHANGED <<queue, lifecycle, batches, running, alive, posting, last_id, fate>>

\* The owner is destroyed; ~AsyncLifetimeGuard() invalidates.
Destroy(o) ==
    /\ MainFree
    /\ o \in alive
    /\ alive' = alive \ {o}
    /\ generation' = [generation EXCEPT ![o] = @ + 1]
    /\ UNCHANGED <<queue, lifecycle, batches, running, posting, last_id, fate>>

\* shutdown(): drain once.  Its callers are outside every batch
\* (PrinterSwitchFlow postpones a teardown requested inside a drain).
Shutdown ==
    /\ batches = <<>> /\ ~closing
    /\ epoch < MaxEpoch
    /\ closing' = TRUE
    /\ IF pending_ = <<>>
       THEN UNCHANGED <<pending_, batches>>
       ELSE batches' = <<pending_>> /\ pending_' = <<>>
    /\ UNCHANGED <<frozen_buffer_, freezes, initialized_, shut_down_, epoch, running,
                   guards, posting, last_id, fate>>

\* Mutant: forgets what a live ScopedFreeze diverted.
BugFinishShutdownKeepsBuffer ==
    /\ closing /\ batches = <<>>
    /\ closing' = FALSE
    /\ initialized_' = FALSE
    /\ shut_down_' = TRUE
    /\ epoch' = epoch + 1
    /\ pending_' = <<>>
    /\ LET discarded == {e.id : e \in Range(pending_)}
       IN  fate' = [i \in Ids |-> IF i \in discarded THEN "discarded" ELSE fate[i]]
    /\ UNCHANGED <<frozen_buffer_, freezes, batches, running, guards, posting, last_id>>

\* ... then gate the queue off and discard stragglers, the buffer included.
FinishShutdown ==
    /\ closing /\ batches = <<>>
    /\ closing' = FALSE
    /\ initialized_' = FALSE
    /\ shut_down_' = TRUE
    /\ epoch' = epoch + 1
    /\ pending_' = <<>>
    /\ frozen_buffer_' = <<>>
    /\ LET discarded == {e.id : e \in Range(pending_) \cup Range(frozen_buffer_)}
       IN  fate' = [i \in Ids |-> IF i \in discarded THEN "discarded" ELSE fate[i]]
    /\ UNCHANGED <<freezes, batches, running, guards, posting, last_id>>

\* init(); when LVGL cannot create the timer the queue accepts work it will
\* not run.
InitQueue ==
    /\ batches = <<>> /\ ~closing
    /\ ~initialized_
    /\ shut_down_' = FALSE
    /\ initialized_' \in BOOLEAN
    /\ UNCHANGED <<queue, closing, epoch, batches, running, guards, posting, last_id, fate>>

-----------------------------------------------------------------------------
Next ==
    \/ \E p \in Producers : CheckToken(p) \/ PostDeferred(p) \/ \E o \in Owners : TakeToken(p, o)
    \/ PostRaw
    \/ TimerTick \/ Drain \/ RunNext \/ Return \/ EndBatch
    \/ Freeze \/ Thaw
    \/ \E o \in Owners : PostFromMain(o) \/ Invalidate(o) \/ Destroy(o)
    \/ Shutdown \/ FinishShutdown \/ InitQueue

Spec == Init /\ [][Next]_vars

\* The main thread's own steps happen; a callback returns, the main loop
\* reaches lv_timer_handler() again and an outermost freeze ends, whatever
\* inner scopes they open and close before (hence strong fairness: an inner
\* scope disables all three, and it ends).
Fairness ==
    /\ WF_vars(RunNext) /\ WF_vars(EndBatch) /\ WF_vars(Thaw) /\ WF_vars(FinishShutdown)
    /\ SF_vars(Return) /\ SF_vars(TimerTick) /\ SF_vars(freeze_depth_ = 1 /\ Thaw)

FairSpec == Spec /\ Fairness

-----------------------------------------------------------------------------
(* Properties.                                                             *)

\* Where accepted callbacks wait: the nested batches from the outermost inwards,
\* the queue, the freeze buffer.
Lanes == batches \o <<pending_, frozen_buffer_>>

\* The accepted callbacks that have not finished.
Unfinished == UNION {Range(Lanes[d]) : d \in DOMAIN Lanes}

\* Callbacks whose body has started: the head of every batch but the innermost,
\* which drained, and of the innermost while it runs.
Started == {Head(batches[d]) : d \in {c \in DOMAIN batches : c < drain_depth_ \/ running}}

\* Acceptance order is kept through nesting, freezing and thawing: each lane is
\* in the order its callbacks were accepted, and an outer lane holds only older
\* ones than those behind it.  Only a nested drain lets a newer callback run
\* before an older one, and only before those of the batches it is nested in.
OrderKept ==
    \A c, d \in DOMAIN Lanes : \A j \in DOMAIN Lanes[c], k \in DOMAIN Lanes[d] :
        c < d \/ (c = d /\ j < k) => Lanes[c][j].id < Lanes[d][k].id

\* Accepted callbacks are neither lost nor duplicated: those waiting are
\* exactly the unfinished entries whose body has not started.
NothingLost ==
    {i \in Ids : fate[i] = "waiting"} = {e.id : e \in Unfinished} \ {e.id : e \in Started}

\* The queue, the nested batches and the freeze buffer together hold each
\* accepted callback once, oldest first.
QueueIsIntact == TypeOK /\ OrderKept /\ NothingLost

\* A callback runs, if at all, in the session it was posted in: nothing posted
\* before a shutdown() is left to run against what the teardown destroyed,
\* although a ScopedFreeze outlives the shutdown and thaws after init().
NoStaleSession == \A e \in Unfinished : e.epoch = epoch

\* While a freeze is held, nothing accepted since the outermost freeze began
\* reaches the queue: a drain under the freeze runs only older callbacks, so
\* drain-and-destroy cannot run one that was posted in between.
FreezeHolds ==
    [][freezes # <<>> /\ freezes' # <<>> => Range(pending_') \subseteq Range(pending_)]_vars

\* A deferred callback's body never starts on a destroyed owner, however the
\* token check, the enqueue, freezes, nested drains and the destruction
\* interleave.
NoBodyOnDeadOwner ==
    [][\A e \in Unfinished :
           fate[e.id] = "waiting" /\ fate'[e.id] = "ran" /\ e.owner # NoOwner =>
               e.owner \in alive]_vars

\* While the queue is initialised, an accepted callback runs, skips or is
\* discarded by a shutdown: freezing delays work, it never strands it.
EveryCallbackFinishes ==
    \A i \in 1..MaxCallbacks : fate[i] = "waiting" ~> fate[i] # "waiting" \/ ~initialized_
=============================================================================
