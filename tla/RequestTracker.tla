--------------------------- MODULE RequestTracker ---------------------------
(***************************************************************************)
(* MoonrakerRequestTracker: the table of JSON-RPC requests that wait for   *)
(* an answer.  Every operation copies callbacks out of the table while it  *)
(* holds requests_mutex_ and invokes them after it has released it, so     *)
(* send(), route_response(), check_timeouts(), cleanup_all() and cancel()  *)
(* of several threads interleave between those two phases.  One critical   *)
(* section, one ws.send() and one callback invocation are one step each.   *)
(*                                                                         *)
(* The socket and the printer's side of it (ws_open, at_server, wire) are  *)
(* external: they behave as moonraker_client.cpp uses them.                *)
(***************************************************************************)
EXTENDS Naturals, Sequences, FiniteSets

CONSTANTS Threads,      \* threads that call into the tracker
          EventLoop,    \* the libhv thread: it alone routes responses
          MainThread,   \* the UI thread: sweeps timeouts from the main loop
          MaxRequests,  \* bound: how many ids request_id_ hands out
          MaxPending,   \* kMaxPendingRequests (500 in the code)
          NoId          \* "this thread is not inside send()"

ASSUME ThreadAssumption == {EventLoop, MainThread} \subseteq Threads
ASSUME BoundAssumption == MaxRequests \in Nat /\ MaxPending \in Nat
ASSUME NoIdAssumption == NoId \notin Nat

Ids == 1..MaxRequests

\* What a caller can hear.  "lost" is MoonrakerError::connection_lost (send
\* failure, full queue, cleanup), "timeout" is MoonrakerError::timeout.
Outcomes == {"success", "rpc_error", "lost", "timeout"}

\* The connection now open carried the frame; or ws.send() accepted it with no
\* connection open; or neither: not written yet, or lost with a connection.
Frames == {"none", "carried", "adrift"}

\* How far a thread is inside send().
SendSteps == {"none", "register", "transmit", "failed"}

VARIABLES
    request_id_,        \* the id counter
    pending_requests_,  \* ids registered in the table
    callbacks,          \* callbacks[i]: which of the two the caller supplied
    expired,            \* ids whose timeout has elapsed (is_timed_out())
    step,               \* step[t]: where thread t is inside send()
    current,            \* current[t]: the id thread t is sending
    batch,              \* batch[t]: <<id, outcome>> copied out, to be invoked
    logging,            \* logging[t]: t is between check_timeouts' two phases
    returned,           \* what send() returned for an id
    cancelled,          \* ids for which cancel() returned true
    heard,              \* heard[i]: the outcomes the caller of i was told
    ws_open,            \* a connection is open: frames reach the printer
    frame,              \* frame[i]: what became of the frame of request i
    cleanup_due,        \* the socket closed, on_ws_close has not run yet
    at_server,          \* ids the printer received on this connection
    wire                \* responses on their way back on this connection

table == <<request_id_, pending_requests_, callbacks, expired>>
sending == <<step, current, returned>>
sweeping == <<batch, logging>>
outcome == <<cancelled, heard>>
socket == <<ws_open, frame, cleanup_due, at_server, wire>>
vars == <<table, sending, sweeping, outcome, socket>>

TypeOK ==
    /\ request_id_ \in 0..MaxRequests
    /\ pending_requests_ \subseteq Ids
    /\ callbacks \in [Ids -> SUBSET {"success", "error"}]
    /\ expired \subseteq Ids
    /\ step \in [Threads -> SendSteps]
    /\ current \in [Threads -> Ids \cup {NoId}]
    /\ batch \in [Threads -> SUBSET (Ids \X Outcomes)]
    /\ logging \in [Threads -> BOOLEAN]
    /\ returned \in [Ids -> {"none", "id", "invalid"}]
    /\ cancelled \subseteq Ids
    /\ heard \in [Ids -> Seq(Outcomes)]
    /\ ws_open \in BOOLEAN
    /\ frame \in [Ids -> Frames]
    /\ cleanup_due \in BOOLEAN
    /\ at_server \subseteq Ids
    /\ wire \subseteq Ids \X {"success", "rpc_error"}

Init ==
    /\ request_id_ = 0
    /\ pending_requests_ = {}
    /\ callbacks = [i \in Ids |-> {}]
    /\ expired = {}
    /\ step = [t \in Threads |-> "none"]
    /\ current = [t \in Threads |-> NoId]
    /\ batch = [t \in Threads |-> {}]
    /\ logging = [t \in Threads |-> FALSE]
    /\ returned = [i \in Ids |-> "none"]
    /\ cancelled = {}
    /\ heard = [i \in Ids |-> <<>>]
    /\ ws_open = TRUE
    /\ frame = [i \in Ids |-> "none"]
    /\ cleanup_due = FALSE
    /\ at_server = {}
    /\ wire = {}

-----------------------------------------------------------------------------
(* Control of a thread.                                                    *)

\* t runs application code: top-level, or a callback of its current batch
\* (callbacks are invoked without the lock, so they may call send()).
Free(t) == step[t] = "none" /\ ~logging[t]

\* t is not inside any tracker operation.
Idle(t) == Free(t) /\ batch[t] = {}

\* The error callbacks of the ids in S, to be told outcome o.
ErrorCallbacks(S, o) == {<<i, o>> : i \in {j \in S : "error" \in callbacks[j]}}

-----------------------------------------------------------------------------
(* send()                                                                  *)

\* fetch_add on request_id_; the caller picks the callbacks it supplies.
BeginSend(t) ==
    /\ Free(t)
    /\ request_id_ < MaxRequests
    /\ request_id_' = request_id_ + 1
    /\ \E c \in SUBSET {"success", "error"} :
           callbacks' = [callbacks EXCEPT ![request_id_ + 1] = c]
    /\ step' = [step EXCEPT ![t] = "register"]
    /\ current' = [current EXCEPT ![t] = request_id_ + 1]
    /\ UNCHANGED <<pending_requests_, expired, returned, sweeping, outcome, socket>>

QueueFull == Cardinality(pending_requests_) >= MaxPending

\* Under the lock: insert the request, or reject it when the table is full;
\* a rejected caller hears an error and send() returns kInvalidRequestId.
Register(t) ==
    /\ step[t] = "register"
    /\ \/ /\ ~QueueFull
          /\ pending_requests_' = pending_requests_ \cup {current[t]}
          /\ step' = [step EXCEPT ![t] = "transmit"]
          /\ UNCHANGED <<current, returned, batch>>
       \/ /\ QueueFull
          /\ batch' = [batch EXCEPT ![t] = @ \cup ErrorCallbacks({current[t]}, "lost")]
          /\ step' = [step EXCEPT ![t] = "none"]
          /\ current' = [current EXCEPT ![t] = NoId]
          /\ returned' = [returned EXCEPT ![current[t]] = "invalid"]
          /\ UNCHANGED pending_requests_
    /\ UNCHANGED <<request_id_, callbacks, expired, logging, outcome, socket>>

\* ws.send() without the lock.  It can fail on an open connection, and it can
\* succeed with none: libhv asks only for a channel, and ready_to_send() looked
\* at the state before this thread got here.  Such a frame reaches nobody.
Transmit(t) ==
    /\ step[t] = "transmit"
    /\ \/ /\ frame' = [frame EXCEPT ![current[t]] = IF ws_open THEN "carried" ELSE "adrift"]
          /\ at_server' = IF ws_open THEN at_server \cup {current[t]} ELSE at_server
          /\ step' = [step EXCEPT ![t] = "none"]
          /\ current' = [current EXCEPT ![t] = NoId]
          /\ returned' = [returned EXCEPT ![current[t]] = "id"]
       \/ /\ step' = [step EXCEPT ![t] = "failed"]
          /\ UNCHANGED <<frame, at_server, current, returned>>
    /\ UNCHANGED <<table, sweeping, outcome, ws_open, cleanup_due, wire>>

\* Mutant: tells the error callback without looking the id up again.
BugSendFailedNoLookup(t) ==
    /\ step[t] = "failed"
    /\ pending_requests_' = pending_requests_ \ {current[t]}
    /\ batch' = [batch EXCEPT ![t] = @ \cup ErrorCallbacks({current[t]}, "lost")]
    /\ step' = [step EXCEPT ![t] = "none"]
    /\ current' = [current EXCEPT ![t] = NoId]
    /\ returned' = [returned EXCEPT ![current[t]] = "invalid"]
    /\ UNCHANGED <<request_id_, callbacks, expired, logging, outcome, socket>>

\* Mutant: tells the error callback and leaves the entry in the table.
BugSendFailedKeepsEntry(t) ==
    /\ step[t] = "failed"
    /\ batch' = [batch EXCEPT
                    ![t] = @ \cup ErrorCallbacks({current[t]} \cap pending_requests_, "lost")]
    /\ step' = [step EXCEPT ![t] = "none"]
    /\ current' = [current EXCEPT ![t] = NoId]
    /\ returned' = [returned EXCEPT ![current[t]] = "invalid"]
    /\ UNCHANGED <<table, logging, outcome, socket>>

\* After a failed ws.send(): under the lock, take the request back if nobody
\* else took it meanwhile, and tell its error callback.
SendFailed(t) ==
    /\ step[t] = "failed"
    /\ pending_requests_' = pending_requests_ \ {current[t]}
    /\ batch' = [batch EXCEPT
                    ![t] = @ \cup ErrorCallbacks({current[t]} \cap pending_requests_, "lost")]
    /\ step' = [step EXCEPT ![t] = "none"]
    /\ current' = [current EXCEPT ![t] = NoId]
    /\ returned' = [returned EXCEPT ![current[t]] = "invalid"]
    /\ UNCHANGED <<request_id_, callbacks, expired, logging, outcome, socket>>

\* send_fire_and_forget(): takes an id from the same counter and tracks
\* nothing; if ws.send() succeeds the printer will answer an unknown id.
SendFireAndForget(t) ==
    /\ Free(t)
    /\ request_id_ < MaxRequests
    /\ request_id_' = request_id_ + 1
    /\ \/ ws_open /\ at_server' = at_server \cup {request_id_ + 1}
       \/ UNCHANGED at_server
    /\ UNCHANGED <<pending_requests_, callbacks, expired, sending, sweeping, outcome,
                   ws_open, frame, cleanup_due, wire>>

-----------------------------------------------------------------------------
(* The other operations.                                                   *)

\* route_response(): find and erase under the lock.  A response whose id is
\* not in the table (late, cancelled, fire-and-forget) is dropped.
RouteResponse(r) ==
    /\ Idle(EventLoop)
    /\ r \in wire
    /\ wire' = wire \ {r}
    /\ pending_requests_' = pending_requests_ \ {r[1]}
    /\ LET wanted == IF r[2] = "success" THEN "success" ELSE "error"
           told   == r[1] \in pending_requests_ /\ wanted \in callbacks[r[1]]
       IN  batch' = [batch EXCEPT ![EventLoop] = IF told THEN {r} ELSE {}]
    /\ UNCHANGED <<request_id_, callbacks, expired, sending, logging, outcome,
                   ws_open, frame, cleanup_due, at_server>>

\* cancel(): erases without a callback and returns true.  The caller knows
\* the id only once send() has returned it.  (When the id is not in the
\* table cancel() returns false and changes nothing.)
Cancel(t, i) ==
    /\ Free(t)
    /\ returned[i] = "id"
    /\ i \in pending_requests_
    /\ pending_requests_' = pending_requests_ \ {i}
    /\ cancelled' = cancelled \cup {i}
    /\ UNCHANGED <<request_id_, callbacks, expired, sending, sweeping, heard, socket>>

\* Mutant: collects the timed-out requests but does not erase them yet.
BugCheckTimeoutsNoErase(t) ==
    /\ t \in {EventLoop, MainThread}
    /\ Idle(t)
    /\ batch' = [batch EXCEPT ![t] = ErrorCallbacks(pending_requests_ \cap expired, "timeout")]
    /\ logging' = [logging EXCEPT ![t] = TRUE]
    /\ UNCHANGED <<table, sending, outcome, socket>>

\* Mutant: erases the timed-out requests without telling anybody.
BugCheckTimeoutsSilent(t) ==
    /\ t \in {EventLoop, MainThread}
    /\ Idle(t)
    /\ pending_requests_' = pending_requests_ \ expired
    /\ logging' = [logging EXCEPT ![t] = TRUE]
    /\ UNCHANGED <<request_id_, callbacks, expired, sending, batch, outcome, socket>>

\* check_timeouts(), phase 1: collect and erase what has timed out.
CheckTimeouts(t) ==
    /\ t \in {EventLoop, MainThread}
    /\ Idle(t)
    /\ LET timed_out == pending_requests_ \cap expired
       IN  /\ pending_requests_' = pending_requests_ \ timed_out
           /\ batch' = [batch EXCEPT ![t] = ErrorCallbacks(timed_out, "timeout")]
    /\ logging' = [logging EXCEPT ![t] = TRUE]
    /\ UNCHANGED <<request_id_, callbacks, expired, sending, outcome, socket>>

\* Between the phases check_timeouts() reads and writes the log-throttle
\* members (last_logged_*, last_warn_log_) without the lock.
LogPending(t) ==
    /\ logging[t]
    /\ logging' = [logging EXCEPT ![t] = FALSE]
    /\ UNCHANGED <<table, sending, batch, outcome, socket>>

\* cleanup_all(), phase 1: disconnect() and a klippy disconnect call it from
\* either thread at any time; on_ws_close (OnClose) calls it after a close.
CleanupAll(t) ==
    /\ Idle(t)
    /\ pending_requests_' = {}
    /\ batch' = [batch EXCEPT ![t] = ErrorCallbacks(pending_requests_, "lost")]
    /\ UNCHANGED <<request_id_, callbacks, expired, sending, logging, outcome>>

CleanupRequested(t) ==
    /\ t \in {EventLoop, MainThread}
    /\ CleanupAll(t)
    /\ UNCHANGED socket

\* Mutant: a close leaves the requests of the lost connection in the table.
BugOnCloseNoCleanup(t) ==
    /\ t \in {EventLoop, MainThread}
    /\ cleanup_due
    /\ Idle(t)
    /\ cleanup_due' = FALSE
    /\ UNCHANGED <<table, sending, sweeping, outcome, ws_open, frame, at_server, wire>>

\* on_ws_close() on the event loop; or the main thread's disconnect(), whose
\* drain turned the onclose trampoline away and which cleans up after close().
OnClose(t) ==
    /\ t \in {EventLoop, MainThread}
    /\ cleanup_due
    /\ CleanupAll(t)
    /\ cleanup_due' = FALSE
    /\ UNCHANGED <<ws_open, frame, at_server, wire>>

\* Phase 2 of every operation: invoke one copied callback, without the lock.
Invoke(t) ==
    /\ Free(t)
    /\ \E e \in batch[t] :
           /\ batch' = [batch EXCEPT ![t] = @ \ {e}]
           /\ heard' = [heard EXCEPT ![e[1]] = Append(@, e[2])]
    /\ UNCHANGED <<table, sending, logging, cancelled, socket>>

-----------------------------------------------------------------------------
(* Time, the printer and the socket.                                       *)

\* The timeout of a registered request elapses.
Expire(i) ==
    /\ i \in pending_requests_ \ expired
    /\ expired' = expired \cup {i}
    /\ UNCHANGED <<request_id_, pending_requests_, callbacks, sending, sweeping,
                   outcome, socket>>

\* The printer answers a request it received, or never does.
Reply(i, kind) ==
    /\ i \in at_server
    /\ at_server' = at_server \ {i}
    /\ wire' = wire \cup {<<i, kind>>}
    /\ UNCHANGED <<table, sending, sweeping, outcome, ws_open, frame, cleanup_due>>

\* What is in transit, and every answer still owed, is lost with the
\* connection; libhv then calls onclose on the event loop.
SocketClose ==
    /\ ws_open
    /\ ws_open' = FALSE
    /\ frame' = [i \in Ids |-> IF frame[i] = "carried" THEN "none" ELSE frame[i]]
    /\ cleanup_due' = TRUE
    /\ at_server' = {}
    /\ wire' = {}
    /\ UNCHANGED <<table, sending, sweeping, outcome>>

\* Reconnection: the same event loop opens again after onclose returned.
SocketOpen ==
    /\ ~ws_open /\ ~cleanup_due
    /\ ws_open' = TRUE
    /\ UNCHANGED <<table, sending, sweeping, outcome, frame, cleanup_due, at_server, wire>>

-----------------------------------------------------------------------------
Next ==
    \/ \E t \in Threads :
           \/ BeginSend(t)
           \/ Register(t)
           \/ Transmit(t)
           \/ SendFailed(t)
           \/ SendFireAndForget(t)
           \/ Invoke(t)
           \/ CheckTimeouts(t)
           \/ LogPending(t)
           \/ CleanupRequested(t)
           \/ OnClose(t)
           \/ \E i \in Ids : Cancel(t, i)
    \/ \E r \in wire : RouteResponse(r)
    \/ \E i \in Ids : Expire(i)
    \/ \E i \in Ids, kind \in {"success", "rpc_error"} : Reply(i, kind)
    \/ SocketClose
    \/ SocketOpen

Spec == Init /\ [][Next]_vars

\* A thread inside the tracker runs on; time passes; the main loop keeps
\* calling process_timeouts().
Fairness ==
    /\ \A t \in Threads :
           WF_vars(Register(t) \/ Transmit(t) \/ SendFailed(t) \/ Invoke(t) \/ LogPending(t))
    /\ \A i \in 1..MaxRequests : WF_vars(Expire(i))
    /\ WF_vars(CheckTimeouts(MainThread))

FairSpec == Spec /\ Fairness

-----------------------------------------------------------------------------
(* Properties.                                                             *)

\* Thread t has copied a callback of request i and not invoked it yet.
Holds(t, i) == \E o \in Outcomes : <<i, o>> \in batch[t]

\* The two-phase locking hands every caller at most one outcome: whichever
\* of response, timeout, cleanup, send failure and rejection erases the
\* entry is the only one to tell, and it tells one thing.
AtMostOneOutcome ==
    /\ \A i \in Ids : Len(heard[i]) <= 1
    /\ \A i \in Ids, t \in Threads :
           Holds(t, i) =>
               /\ heard[i] = <<>>
               /\ \A u \in Threads : Holds(u, i) => u = t
               /\ \A o, p \in Outcomes :
                      <<i, o>> \in batch[t] /\ <<i, p>> \in batch[t] => o = p

\* cancel() returning true is a promise: neither callback of that request
\* runs afterwards, whatever the other threads had in progress.
CancelIsFinal ==
    \A i \in cancelled :
        heard[i] = <<>> /\ \A t \in Threads : ~Holds(t, i)

\* send() returning kInvalidRequestId means the request is over: it is not
\* in the table and its caller is never told that it succeeded.
InvalidIdMeansOver ==
    \A i \in Ids :
        returned[i] = "invalid" =>
            /\ i \notin pending_requests_
            /\ \A k \in DOMAIN heard[i] : heard[i][k] # "success"
            /\ \A t \in Threads : <<i, "success">> \notin batch[t]

\* Thread t registered request i and is still inside its send().
InSend(t, i) == current[t] = i /\ step[t] \in {"transmit", "failed"}

\* Once a close has been handled no request of the lost connection is in the
\* table, not even one whose send() raced the close, so none waits its timeout
\* out on the next connection.  What may wait there is a request whose send()
\* still runs, one this connection carried, and one whose frame ws.send()
\* accepted with no connection open: that one has only its timeout.
NoStrandedRequest ==
    ~cleanup_due =>
        \A i \in pending_requests_ :
            (\E t \in Threads : InSend(t, i)) \/ frame[i] \in {"carried", "adrift"}

\* The table never exceeds kMaxPendingRequests, however many threads pass
\* the capacity check concurrently.
Bounded == Cardinality(pending_requests_) <= MaxPending

\* What send() and the table agree on at every moment: the types, the capacity
\* and what an invalid id means.
TableIsSound == TypeOK /\ Bounded /\ InvalidIdMeansOver

\* Every request that got into the table leaves it, and a caller that gave
\* both callbacks then hears an outcome unless it cancelled.
EveryRequestSettles ==
    \A i \in 1..MaxRequests :
        i \in pending_requests_ ~>
            /\ i \notin pending_requests_
            /\ callbacks[i] = {"success", "error"} => heard[i] # <<>> \/ i \in cancelled

\* A caller still waits for request i: it is about to be registered, in the
\* table, or one of its callbacks has been copied out.
Open(i) ==
    \/ i \in pending_requests_
    \/ \E t \in Threads : Holds(t, i) \/ (step[t] = "register" /\ current[t] = i)

Promise == INSTANCE OneShot WITH
    Ops <- Ids, Exclusive <- FALSE,
    open <- {i \in Ids : Open(i)},
    closed <- {i \in Ids : i <= request_id_ /\ ~Open(i)},
    told <- heard

\* The tracker implements the one-shot promise: whatever the threads, the
\* socket and the timeouts do, each step begins a request, tells one caller
\* its only outcome, withdraws requests that are never told anything, or
\* changes nothing a caller can see.
ImplementsOneShot == Promise!Spec
=============================================================================
