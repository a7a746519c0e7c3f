------------------------ MODULE RequestTrackerProofs ------------------------
(***************************************************************************)
(* Proofs about RequestTracker for every set of threads, every number of   *)
(* requests and every capacity of the table.                               *)
(***************************************************************************)
EXTENDS RequestTracker, FiniteSetTheorems, TLAPS

-----------------------------------------------------------------------------
(* The inductive invariant.                                                *)

\* Nobody has been, or is about to be, told anything about request i.
Untouched(i) ==
    /\ heard[i] = <<>>
    /\ \A t \in Threads, o \in Outcomes : <<i, o>> \notin batch[t]
    /\ i \notin cancelled

\* A thread names an id exactly while it is inside send(); no two threads
\* send the same id, and the counter has passed it.
SendersInv ==
    /\ \A t \in Threads : step[t] = "none" <=> current[t] = NoId
    /\ \A t \in Threads : current[t] # NoId => current[t] <= request_id_
    /\ \A t, u \in Threads : current[t] # NoId /\ current[t] = current[u] => t = u

\* An id that is not registered yet is in nobody's hands.
FreshInv ==
    /\ \A i \in Ids : i > request_id_ => i \notin pending_requests_ /\ Untouched(i)
    /\ \A i \in Ids, t \in Threads :
           step[t] = "register" /\ current[t] = i =>
               i \notin pending_requests_ /\ Untouched(i)

\* An entry in the table still owns both its callbacks.
PendingInv == \A i \in pending_requests_ : Untouched(i)

\* A copied callback is the only one of its request: AtMostOneOutcome and
\* CancelIsFinal, spelled out entry by entry.
HeldInv ==
    /\ \A i \in Ids, t, u \in Threads, o, p \in Outcomes :
           <<i, o>> \in batch[t] /\ <<i, p>> \in batch[u] => t = u /\ o = p
    /\ \A i \in Ids, t \in Threads, o \in Outcomes :
           <<i, o>> \in batch[t] => heard[i] = <<>> /\ i \notin cancelled
    /\ \A i \in Ids : Len(heard[i]) <= 1
    /\ \A i \in cancelled : heard[i] = <<>>

IInv == TypeOK /\ SendersInv /\ FreshInv /\ PendingInv /\ HeldInv

-----------------------------------------------------------------------------
(* Type correctness, together with who is sending what.                    *)

\* ErrorCallbacks yields typed batch entries, one outcome for ids of S only.
LEMMA ErrorCallbacksType ==
    ASSUME TypeOK, NEW S \in SUBSET Ids, NEW o \in Outcomes
    PROVE  /\ ErrorCallbacks(S, o) \in SUBSET (Ids \X Outcomes)
           /\ \A i, p : <<i, p>> \in ErrorCallbacks(S, o) => i \in S /\ p = o
BY DEF ErrorCallbacks

\* A thread inside send() that keeps its id, or gives it up as it leaves, keeps
\* the ids of the threads distinct.
LEMMA SendersKept ==
    ASSUME SendersInv, NEW t \in Threads, request_id_' = request_id_,
           \A u \in Threads \ {t} : step'[u] = step[u] /\ current'[u] = current[u],
           step'[t] = "none" <=> current'[t] = NoId,
           current'[t] = current[t] \/ current'[t] = NoId
    PROVE  SendersInv'
BY DEF SendersInv

\* Every step keeps every variable in its type, and keeps the threads inside
\* send() on distinct ids that the counter has handed out.
LEMMA TypeStep == TypeOK /\ SendersInv /\ [Next]_vars => TypeOK' /\ SendersInv'
<1> SUFFICES ASSUME TypeOK, SendersInv, [Next]_vars PROVE TypeOK' /\ SendersInv'
  OBVIOUS
<1> USE ThreadAssumption, BoundAssumption, NoIdAssumption
<1>c. \A t \in Threads : step[t] # "none" => current[t] \in Ids
  BY DEF TypeOK, SendersInv
<1>0. CASE UNCHANGED vars
  BY <1>0 DEF vars, table, sending, sweeping, outcome, socket, TypeOK, SendersInv
<1>1. ASSUME NEW t \in Threads, BeginSend(t) PROVE TypeOK' /\ SendersInv'
  <2>1. request_id_ + 1 \in Ids
    BY <1>1 DEF BeginSend, Ids, TypeOK
  <2>2. TypeOK'
    BY <1>1, <2>1 DEF BeginSend, sweeping, outcome, socket, TypeOK, Ids, SendSteps
  <2>3. SendersInv'
    BY <1>1, <2>1 DEF BeginSend, SendersInv, TypeOK, Ids, SendSteps
  <2> QED BY <2>2, <2>3
<1>2. ASSUME NEW t \in Threads, Register(t) PROVE TypeOK' /\ SendersInv'
  <2>1. current[t] \in Ids
    BY <1>2, <1>c DEF Register
  <2>2. ErrorCallbacks({current[t]}, "lost") \in SUBSET (Ids \X Outcomes)
    BY <2>1, ErrorCallbacksType DEF Outcomes
  <2>b. batch' \in [Threads -> SUBSET (Ids \X Outcomes)]
    <3>1. batch[t] \cup ErrorCallbacks({current[t]}, "lost") \in SUBSET (Ids \X Outcomes)
      BY <2>2 DEF TypeOK
    <3>2. batch' = batch \/ batch' = [batch EXCEPT ![t] = @ \cup ErrorCallbacks({current[t]}, "lost")]
      BY <1>2 DEF Register
    <3> QED BY <3>1, <3>2 DEF TypeOK
  <2>3. TypeOK'
    BY <1>2, <2>1, <2>b DEF Register, outcome, socket, TypeOK, SendSteps
  <2>4. SendersInv'
    <3>1. request_id_' = request_id_ /\ current[t] # NoId
      BY <1>2, <2>1 DEF Register, Ids
    <3>2. /\ \A u \in Threads \ {t} : step'[u] = step[u] /\ current'[u] = current[u]
          /\ \/ step'[t] = "transmit" /\ current'[t] = current[t]
             \/ step'[t] = "none" /\ current'[t] = NoId
      BY <1>2 DEF Register, TypeOK
    <3> QED
      BY <3>1, <3>2, SendersKept
  <2> QED BY <2>3, <2>4
<1>3. ASSUME NEW t \in Threads, Transmit(t) PROVE TypeOK' /\ SendersInv'
  <2>1. current[t] \in Ids
    BY <1>3, <1>c DEF Transmit
  <2>f. frame' \in [Ids -> Frames] /\ at_server' \subseteq Ids
    <3>1. PICK f \in {"carried", "adrift"} :
              frame' \in {frame, [frame EXCEPT ![current[t]] = f]}
      BY <1>3 DEF Transmit
    <3>2. frame' \in [Ids -> Frames]
      BY <2>1, <3>1 DEF TypeOK, Frames
    <3>3. at_server' \subseteq Ids
      BY <1>3, <2>1 DEF Transmit, TypeOK
    <3> QED
      BY <3>2, <3>3
  <2>2. TypeOK'
    BY <1>3, <2>1, <2>f DEF Transmit, table, sweeping, outcome, TypeOK, SendSteps
  <2>3. SendersInv'
    <3>1. request_id_' = request_id_ /\ current[t] # NoId
      BY <1>3, <2>1 DEF Transmit, table, Ids
    <3>2. /\ \A u \in Threads \ {t} : step'[u] = step[u] /\ current'[u] = current[u]
          /\ \/ step'[t] = "failed" /\ current'[t] = current[t]
             \/ step'[t] = "none" /\ current'[t] = NoId
      BY <1>3 DEF Transmit, TypeOK
    <3> QED
      BY <3>1, <3>2, SendersKept
  <2> QED BY <2>2, <2>3
<1>4. ASSUME NEW t \in Threads, SendFailed(t) PROVE TypeOK' /\ SendersInv'
  <2>1. current[t] \in Ids
    BY <1>4, <1>c DEF SendFailed
  <2>2. ErrorCallbacks({current[t]} \cap pending_requests_, "lost") \in SUBSET (Ids \X Outcomes)
    BY <2>1, ErrorCallbacksType DEF Outcomes
  <2>b. batch' \in [Threads -> SUBSET (Ids \X Outcomes)]
    BY <1>4, <2>2 DEF SendFailed, TypeOK
  <2>3. TypeOK'
    BY <1>4, <2>1, <2>b DEF SendFailed, outcome, socket, TypeOK, SendSteps
  <2>4. SendersInv'
    <3>1. request_id_' = request_id_
      BY <1>4 DEF SendFailed
    <3>2. /\ \A u \in Threads \ {t} : step'[u] = step[u] /\ current'[u] = current[u]
          /\ step'[t] = "none" /\ current'[t] = NoId
      BY <1>4 DEF SendFailed, TypeOK
    <3> QED
      BY <3>1, <3>2, SendersKept
  <2> QED BY <2>3, <2>4
<1>5. ASSUME NEW t \in Threads, SendFireAndForget(t) PROVE TypeOK' /\ SendersInv'
  <2>1. request_id_ + 1 \in Ids
    BY <1>5 DEF SendFireAndForget, Ids, TypeOK
  <2>2. at_server' \subseteq Ids /\ request_id_' \in 0..MaxRequests
    <3>1. request_id_' \in 0..MaxRequests
      BY <1>5, <2>1 DEF SendFireAndForget, Ids
    <3>2. at_server' = at_server \/ at_server' = at_server \cup {request_id_ + 1}
      BY <1>5, Zenon DEF SendFireAndForget
    <3>3. at_server \subseteq Ids
      BY DEF TypeOK
    <3>4. at_server' \subseteq Ids
      BY <3>2, <3>3, <2>1
    <3> QED BY <3>1, <3>4
  <2>4. TypeOK'
    BY <1>5, <2>2 DEF SendFireAndForget, sending, sweeping, outcome, TypeOK
  <2>3. SendersInv'
    BY <1>5, <2>1 DEF SendFireAndForget, sending, SendersInv, TypeOK, Ids
  <2> QED BY <2>4, <2>3
<1>6. ASSUME NEW t \in Threads, Invoke(t) PROVE TypeOK' /\ SendersInv'
  <2>1. PICK e \in batch[t] :
            /\ batch' = [batch EXCEPT ![t] = @ \ {e}]
            /\ heard' = [heard EXCEPT ![e[1]] = Append(@, e[2])]
    BY <1>6 DEF Invoke
  <2>2. e[1] \in Ids /\ e[2] \in Outcomes
    BY <2>1 DEF TypeOK
  <2>3. heard' \in [Ids -> Seq(Outcomes)]
    BY <2>1, <2>2 DEF TypeOK
  <2>4. TypeOK'
    BY <1>6, <2>1, <2>3 DEF Invoke, table, sending, socket, TypeOK
  <2>5. SendersInv'
    BY <1>6 DEF Invoke, table, sending, SendersInv
  <2> QED BY <2>4, <2>5
<1>7. ASSUME NEW t \in Threads, CheckTimeouts(t) PROVE TypeOK' /\ SendersInv'
  <2>1. ErrorCallbacks(pending_requests_ \cap expired, "timeout") \in SUBSET (Ids \X Outcomes)
    BY ErrorCallbacksType DEF Outcomes, TypeOK
  <2>2. TypeOK'
    BY <1>7, <2>1 DEF CheckTimeouts, sending, outcome, socket, TypeOK
  <2>3. SendersInv'
    BY <1>7 DEF CheckTimeouts, sending, SendersInv
  <2> QED BY <2>2, <2>3
<1>8. ASSUME NEW t \in Threads, LogPending(t) PROVE TypeOK' /\ SendersInv'
  BY <1>8 DEF LogPending, table, sending, outcome, socket, TypeOK, SendersInv
<1>9. ASSUME NEW t \in Threads, CleanupAll(t) PROVE
          /\ batch' \in [Threads -> SUBSET (Ids \X Outcomes)]
          /\ pending_requests_' \subseteq Ids
          /\ SendersInv'
  <2>1. ErrorCallbacks(pending_requests_, "lost") \in SUBSET (Ids \X Outcomes)
    BY ErrorCallbacksType DEF Outcomes, TypeOK
  <2> QED BY <1>9, <2>1 DEF CleanupAll, sending, SendersInv, TypeOK
<1>10. ASSUME NEW t \in Threads, CleanupRequested(t) PROVE TypeOK' /\ SendersInv'
  <2>1. CleanupAll(t)
    BY <1>10 DEF CleanupRequested
  <2> QED BY <1>9, <1>10, <2>1
          DEF CleanupRequested, CleanupAll, sending, outcome, socket, TypeOK
<1>11. ASSUME NEW t \in Threads, OnClose(t) PROVE TypeOK' /\ SendersInv'
  <2>1. CleanupAll(t)
    BY <1>11 DEF OnClose
  <2> QED BY <1>9, <1>11, <2>1 DEF OnClose, CleanupAll, sending, outcome, TypeOK
<1>12. ASSUME NEW t \in Threads, NEW i \in Ids, Cancel(t, i) PROVE TypeOK' /\ SendersInv'
  BY <1>12 DEF Cancel, sending, sweeping, socket, TypeOK, SendersInv
<1>13. ASSUME NEW r \in wire, RouteResponse(r) PROVE TypeOK' /\ SendersInv'
  <2>1. r \in Ids \X Outcomes
    BY DEF TypeOK, Outcomes
  <2>2. TypeOK'
    BY <1>13, <2>1 DEF RouteResponse, sending, outcome, TypeOK
  <2>3. SendersInv'
    BY <1>13 DEF RouteResponse, sending, SendersInv
  <2> QED BY <2>2, <2>3
<1>14. ASSUME NEW i \in Ids, Expire(i) PROVE TypeOK' /\ SendersInv'
  BY <1>14 DEF Expire, sending, sweeping, outcome, socket, TypeOK, SendersInv
<1>15. ASSUME NEW i \in Ids, NEW k \in {"success", "rpc_error"}, Reply(i, k)
       PROVE TypeOK' /\ SendersInv'
  BY <1>15 DEF Reply, table, sending, sweeping, outcome, TypeOK, SendersInv
<1>16. ASSUME SocketClose PROVE TypeOK' /\ SendersInv'
  <2>1. frame' \in [Ids -> Frames]
    BY <1>16 DEF SocketClose, TypeOK, Frames
  <2> QED BY <1>16, <2>1 DEF SocketClose, table, sending, sweeping, outcome, TypeOK, SendersInv
<1>17. ASSUME SocketOpen PROVE TypeOK' /\ SendersInv'
  BY <1>17 DEF SocketOpen, table, sending, sweeping, outcome, TypeOK, SendersInv
<1> QED
  BY <1>0, <1>1, <1>2, <1>3, <1>4, <1>5, <1>6, <1>7, <1>8, <1>10, <1>11, <1>12,
     <1>13, <1>14, <1>15, <1>16, <1>17 DEF Next

\* The initial state is typed and no thread is inside send().
LEMMA TypeInit == Init => TypeOK /\ SendersInv
<1>1. ASSUME Init PROVE TypeOK
  <2>1. 0 \in 0..MaxRequests
    BY BoundAssumption
  <2>2. heard \in [Ids -> Seq(Outcomes)]
    BY <1>1 DEF Init
  <2>3. /\ callbacks \in [Ids -> SUBSET {"success", "error"}]
        /\ returned \in [Ids -> {"none", "id", "invalid"}]
        /\ batch \in [Threads -> SUBSET (Ids \X Outcomes)]
        /\ current \in [Threads -> Ids \cup {NoId}]
        /\ step \in [Threads -> SendSteps]
        /\ logging \in [Threads -> BOOLEAN]
        /\ frame \in [Ids -> Frames]
    BY <1>1 DEF Init, SendSteps, Frames
  <2> QED BY <1>1, <2>1, <2>2, <2>3 DEF Init, TypeOK
<1>2. ASSUME Init PROVE SendersInv
  BY <1>2 DEF Init, SendersInv
<1> QED BY <1>1, <1>2

\* The tracker's variables always have their types.
THEOREM TypeCorrect == Spec => []TypeOK
BY TypeInit, TypeStep, PTL DEF Spec

-----------------------------------------------------------------------------
(* One outcome per request.                                                *)

\* A step that moves callbacks of untouched requests S into t's batch keeps
\* every callback unique, and does not touch any other request.
LEMMA TakeKeeps ==
    ASSUME TypeOK, HeldInv,
           NEW t \in Threads, NEW S \in SUBSET Ids, \A i \in S : Untouched(i),
           NEW B \in SUBSET (Ids \X Outcomes),
           \A i, o : <<i, o>> \in B => i \in S,
           \A i, o, p : <<i, o>> \in B /\ <<i, p>> \in B => o = p,
           batch' = [batch EXCEPT ![t] = @ \cup B],
           heard' = heard, cancelled' = cancelled
    PROVE  /\ HeldInv'
           /\ \A j \in Ids \ S : Untouched(j) => Untouched(j)'
<1>1. \A u \in Threads : \A e : e \in batch'[u] <=> e \in batch[u] \/ (u = t /\ e \in B)
  BY DEF TypeOK
<1>2. \A i \in Ids, u \in Threads, o \in Outcomes : <<i, o>> \in batch[u] => i \notin S
  BY DEF Untouched
<1>3. HeldInv'
  <2>1. ASSUME NEW i \in Ids, NEW u \in Threads, NEW v \in Threads,
               NEW o \in Outcomes, NEW p \in Outcomes,
               <<i, o>> \in batch'[u], <<i, p>> \in batch'[v]
        PROVE  u = v /\ o = p
    <3>1. CASE i \in S
      <4>1. u = t /\ v = t /\ <<i, o>> \in B /\ <<i, p>> \in B
        BY <1>1, <1>2, <2>1, <3>1
      <4> QED BY <4>1
    <3>2. CASE i \notin S
      <4>1. <<i, o>> \in batch[u] /\ <<i, p>> \in batch[v]
        BY <1>1, <2>1, <3>2
      <4> QED BY <4>1 DEF HeldInv
    <3> QED BY <3>1, <3>2
  <2>2. ASSUME NEW i \in Ids, NEW u \in Threads, NEW o \in Outcomes, <<i, o>> \in batch'[u]
        PROVE  heard'[i] = <<>> /\ i \notin cancelled'
    <3>1. <<i, o>> \in batch[u] \/ i \in S
      BY <1>1, <2>2
    <3> QED BY <3>1 DEF HeldInv, Untouched
  <2> QED BY <2>1, <2>2 DEF HeldInv
<1>4. ASSUME NEW j \in Ids \ S, Untouched(j) PROVE Untouched(j)'
  <2>1. ASSUME NEW u \in Threads, NEW o \in Outcomes PROVE <<j, o>> \notin batch'[u]
    BY <1>1, <1>4 DEF Untouched
  <2> QED BY <2>1, <1>4 DEF Untouched
<1> QED BY <1>3, <1>4

\* The same for error callbacks: what check_timeouts, cleanup_all and the
\* failure paths of send() do.
LEMMA TakeErrorsKeeps ==
    ASSUME TypeOK, HeldInv,
           NEW t \in Threads, NEW S \in SUBSET Ids, \A i \in S : Untouched(i),
           NEW o \in Outcomes,
           batch' = [batch EXCEPT ![t] = @ \cup ErrorCallbacks(S, o)],
           heard' = heard, cancelled' = cancelled
    PROVE  /\ HeldInv'
           /\ \A j \in Ids \ S : Untouched(j) => Untouched(j)'
<1> DEFINE B == ErrorCallbacks(S, o)
<1>1. /\ B \in SUBSET (Ids \X Outcomes)
      /\ \A i, p : <<i, p>> \in B => i \in S /\ p = o
  BY ErrorCallbacksType
<1>2. batch' = [batch EXCEPT ![t] = @ \cup B]
  OBVIOUS
<1> HIDE DEF B
<1>3. /\ \A i, p : <<i, p>> \in B => i \in S
      /\ \A i, p, q : <<i, p>> \in B /\ <<i, q>> \in B => p = q
  BY <1>1
<1> QED BY <1>1, <1>2, <1>3, TakeKeeps, Zenon

\* A step that leaves batches, outcomes and cancellations alone.
LEMMA QuietKeeps ==
    ASSUME HeldInv, UNCHANGED <<batch, heard, cancelled>>
    PROVE  HeldInv' /\ \A j \in Ids : Untouched(j) => Untouched(j)'
BY DEF HeldInv, Untouched

\* A pending request is neither fresh nor about to be registered.
LEMMA PendingIsOld ==
    ASSUME TypeOK, FreshInv, NEW i \in pending_requests_
    PROVE  i <= request_id_ /\ \A t \in Threads : step[t] = "register" => current[t] # i
BY BoundAssumption DEF TypeOK, FreshInv, Ids

\* What an operation that takes S out of the table, and registers nothing,
\* has to show for the other two parts of the invariant.
LEMMA ShrinkKeeps ==
    ASSUME TypeOK, SendersInv, FreshInv, PendingInv,
           NEW S \in SUBSET Ids,
           pending_requests_' = pending_requests_ \ S,
           \A i \in S : i \in pending_requests_ \/ \E t \in Threads : current[t] = i /\ step[t] = "register" /\ step'[t] # "register",
           \A j \in Ids \ S : Untouched(j) => Untouched(j)',
           request_id_' = request_id_,
           \A t \in Threads : step'[t] = "register" => step[t] = "register" /\ current'[t] = current[t]
    PROVE  FreshInv' /\ PendingInv'
<1>1. PendingInv'
  <2> SUFFICES ASSUME NEW i \in pending_requests_' PROVE Untouched(i)'
    BY DEF PendingInv
  <2>1. i \in pending_requests_ /\ i \in Ids \ S
    BY DEF TypeOK
  <2> QED BY <2>1 DEF PendingInv
<1>s. ASSUME NEW i \in S
      PROVE  /\ i <= request_id_
             /\ \A t \in Threads : step'[t] = "register" => current[t] # i
  <2>1. CASE i \in pending_requests_
    BY <2>1, PendingIsOld
  <2>2. ASSUME NEW u \in Threads, current[u] = i, step[u] = "register", step'[u] # "register"
        PROVE  /\ i <= request_id_
               /\ \A t \in Threads : step'[t] = "register" => current[t] # i
    <3>1. i # NoId
      BY NoIdAssumption DEF Ids
    <3> QED BY <2>2, <3>1 DEF SendersInv
  <2> QED BY <2>1, <2>2
<1>2. ASSUME NEW i \in Ids, i > request_id_ PROVE i \notin pending_requests_' /\ Untouched(i)'
  <2>1. i \notin S
    BY <1>2, <1>s, BoundAssumption DEF TypeOK, Ids
  <2> QED BY <1>2, <2>1 DEF FreshInv
<1>3. ASSUME NEW i \in Ids, NEW t \in Threads, step'[t] = "register", current'[t] = i
      PROVE  i \notin pending_requests_' /\ Untouched(i)'
  <2>1. step[t] = "register" /\ current[t] = i
    BY <1>3
  <2>2. i \notin S
    BY <1>3, <2>1, <1>s
  <2> QED BY <2>1, <2>2 DEF FreshInv
<1> QED BY <1>1, <1>2, <1>3 DEF FreshInv

\* The parts of IInv beyond the types, as one goal per action.
Owned == FreshInv /\ PendingInv /\ HeldInv

\* Every step keeps each request's callbacks in one place only.
LEMMA OwnedStep == IInv /\ [Next]_vars => Owned'
<1> SUFFICES ASSUME IInv, [Next]_vars PROVE Owned'
  OBVIOUS
<1> USE ThreadAssumption, BoundAssumption, NoIdAssumption
<1>t. TypeOK /\ SendersInv /\ FreshInv /\ PendingInv /\ HeldInv
  BY DEF IInv
<1>c. \A t \in Threads : step[t] # "none" => current[t] \in Ids /\ current[t] # NoId
  BY <1>t DEF TypeOK, SendersInv
\* Steps that neither take from the table, nor touch batches or outcomes.
<1>q. ASSUME UNCHANGED <<pending_requests_, batch, heard, cancelled>>,
             request_id_' = request_id_,
             \A t \in Threads : step'[t] = "register" => step[t] = "register" /\ current'[t] = current[t]
      PROVE  Owned'
  <2>1. HeldInv' /\ \A j \in Ids : Untouched(j) => Untouched(j)'
    BY <1>q, <1>t, QuietKeeps
  <2>2. FreshInv' /\ PendingInv'
    BY <1>q, <1>t, <2>1 DEF FreshInv, PendingInv, TypeOK
  <2> QED BY <2>1, <2>2 DEF Owned
<1>0. CASE UNCHANGED vars
  BY <1>0, <1>q DEF vars, table, sending, sweeping, outcome, socket
<1>1. ASSUME NEW t \in Threads, BeginSend(t) PROVE Owned'
  <2>1. HeldInv' /\ \A j \in Ids : Untouched(j) => Untouched(j)'
    BY <1>1, <1>t, QuietKeeps DEF BeginSend, sweeping, outcome
  <2>2. /\ request_id_ \in Nat /\ request_id_' = request_id_ + 1 /\ request_id_ + 1 \in Ids
        /\ pending_requests_' = pending_requests_
    BY <1>1, <1>t DEF BeginSend, TypeOK, Ids
  <2>3. PendingInv'
    BY <2>1, <2>2, <1>t DEF PendingInv, TypeOK
  <2>4. ASSUME NEW i \in Ids, i > request_id_ + 1 PROVE i \notin pending_requests_' /\ Untouched(i)'
    BY <2>1, <2>2, <2>4, <1>t DEF FreshInv, Ids
  <2>5. ASSUME NEW i \in Ids, NEW u \in Threads, step'[u] = "register", current'[u] = i
        PROVE  i \notin pending_requests_' /\ Untouched(i)'
    <3>1. CASE u = t
      <4>1. i = request_id_ + 1
        BY <1>1, <1>t, <2>5, <3>1 DEF BeginSend, TypeOK
      <4>2. i > request_id_
        BY <4>1, <2>2
      <4> QED BY <4>2, <2>1, <2>2, <1>t DEF FreshInv
    <3>2. CASE u # t
      <4>1. step[u] = "register" /\ current[u] = i
        BY <1>1, <1>t, <2>5, <3>2 DEF BeginSend, TypeOK
      <4> QED BY <4>1, <2>1, <2>2, <1>t DEF FreshInv
    <3> QED BY <3>1, <3>2
  <2> QED BY <2>1, <2>2, <2>3, <2>4, <2>5 DEF Owned, FreshInv
<1>2. ASSUME NEW t \in Threads, Register(t) PROVE Owned'
  <2>c. current[t] \in Ids /\ current[t] # NoId /\ step[t] = "register"
    BY <1>2, <1>c DEF Register
  <2>u. Untouched(current[t]) /\ current[t] \notin pending_requests_ /\ current[t] <= request_id_
    BY <2>c, <1>t DEF FreshInv, SendersInv
  <2>s. /\ request_id_' = request_id_ /\ heard' = heard /\ cancelled' = cancelled
        /\ step'[t] # "register"
        /\ \A u \in Threads : step'[u] = "register" =>
               u # t /\ step[u] = "register" /\ current'[u] = current[u]
    BY <1>2, <1>t DEF Register, outcome, TypeOK
  <2>1. CASE QueueFull
    <3> DEFINE S == {current[t]}
    <3>1. /\ pending_requests_' = pending_requests_
          /\ batch' = [batch EXCEPT ![t] = @ \cup ErrorCallbacks(S, "lost")]
      BY <1>2, <2>1 DEF Register
    <3>2. S \in SUBSET Ids /\ \A i \in S : Untouched(i)
      BY <2>c, <2>u
    <3>3. HeldInv' /\ \A j \in Ids \ S : Untouched(j) => Untouched(j)'
      <4> HIDE DEF S
      <4> QED BY <3>1, <3>2, <2>s, <1>t, TakeErrorsKeeps DEF Outcomes
    <3>4. pending_requests_' = pending_requests_ \ S
      BY <3>1, <2>u
    <3>5. \A i \in S : \E u \in Threads : current[u] = i /\ step[u] = "register" /\ step'[u] # "register"
      BY <2>c, <2>s
    <3>6. FreshInv' /\ PendingInv'
      <4> HIDE DEF S
      <4> QED BY <3>2, <3>3, <3>4, <3>5, <2>s, <1>t, ShrinkKeeps
    <3> QED BY <3>3, <3>6 DEF Owned
  <2>2. CASE ~QueueFull
    <3>1. pending_requests_' = pending_requests_ \cup {current[t]} /\ batch' = batch
      BY <1>2, <2>2 DEF Register
    <3>2. HeldInv' /\ \A j \in Ids : Untouched(j) => Untouched(j)'
      BY <3>1, <2>s, <1>t, QuietKeeps
    <3>3. PendingInv'
      BY <3>1, <3>2, <2>c, <2>u, <1>t DEF PendingInv, TypeOK
    <3>4. ASSUME NEW i \in Ids, i > request_id_ PROVE i \notin pending_requests_' /\ Untouched(i)'
      BY <3>1, <3>2, <3>4, <2>u, <1>t DEF FreshInv, TypeOK, Ids
    <3>5. ASSUME NEW i \in Ids, NEW u \in Threads, step'[u] = "register", current'[u] = i
          PROVE  i \notin pending_requests_' /\ Untouched(i)'
      <4>1. u # t /\ step[u] = "register" /\ current[u] = i
        BY <2>s, <3>5
      <4>2. i # current[t]
        BY <4>1, <2>c, <1>t DEF SendersInv
      <4> QED BY <4>1, <4>2, <3>1, <3>2, <1>t DEF FreshInv
    <3> QED BY <2>s, <3>2, <3>3, <3>4, <3>5 DEF Owned, FreshInv
  <2> QED BY <2>1, <2>2
<1>3. ASSUME NEW t \in Threads, Transmit(t) PROVE Owned'
  <2>1. \A u \in Threads : step'[u] = "register" => step[u] = "register" /\ current'[u] = current[u]
    BY <1>3, <1>t DEF Transmit, TypeOK
  <2> QED BY <2>1, <1>3, <1>q DEF Transmit, table, sweeping, outcome
\* Steps that take the error callbacks of table entries S into t's batch.
<1>x. ASSUME NEW t \in Threads, NEW S \in SUBSET pending_requests_, NEW o \in Outcomes,
             pending_requests_' = pending_requests_ \ S,
             batch' = [batch EXCEPT ![t] = @ \cup ErrorCallbacks(S, o)],
             UNCHANGED <<heard, cancelled, request_id_>>,
             \A u \in Threads : step'[u] = "register" => step[u] = "register" /\ current'[u] = current[u]
      PROVE  Owned'
  <2>1. S \in SUBSET Ids /\ \A i \in S : Untouched(i)
    BY <1>t DEF PendingInv, TypeOK
  <2>2. HeldInv' /\ \A j \in Ids \ S : Untouched(j) => Untouched(j)'
    BY <1>x, <2>1, <1>t, TakeErrorsKeeps
  <2>3. FreshInv' /\ PendingInv'
    BY <1>x, <2>1, <2>2, <1>t, ShrinkKeeps
  <2> QED BY <2>2, <2>3 DEF Owned
<1>4. ASSUME NEW t \in Threads, SendFailed(t) PROVE Owned'
  <2> DEFINE S == {current[t]} \cap pending_requests_
  <2>1. S \in SUBSET pending_requests_
    OBVIOUS
  <2>2. /\ pending_requests_' = pending_requests_ \ S
        /\ batch' = [batch EXCEPT ![t] = @ \cup ErrorCallbacks(S, "lost")]
    BY <1>4 DEF SendFailed
  <2>3. UNCHANGED <<heard, cancelled, request_id_>>
    BY <1>4 DEF SendFailed, outcome
  <2>4. \A u \in Threads : step'[u] = "register" => step[u] = "register" /\ current'[u] = current[u]
    BY <1>4, <1>t DEF SendFailed, TypeOK
  <2> HIDE DEF S
  <2> QED BY <2>1, <2>2, <2>3, <2>4, <1>x DEF Outcomes
<1>5. ASSUME NEW t \in Threads, SendFireAndForget(t) PROVE Owned'
  <2>1. HeldInv' /\ \A j \in Ids : Untouched(j) => Untouched(j)'
    BY <1>5, <1>t, QuietKeeps DEF SendFireAndForget, sweeping, outcome
  <2>2. /\ request_id_ \in Nat /\ request_id_' = request_id_ + 1
        /\ UNCHANGED <<pending_requests_, step, current>>
    BY <1>5, <1>t DEF SendFireAndForget, sending, TypeOK
  <2>3. PendingInv'
    BY <2>1, <2>2, <1>t DEF PendingInv, TypeOK
  <2>4. ASSUME NEW i \in Ids, i > request_id_' PROVE i \notin pending_requests_' /\ Untouched(i)'
    <3>1. i > request_id_
      BY <2>2, <2>4 DEF Ids
    <3> QED BY <3>1, <2>1, <2>2, <1>t DEF FreshInv
  <2>5. ASSUME NEW i \in Ids, NEW u \in Threads, step'[u] = "register", current'[u] = i
        PROVE  i \notin pending_requests_' /\ Untouched(i)'
    BY <2>1, <2>2, <2>5, <1>t DEF FreshInv
  <2> QED BY <2>1, <2>3, <2>4, <2>5 DEF Owned, FreshInv
<1>7. ASSUME NEW t \in Threads, CheckTimeouts(t) PROVE Owned'
  <2> DEFINE S == pending_requests_ \cap expired
  <2>1. S \in SUBSET pending_requests_
    OBVIOUS
  <2>2. /\ pending_requests_' = pending_requests_ \ S
        /\ batch' = [batch EXCEPT ![t] = ErrorCallbacks(S, "timeout")]
        /\ batch[t] = {}
    BY <1>7 DEF CheckTimeouts, Idle
  <2>3. batch' = [batch EXCEPT ![t] = @ \cup ErrorCallbacks(S, "timeout")]
    <3> HIDE DEF S
    <3> QED BY <2>2
  <2>4. UNCHANGED <<heard, cancelled, request_id_, step, current>>
    BY <1>7 DEF CheckTimeouts, sending, outcome
  <2> HIDE DEF S
  <2> QED BY <2>1, <2>2, <2>3, <2>4, <1>x DEF Outcomes
<1>8. ASSUME NEW t \in Threads, LogPending(t) PROVE Owned'
  BY <1>8, <1>q DEF LogPending, table, sending, outcome
<1>9. ASSUME NEW t \in Threads, CleanupAll(t) PROVE Owned'
  <2>1. /\ pending_requests_' = pending_requests_ \ pending_requests_
        /\ batch' = [batch EXCEPT ![t] = ErrorCallbacks(pending_requests_, "lost")]
        /\ batch[t] = {}
    BY <1>9 DEF CleanupAll, Idle
  <2>2. batch' = [batch EXCEPT ![t] = @ \cup ErrorCallbacks(pending_requests_, "lost")]
    BY <2>1
  <2>3. UNCHANGED <<heard, cancelled, request_id_, step, current>>
    BY <1>9 DEF CleanupAll, sending, outcome
  <2> QED BY <2>1, <2>2, <2>3, <1>x DEF Outcomes
<1>10. ASSUME NEW t \in Threads, CleanupRequested(t) PROVE Owned'
  BY <1>9, <1>10 DEF CleanupRequested
<1>11. ASSUME NEW t \in Threads, OnClose(t) PROVE Owned'
  BY <1>9, <1>11 DEF OnClose
<1>14. ASSUME NEW i \in Ids, Expire(i) PROVE Owned'
  BY <1>14, <1>q DEF Expire, sending, sweeping, outcome
<1>15. ASSUME NEW i \in Ids, NEW k \in {"success", "rpc_error"}, Reply(i, k) PROVE Owned'
  BY <1>15, <1>q DEF Reply, table, sending, sweeping, outcome
<1>16. ASSUME SocketClose PROVE Owned'
  BY <1>16, <1>q DEF SocketClose, table, sending, sweeping, outcome
<1>17. ASSUME SocketOpen PROVE Owned'
  BY <1>17, <1>q DEF SocketOpen, table, sending, sweeping, outcome
<1>12. ASSUME NEW t \in Threads, NEW c \in Ids, Cancel(t, c) PROVE Owned'
  <2>1. /\ c \in pending_requests_ /\ cancelled' = cancelled \cup {c}
        /\ pending_requests_' = pending_requests_ \ {c}
        /\ UNCHANGED <<batch, heard, request_id_, step, current>>
    BY <1>12 DEF Cancel, sending, sweeping
  <2>2. Untouched(c)
    BY <2>1, <1>t DEF PendingInv
  <2>3. HeldInv'
    BY <2>1, <2>2, <1>t DEF HeldInv, Untouched
  <2>4. \A j \in Ids \ {c} : Untouched(j) => Untouched(j)'
    BY <2>1 DEF Untouched
  <2>5. FreshInv' /\ PendingInv'
    <3> DEFINE S == {c}
    <3>1. /\ S \in SUBSET Ids
          /\ \A i \in S : i \in pending_requests_
          /\ pending_requests_' = pending_requests_ \ S
          /\ \A j \in Ids \ S : Untouched(j) => Untouched(j)'
      BY <2>1, <2>4
    <3> HIDE DEF S
    <3> QED BY <3>1, <2>1, <1>t, ShrinkKeeps
  <2> QED BY <2>3, <2>5 DEF Owned
<1>13. ASSUME NEW r \in wire, RouteResponse(r) PROVE Owned'
  <2> DEFINE S == {r[1]} \cap pending_requests_
             B == batch'[EventLoop]
  <2>1. r \in Ids \X Outcomes /\ r = <<r[1], r[2]>> /\ r[1] \in Ids /\ r[2] \in Outcomes
    BY <1>t DEF TypeOK, Outcomes
  <2>2. /\ pending_requests_' = pending_requests_ \ S
        /\ UNCHANGED <<heard, cancelled, request_id_, step, current>>
        /\ batch[EventLoop] = {}
    BY <1>13 DEF RouteResponse, sending, outcome, Idle
  <2>3. /\ batch' = [batch EXCEPT ![EventLoop] = B]
        /\ B = {} \/ (B = {r} /\ r[1] \in pending_requests_)
    BY <1>13, <1>t DEF RouteResponse, TypeOK
  <2>4. /\ S \in SUBSET Ids /\ S \in SUBSET pending_requests_
        /\ \A i \in S : Untouched(i)
    BY <1>t DEF PendingInv, TypeOK
  <2>5. /\ B \in SUBSET (Ids \X Outcomes)
        /\ \A i, o : <<i, o>> \in B => i \in S
        /\ \A i, o, p : <<i, o>> \in B /\ <<i, p>> \in B => o = p
    BY <2>1, <2>3
  <2> HIDE DEF S, B
  <2>6. batch' = [batch EXCEPT ![EventLoop] = @ \cup B]
    BY <2>2, <2>3
  <2>7. HeldInv' /\ \A j \in Ids \ S : Untouched(j) => Untouched(j)'
    BY <2>2, <2>4, <2>5, <2>6, <1>t, TakeKeeps
  <2>8. FreshInv' /\ PendingInv'
    BY <2>2, <2>4, <2>7, <1>t, ShrinkKeeps
  <2> QED BY <2>7, <2>8 DEF Owned
<1>6. ASSUME NEW t \in Threads, Invoke(t) PROVE Owned'
  <2>1. PICK e \in batch[t] :
            /\ batch' = [batch EXCEPT ![t] = @ \ {e}]
            /\ heard' = [heard EXCEPT ![e[1]] = Append(@, e[2])]
    BY <1>6 DEF Invoke
  <2>2. e = <<e[1], e[2]>> /\ e[1] \in Ids /\ e[2] \in Outcomes
    BY <2>1, <1>t DEF TypeOK
  <2>3. UNCHANGED <<cancelled, pending_requests_, request_id_, step, current>>
    BY <1>6 DEF Invoke, table, sending
  <2>4. heard[e[1]] = <<>> /\ e[1] \notin cancelled /\ heard \in [Ids -> Seq(Outcomes)]
    BY <2>1, <2>2, <1>t DEF HeldInv, TypeOK
  <2>5. /\ Len(heard'[e[1]]) = 1
        /\ \A i \in Ids : i # e[1] => heard'[i] = heard[i]
    BY <2>1, <2>2, <2>4
  <2>6. \A u \in Threads : \A x : x \in batch'[u] => x \in batch[u] /\ x # e
    <3>1. ASSUME NEW u \in Threads, NEW x, x \in batch'[u], x = e PROVE FALSE
      <4>1. u # t
        BY <3>1, <2>1, <1>t DEF TypeOK
      <4>2. e \in batch[u] /\ e \in batch[t]
        BY <3>1, <4>1, <2>1, <1>t DEF TypeOK
      <4> QED BY <4>1, <4>2, <2>2, <1>t DEF HeldInv
    <3> QED BY <3>1, <2>1, <1>t DEF TypeOK
  <2>7. \A u \in Threads, o \in Outcomes : <<e[1], o>> \notin batch'[u]
    <3>1. ASSUME NEW u \in Threads, NEW o \in Outcomes, <<e[1], o>> \in batch'[u] PROVE FALSE
      <4>1. <<e[1], o>> \in batch[u] /\ <<e[1], o>> # e
        BY <2>6, <3>1
      <4>2. o = e[2]
        BY <4>1, <2>1, <2>2, <1>t DEF HeldInv
      <4> QED BY <4>1, <4>2, <2>2
    <3> QED BY <3>1
  <2>8. HeldInv'
    <3>1. \A i \in Ids, u, v \in Threads, o, p \in Outcomes :
              <<i, o>> \in batch'[u] /\ <<i, p>> \in batch'[v] => u = v /\ o = p
      BY <2>6, <1>t DEF HeldInv
    <3>2. \A i \in Ids, u \in Threads, o \in Outcomes :
              <<i, o>> \in batch'[u] => heard'[i] = <<>> /\ i \notin cancelled'
      BY <2>3, <2>5, <2>6, <2>7, <1>t DEF HeldInv
    <3>3. ASSUME NEW i \in Ids PROVE Len(heard'[i]) <= 1
      <4>1. CASE i = e[1]
        BY <4>1, <2>5
      <4>2. CASE i # e[1]
        BY <4>2, <2>5, <1>t DEF HeldInv
      <4> QED BY <4>1, <4>2
    <3>4. \A i \in cancelled' : heard'[i] = <<>>
      BY <2>3, <2>4, <2>5, <1>t DEF HeldInv, TypeOK
    <3> QED BY <3>1, <3>2, <3>3, <3>4 DEF HeldInv
  <2>9. \A j \in Ids : Untouched(j) => Untouched(j)'
    <3>1. ~Untouched(e[1])
      BY <2>1, <2>2 DEF Untouched
    <3>2. ASSUME NEW j \in Ids, Untouched(j) PROVE Untouched(j)'
      <4>1. j # e[1]
        BY <3>1, <3>2
      <4> QED BY <4>1, <3>2, <2>3, <2>5, <2>6 DEF Untouched
    <3> QED BY <3>2
  <2>10. FreshInv' /\ PendingInv'
    BY <2>3, <2>9, <1>t DEF FreshInv, PendingInv, TypeOK
  <2> QED BY <2>8, <2>10 DEF Owned
<1> QED
  BY <1>0, <1>1, <1>2, <1>3, <1>4, <1>5, <1>6, <1>7, <1>8, <1>10, <1>11, <1>12,
     <1>13, <1>14, <1>15, <1>16, <1>17 DEF Next

\* The invariant holds initially and in every step.
THEOREM Invariance == Spec => []IInv
<1>1. Init => IInv
  <2> SUFFICES ASSUME Init PROVE Owned
    BY TypeInit DEF IInv, Owned
  <2> QED
    BY DEF Init, Owned, FreshInv, PendingInv, HeldInv, Untouched
<1>2. IInv /\ [Next]_vars => IInv'
  BY TypeStep, OwnedStep DEF IInv, Owned
<1> QED BY <1>1, <1>2, PTL DEF Spec

\* Whatever response, timeout, cleanup, rejection or send failure race for a
\* request, its caller hears at most one outcome, once.
THEOREM OneOutcome == Spec => []AtMostOneOutcome
<1>1. IInv => AtMostOneOutcome
  BY DEF IInv, HeldInv, AtMostOneOutcome, Holds
<1> QED BY <1>1, Invariance, PTL

\* Once cancel() has returned true neither callback of the request runs.
THEOREM CancelWins == Spec => []CancelIsFinal
<1>1. IInv => CancelIsFinal
  BY DEF IInv, TypeOK, HeldInv, CancelIsFinal, Holds
<1> QED BY <1>1, Invariance, PTL

-----------------------------------------------------------------------------
(* Nothing is left behind by a close.                                      *)

\* Request i may be in the table once closes are handled.
Accounted(i) == (\E t \in Threads : InSend(t, i)) \/ frame[i] \in {"carried", "adrift"}

\* A step keeps every request accounted for if it leaves the threads inside
\* send() and the frames alone.
LEMMA QuietAccounts ==
    ASSUME NEW i, Accounted(i), UNCHANGED <<step, current, frame>>
    PROVE  Accounted(i)'
BY DEF Accounted, InSend

\* A step of one thread keeps a request accounted for that it does not send.
LEMMA OtherAccounts ==
    ASSUME NEW i, Accounted(i), NEW t \in Threads, current[t] # i,
           \A u \in Threads \ {t} : step'[u] = step[u] /\ current'[u] = current[u],
           frame'[i] = frame[i]
    PROVE  Accounted(i)'
<1>1. ASSUME NEW u \in Threads, InSend(u, i) PROVE InSend(u, i)'
  <2>1. u # t
    BY <1>1 DEF InSend
  <2> QED BY <1>1, <2>1 DEF InSend
<1> QED BY <1>1 DEF Accounted

\* No step puts a request into the table, or lets one stay there past a
\* handled close, whose frame neither is still to be written nor was written
\* since that close.
LEMMA StrandedStep ==
    TypeOK /\ SendersInv /\ NoStrandedRequest /\ [Next]_vars => NoStrandedRequest'
<1> SUFFICES ASSUME TypeOK, SendersInv, NoStrandedRequest, [Next]_vars,
                    cleanup_due' = FALSE, NEW i \in pending_requests_'
             PROVE  Accounted(i)'
  BY TypeStep DEF NoStrandedRequest, Accounted, TypeOK
<1>t. /\ step \in [Threads -> SendSteps] /\ current \in [Threads -> Ids \cup {NoId}]
      /\ frame \in [Ids -> Frames] /\ cleanup_due \in BOOLEAN
      /\ pending_requests_ \subseteq Ids
      /\ \A t \in Threads : step[t] = "none" <=> current[t] = NoId
      /\ NoId \notin Ids
  BY NoIdAssumption DEF TypeOK, SendersInv, Ids
<1>i. cleanup_due = FALSE /\ i \in pending_requests_ => Accounted(i)
  BY DEF NoStrandedRequest, Accounted
\* Steps that keep the frames and send(), and add nothing to the table.
<1>q. ASSUME UNCHANGED <<cleanup_due, step, current, frame>>,
             pending_requests_' \subseteq pending_requests_
      PROVE  Accounted(i)'
  BY <1>q, <1>i, QuietAccounts
<1>0. CASE UNCHANGED vars
  BY <1>0, <1>q DEF vars, table, sending, socket
<1>1. ASSUME NEW t \in Threads, BeginSend(t) PROVE Accounted(i)'
  <2>1. Accounted(i) /\ i \in Ids
    BY <1>1, <1>i, <1>t DEF BeginSend, socket
  <2>2. current[t] # i /\ frame' = frame
    BY <1>1, <1>t, <2>1 DEF BeginSend, Free, socket
  <2>3. \A u \in Threads \ {t} : step'[u] = step[u] /\ current'[u] = current[u]
    BY <1>1, <1>t DEF BeginSend
  <2> QED BY <2>1, <2>2, <2>3, OtherAccounts
<1>2. ASSUME NEW t \in Threads, Register(t) PROVE Accounted(i)'
  <2>0. frame' = frame /\ cleanup_due' = cleanup_due
    BY <1>2 DEF Register, socket
  <2>1. CASE i = current[t] /\ step'[t] = "transmit" /\ current' = current
    BY <2>1 DEF Accounted, InSend
  <2>2. CASE i \in pending_requests_ /\ i # current[t]
    <3>1. \A u \in Threads \ {t} : step'[u] = step[u] /\ current'[u] = current[u]
      BY <1>2, <1>t DEF Register
    <3> QED BY <1>i, <2>0, <2>2, <3>1, OtherAccounts
  <2>3. CASE i \in pending_requests_ /\ i = current[t] /\ pending_requests_' = pending_requests_
    <3>1. Accounted(i)
      BY <1>i, <2>0, <2>3
    <3>2. frame[i] \in {"carried", "adrift"} \/ \E u \in Threads : InSend(u, i)
      BY <3>1 DEF Accounted
    <3>3. ASSUME NEW u \in Threads, InSend(u, i) PROVE InSend(u, i)'
      <4>1. u # t
        BY <1>2, <3>3 DEF InSend, Register
      <4> QED BY <1>2, <1>t, <3>3, <4>1 DEF InSend, Register
    <3> QED BY <2>0, <3>2, <3>3 DEF Accounted
  <2>4. \/ pending_requests_' = pending_requests_
        \/ /\ pending_requests_' = pending_requests_ \cup {current[t]}
           /\ step'[t] = "transmit" /\ current' = current
    BY <1>2, <1>t DEF Register
  <2> QED BY <2>1, <2>2, <2>3, <2>4
<1>3. ASSUME NEW t \in Threads, Transmit(t) PROVE Accounted(i)'
  <2>0. cleanup_due' = cleanup_due /\ pending_requests_' = pending_requests_
    BY <1>3 DEF Transmit, table
  <2>1. Accounted(i) /\ i \in Ids
    BY <2>0, <1>i, <1>t
  <2>2. CASE current[t] # i
    <3>1. \A u \in Threads \ {t} : step'[u] = step[u] /\ current'[u] = current[u]
      BY <1>3, <1>t DEF Transmit
    <3>2. frame'[i] = frame[i]
      BY <1>3, <1>t, <2>1, <2>2 DEF Transmit
    <3> QED BY <2>1, <2>2, <3>1, <3>2, OtherAccounts
  <2>3. CASE current[t] = i /\ step' = [step EXCEPT ![t] = "failed"] /\ current' = current
    BY <2>3, <1>t DEF Accounted, InSend
  <2>4. CASE /\ current[t] = i
             /\ frame' = [frame EXCEPT ![current[t]] = IF ws_open THEN "carried" ELSE "adrift"]
    BY <2>1, <2>4, <1>t DEF Accounted
  <2> QED BY <1>3, <2>2, <2>3, <2>4 DEF Transmit
<1>4. ASSUME NEW t \in Threads, SendFailed(t) PROVE Accounted(i)'
  <2>0. /\ cleanup_due' = cleanup_due /\ frame' = frame
        /\ i \in pending_requests_ /\ i # current[t]
    BY <1>4 DEF SendFailed, socket
  <2>1. \A u \in Threads \ {t} : step'[u] = step[u] /\ current'[u] = current[u]
    BY <1>4, <1>t DEF SendFailed
  <2> QED BY <1>i, <2>0, <2>1, OtherAccounts
<1>5. ASSUME NEW t \in Threads, SendFireAndForget(t) PROVE Accounted(i)'
  BY <1>5, <1>q DEF SendFireAndForget, sending
<1>6. ASSUME NEW t \in Threads, Invoke(t) PROVE Accounted(i)'
  BY <1>6, <1>q DEF Invoke, table, sending, socket
<1>7. ASSUME NEW t \in Threads, CheckTimeouts(t) PROVE Accounted(i)'
  BY <1>7, <1>q DEF CheckTimeouts, sending, socket
<1>8. ASSUME NEW t \in Threads, LogPending(t) PROVE Accounted(i)'
  BY <1>8, <1>q DEF LogPending, table, sending, socket
<1>10. ASSUME NEW t \in Threads, CleanupRequested(t) PROVE Accounted(i)'
  BY <1>10 DEF CleanupRequested, CleanupAll
<1>11. ASSUME NEW t \in Threads, OnClose(t) PROVE Accounted(i)'
  BY <1>11 DEF OnClose, CleanupAll
<1>12. ASSUME NEW t \in Threads, NEW c \in Ids, Cancel(t, c) PROVE Accounted(i)'
  BY <1>12, <1>q DEF Cancel, sending, socket
<1>13. ASSUME NEW r \in wire, RouteResponse(r) PROVE Accounted(i)'
  BY <1>13, <1>q DEF RouteResponse, sending
<1>14. ASSUME NEW c \in Ids, Expire(c) PROVE Accounted(i)'
  BY <1>14, <1>q DEF Expire, sending, socket
<1>15. ASSUME NEW c \in Ids, NEW k \in {"success", "rpc_error"}, Reply(c, k) PROVE Accounted(i)'
  BY <1>15, <1>q DEF Reply, table, sending
<1>16. ASSUME SocketClose PROVE Accounted(i)'
  BY <1>16 DEF SocketClose
<1>17. ASSUME SocketOpen PROVE Accounted(i)'
  BY <1>17, <1>q DEF SocketOpen, table, sending
<1> QED
  BY <1>0, <1>1, <1>2, <1>3, <1>4, <1>5, <1>6, <1>7, <1>8, <1>10, <1>11, <1>12,
     <1>13, <1>14, <1>15, <1>16, <1>17 DEF Next

\* Once a close has been handled no request of the connection it lost is in the
\* table, whichever send() raced the close: what is there is still being sent,
\* was carried since, or was accepted by ws.send() with no connection open.
THEOREM NothingStranded == Spec => []NoStrandedRequest
<1>1. Init => NoStrandedRequest
  BY DEF Init, NoStrandedRequest
<1> QED
  BY <1>1, TypeInit, TypeStep, StrandedStep, PTL DEF Spec

-----------------------------------------------------------------------------
(* The table is sound: its capacity, and what an invalid id means.         *)

\* Only a registration that found room adds to the table.
LEMMA TableGrows ==
    ASSUME [Next]_vars
    PROVE  \/ pending_requests_' \subseteq pending_requests_
           \/ \E i : ~QueueFull /\ pending_requests_' = pending_requests_ \cup {i}
BY DEF Next, BeginSend, Register, Transmit, SendFailed, SendFireAndForget, Invoke, CheckTimeouts,
       LogPending, CleanupRequested, CleanupAll, Cancel, RouteResponse, OnClose, Expire, Reply,
       SocketClose, SocketOpen, vars, table

\* The capacity check and the insertion are one critical section.
LEMMA BoundedStep == TypeOK /\ Bounded /\ [Next]_vars => Bounded'
<1> SUFFICES ASSUME TypeOK, Bounded, [Next]_vars PROVE Bounded'
  OBVIOUS
<1>1. IsFiniteSet(pending_requests_) /\ Cardinality(pending_requests_) \in Nat
  <2>1. IsFiniteSet(Ids)
    BY FS_Interval, BoundAssumption DEF Ids
  <2> QED BY <2>1, FS_Subset, FS_CardinalityType DEF TypeOK
<1>2. CASE pending_requests_' \subseteq pending_requests_
  <2>1. /\ Cardinality(pending_requests_') <= Cardinality(pending_requests_)
        /\ Cardinality(pending_requests_') \in Nat
    BY <1>1, <1>2, FS_Subset, FS_CardinalityType
  <2> QED BY <1>1, <2>1, BoundAssumption DEF Bounded
<1>3. ASSUME NEW i, ~QueueFull, pending_requests_' = pending_requests_ \cup {i}
      PROVE  Bounded'
  <2>1. Cardinality(pending_requests_') <= Cardinality(pending_requests_) + 1
    BY <1>1, <1>3, FS_AddElement
  <2>2. Cardinality(pending_requests_') \in Nat
    BY <1>1, <1>3, FS_AddElement, FS_CardinalityType
  <2>3. Cardinality(pending_requests_) < MaxPending
    BY <1>1, <1>3, BoundAssumption DEF QueueFull
  <2> QED BY <1>1, <2>1, <2>2, <2>3, BoundAssumption DEF Bounded
<1> QED BY <1>2, <1>3, TableGrows

\* The caller of i has not been told, and is not about to be told, success.
NoSuccess(i) ==
    /\ \A k \in DOMAIN heard[i] : heard[i][k] # "success"
    /\ \A t \in Threads : <<i, "success">> \notin batch[t]

\* The printer has not seen request i.
Unsent(i) == i \notin at_server /\ \A k \in {"success", "rpc_error"} : <<i, k>> \notin wire

\* An id that is not handed out, or still inside its own send(), has not been
\* sent and answered; an id that send() gave up is not inside send() any more.
SentInv ==
    /\ \A i \in Ids : i > request_id_ => Unsent(i) /\ NoSuccess(i)
    /\ \A t \in Threads : current[t] # NoId => Unsent(current[t]) /\ NoSuccess(current[t])
    /\ \A i \in Ids :
           returned[i] = "invalid" =>
               /\ i <= request_id_ /\ i \notin pending_requests_ /\ NoSuccess(i)
               /\ \A t \in Threads : current[t] # i

\* Success reaches a batch only by way of a response to a pending request.
LEMMA NoSuccessStep ==
    ASSUME IInv, [Next]_vars, NEW i \in Ids, NoSuccess(i),
           i \notin pending_requests_ \/ Unsent(i)
    PROVE  NoSuccess(i)'
<1> USE ThreadAssumption
<1>t. /\ batch \in [Threads -> SUBSET (Ids \X Outcomes)] /\ heard \in [Ids -> Seq(Outcomes)]
      /\ wire \subseteq Ids \X {"success", "rpc_error"}
  BY DEF IInv, TypeOK
\* Steps that add to the batch of one thread, but no success of i.
<1>q. ASSUME heard' = heard, NEW t \in Threads, NEW B,
             batch' = batch \/ batch' = [batch EXCEPT ![t] = B],
             <<i, "success">> \in B => <<i, "success">> \in batch[t]
      PROVE  NoSuccess(i)'
  BY <1>q, <1>t DEF NoSuccess
<1>e. \A S, o : <<i, "success">> \in ErrorCallbacks(S, o) => o = "success"
  BY DEF ErrorCallbacks
<1>0. CASE batch' = batch /\ heard' = heard
  BY <1>0 DEF NoSuccess
<1>2. ASSUME NEW t \in Threads, Register(t) PROVE NoSuccess(i)'
  BY <1>2, <1>q, <1>e DEF Register, outcome
<1>4. ASSUME NEW t \in Threads, SendFailed(t) PROVE NoSuccess(i)'
  BY <1>4, <1>q, <1>e DEF SendFailed, outcome
<1>6. ASSUME NEW t \in Threads, Invoke(t) PROVE NoSuccess(i)'
  <2>1. PICK e \in batch[t] :
            /\ batch' = [batch EXCEPT ![t] = @ \ {e}]
            /\ heard' = [heard EXCEPT ![e[1]] = Append(@, e[2])]
    BY <1>6 DEF Invoke
  <2>2. e = <<e[1], e[2]>> /\ e[1] \in Ids /\ e[2] \in Outcomes
    BY <2>1, <1>t
  <2>3. \A u \in Threads : batch'[u] \subseteq batch[u]
    BY <2>1, <1>t
  <2>4. CASE e[1] = i
    <3>1. e[2] # "success"
      BY <2>1, <2>2, <2>4 DEF NoSuccess
    <3>2. heard[i] = <<>>
      BY <2>1, <2>2, <2>4 DEF IInv, HeldInv
    <3>3. heard'[i] = <<e[2]>>
      BY <2>1, <2>2, <2>4, <3>2, <1>t
    <3>4. \A k \in DOMAIN heard'[i] : heard'[i][k] # "success"
      BY <3>1, <3>3
    <3> QED BY <2>3, <3>4 DEF NoSuccess
  <2>5. CASE e[1] # i
    <3>1. heard'[i] = heard[i]
      BY <2>1, <2>5, <1>t
    <3> QED BY <2>3, <3>1 DEF NoSuccess
  <2> QED BY <2>4, <2>5
<1>7. ASSUME NEW t \in Threads, CheckTimeouts(t) PROVE NoSuccess(i)'
  BY <1>7, <1>q, <1>e DEF CheckTimeouts, outcome
<1>9. ASSUME NEW t \in Threads, CleanupAll(t) PROVE NoSuccess(i)'
  BY <1>9, <1>q, <1>e DEF CleanupAll, outcome
<1>13. ASSUME NEW r \in wire, RouteResponse(r) PROVE NoSuccess(i)'
  <2>1. r = <<r[1], r[2]>> /\ r[2] \in {"success", "rpc_error"}
    BY <1>t
  <2>2. PICK B : /\ batch' = [batch EXCEPT ![EventLoop] = B]
                 /\ B = {} \/ (B = {r} /\ r[1] \in pending_requests_)
    BY <1>13 DEF RouteResponse
  <2>3. <<i, "success">> \notin B
    BY <2>1, <2>2 DEF Unsent
  <2> QED BY <1>13, <2>2, <2>3, <1>q DEF RouteResponse, outcome
<1> QED
  BY <1>0, <1>2, <1>4, <1>6, <1>7, <1>9, <1>13
  DEF Next, BeginSend, Transmit, SendFireAndForget, LogPending, CleanupRequested, OnClose, Cancel,
      Expire, Reply, SocketClose, SocketOpen, vars, table, sending, sweeping, outcome, socket

\* The printer learns of a request only when its own send() transmits it.
LEMMA UnsentStep ==
    ASSUME TypeOK, [Next]_vars, NEW i \in Ids, Unsent(i)
    PROVE  \/ Unsent(i)'
           \/ \E t \in Threads : Transmit(t) /\ current[t] = i /\ current'[t] = NoId
           \/ i = request_id_ + 1 /\ request_id_' = request_id_ + 1 /\ UNCHANGED current
<1>1. CASE at_server' \subseteq at_server /\ wire' \subseteq wire
  BY <1>1 DEF Unsent
<1>2. ASSUME NEW t \in Threads, Transmit(t), at_server' = at_server \cup {current[t]}
      PROVE  Unsent(i)' \/ (current[t] = i /\ current'[t] = NoId)
  <2>1. at_server' = at_server \/ current'[t] = NoId
    BY <1>2 DEF Transmit, TypeOK
  <2> QED BY <1>2, <2>1 DEF Transmit, Unsent
<1>3. ASSUME NEW t \in Threads, SendFireAndForget(t)
      PROVE  \/ Unsent(i)'
             \/ i = request_id_ + 1 /\ request_id_' = request_id_ + 1 /\ UNCHANGED current
  BY <1>3 DEF SendFireAndForget, sending, Unsent
<1>4. ASSUME NEW j \in Ids, NEW k \in {"success", "rpc_error"}, Reply(j, k) PROVE Unsent(i)'
  BY <1>4 DEF Reply, Unsent
<1>5. ASSUME NEW t \in Threads, Transmit(t), at_server' # at_server \cup {current[t]}
      PROVE  Unsent(i)'
  BY <1>5 DEF Transmit, Unsent
<1> QED
  BY <1>1, <1>2, <1>3, <1>4, <1>5
  DEF Next, BeginSend, Register, SendFailed, Invoke, CheckTimeouts, LogPending, CleanupRequested,
      CleanupAll, Cancel, RouteResponse, OnClose, Expire, SocketClose, SocketOpen, vars, socket

\* Ids enter send() in order, and leave it as returned or as given up.
LEMMA SendersMove ==
    ASSUME IInv, [Next]_vars
    PROVE  /\ request_id_' = request_id_ \/ request_id_' = request_id_ + 1
           /\ \A t \in Threads :
                  current'[t] # NoId =>
                      \/ current'[t] = current[t]
                      \/ current'[t] = request_id_ + 1 /\ request_id_' = request_id_ + 1
           /\ \A i \in Ids :
                  returned'[i] = "invalid" =>
                      \/ returned[i] = "invalid"
                      \/ \E t \in Threads : /\ current[t] = i /\ current'[t] = NoId
                                            /\ \A u \in Threads \ {t} : current'[u] = current[u]
                                            /\ i \notin pending_requests_'
<1>t. /\ request_id_ \in Nat /\ current \in [Threads -> Ids \cup {NoId}]
      /\ returned \in [Ids -> {"none", "id", "invalid"}]
  BY DEF IInv, TypeOK
<1>c. \A t \in Threads : step[t] # "none" => current[t] \in Ids
  BY DEF IInv, TypeOK, SendersInv
<1>0. CASE UNCHANGED <<request_id_, current, returned>>
  BY <1>0
<1>1. ASSUME NEW t \in Threads, BeginSend(t)
      PROVE  /\ request_id_' = request_id_ + 1 /\ returned' = returned
             /\ current' = [current EXCEPT ![t] = request_id_ + 1]
  BY <1>1 DEF BeginSend
<1>3. ASSUME NEW t \in Threads, Register(t) \/ SendFailed(t), ~UNCHANGED <<current, returned>>
      PROVE  /\ request_id_' = request_id_ /\ current' = [current EXCEPT ![t] = NoId]
             /\ returned' = [returned EXCEPT ![current[t]] = "invalid"]
             /\ current[t] \in Ids /\ current[t] \notin pending_requests_'
  <2>1. step[t] # "none"
    BY <1>3 DEF Register, SendFailed
  <2>2. Register(t) => current[t] \notin pending_requests_
    BY <1>c DEF Register, IInv, FreshInv
  <2> QED BY <1>3, <1>c, <2>1, <2>2 DEF Register, SendFailed
<1>4. ASSUME NEW t \in Threads, Transmit(t)
      PROVE  /\ request_id_' = request_id_
             /\ \/ UNCHANGED <<current, returned>>
                \/ /\ current' = [current EXCEPT ![t] = NoId]
                   /\ returned' = [returned EXCEPT ![current[t]] = "id"] /\ current[t] \in Ids
  BY <1>4, <1>c DEF Transmit, table
<1>5. ASSUME NEW t \in Threads, SendFireAndForget(t)
      PROVE  request_id_' = request_id_ + 1 /\ UNCHANGED <<current, returned>>
  BY <1>5 DEF SendFireAndForget, sending
<1>6. ASSUME Next, ~\E t \in Threads : \/ BeginSend(t) \/ Register(t) \/ SendFailed(t)
                                         \/ Transmit(t) \/ SendFireAndForget(t)
      PROVE  UNCHANGED <<request_id_, current, returned>>
  BY <1>6 DEF Next, Invoke, CheckTimeouts, LogPending, CleanupRequested, CleanupAll, Cancel,
              RouteResponse, OnClose, Expire, Reply, SocketClose, SocketOpen, table, sending
<1>7. CASE \E t \in Threads : BeginSend(t)
  BY <1>7, <1>1, <1>t
<1>8. ASSUME NEW t \in Threads, Register(t) \/ SendFailed(t) PROVE
          /\ request_id_' = request_id_
          /\ \A u \in Threads : current'[u] # NoId => current'[u] = current[u]
          /\ \A i \in Ids :
                  returned'[i] = "invalid" =>
                      \/ returned[i] = "invalid"
                      \/ /\ current[t] = i /\ current'[t] = NoId
                         /\ \A u \in Threads \ {t} : current'[u] = current[u]
                         /\ i \notin pending_requests_'
  BY <1>8, <1>3, <1>t DEF Register, SendFailed
<1>9. CASE \E t \in Threads : Transmit(t)
  BY <1>9, <1>4, <1>t
<1>10. CASE \E t \in Threads : SendFireAndForget(t)
  BY <1>10, <1>5, <1>t
<1> QED BY <1>0, <1>6, <1>7, <1>8, <1>9, <1>10 DEF vars, table, sending

\* No request is answered before its own send() is over, and one that was
\* given up never comes back.
LEMMA SentStep == IInv /\ SentInv /\ [Next]_vars => SentInv'
<1> SUFFICES ASSUME IInv, SentInv, [Next]_vars PROVE SentInv'
  OBVIOUS
<1> USE NoIdAssumption
<1>t. /\ request_id_ \in Nat
      /\ request_id_' = request_id_ \/ request_id_' = request_id_ + 1
      /\ current \in [Threads -> Ids \cup {NoId}] /\ \A i \in Ids : i \in Nat /\ i # NoId
      /\ \A t \in Threads : current[t] # NoId => current[t] <= request_id_
      /\ \A t, u \in Threads : current[t] # NoId /\ current[t] = current[u] => t = u
  <2>1. \A i \in Ids : i \in Nat /\ i # NoId
    BY DEF Ids
  <2>2. /\ request_id_ \in Nat /\ current \in [Threads -> Ids \cup {NoId}]
        /\ \A t \in Threads : current[t] # NoId => current[t] <= request_id_
        /\ \A t, u \in Threads : current[t] # NoId /\ current[t] = current[u] => t = u
    BY DEF IInv, TypeOK, SendersInv
  <2>3. request_id_' = request_id_ \/ request_id_' = request_id_ + 1
    BY SendersMove
  <2> QED
    BY <2>1, <2>2, <2>3
<1>k. \A t \in Threads : current'[t] \in Ids \cup {NoId}
  BY TypeStep DEF IInv, TypeOK
<1>1. ASSUME NEW i \in Ids, i > request_id_' PROVE Unsent(i)' /\ NoSuccess(i)'
  <2>1. i > request_id_ /\ i # request_id_'
    BY <1>1, <1>t
  <2>2. Unsent(i) /\ NoSuccess(i) /\ \A t \in Threads : current[t] # i
    BY <2>1, <1>t DEF SentInv
  <2> QED BY <2>1, <2>2, NoSuccessStep, UnsentStep DEF IInv
<1>2. ASSUME NEW t \in Threads, NEW i \in Ids, current'[t] = i
      PROVE  Unsent(i)' /\ NoSuccess(i)'
  <2>1. CASE current[t] = i
    <3>1. Unsent(i) /\ NoSuccess(i)
      BY <2>1, <1>t DEF SentInv
    <3>2. ~\E u \in Threads : current[u] = i /\ current'[u] = NoId
      BY <2>1, <1>t, <1>2
    <3>3. ~(i = request_id_ + 1)
      BY <2>1, <1>t
    <3>4. Unsent(i)' /\ NoSuccess(i)'
      BY <3>1, <3>2, <3>3, NoSuccessStep, UnsentStep DEF IInv
    <3> QED BY <3>4
  <2>2. CASE i = request_id_ + 1 /\ current[t] # i
    <3>1. Unsent(i) /\ NoSuccess(i) /\ \A u \in Threads : current[u] # i
      BY <2>2, <1>t DEF SentInv
    <3>2. current' # current
      BY <1>2, <2>2
    <3>3. Unsent(i)' /\ NoSuccess(i)'
      BY <3>1, <3>2, NoSuccessStep, UnsentStep DEF IInv
    <3> QED BY <3>3
  <2> QED BY <1>2, <1>t, <2>1, <2>2, SendersMove
<1>3. ASSUME NEW i \in Ids, returned'[i] = "invalid"
      PROVE  /\ i <= request_id_' /\ i \notin pending_requests_' /\ NoSuccess(i)'
             /\ \A t \in Threads : current'[t] # i
  <2>1. CASE returned[i] = "invalid"
    <3>1. /\ i <= request_id_ /\ i \notin pending_requests_ /\ NoSuccess(i)
          /\ \A t \in Threads : current[t] # i
      BY <2>1 DEF SentInv
    <3>2. i \notin pending_requests_'
      <4>1. \/ pending_requests_' \subseteq pending_requests_
            \/ \E t \in Threads : pending_requests_' \subseteq pending_requests_ \cup {current[t]}
        BY DEF Next, BeginSend, Register, Transmit, SendFailed, SendFireAndForget, Invoke,
               CheckTimeouts, LogPending, CleanupRequested, CleanupAll, Cancel, RouteResponse,
               OnClose, Expire, Reply, SocketClose, SocketOpen, vars, table
      <4> QED BY <3>1, <4>1
    <3>3. i <= request_id_' /\ i # request_id_ + 1
      BY <3>1, <1>t
    <3>4. \A t \in Threads : current'[t] # i
      BY <3>1, <3>3, <1>t, SendersMove
    <3> QED BY <3>1, <3>2, <3>3, <3>4, NoSuccessStep
  <2>2. CASE returned[i] # "invalid"
    <3>1. PICK t \in Threads : /\ current[t] = i /\ current'[t] = NoId
                               /\ \A u \in Threads \ {t} : current'[u] = current[u]
                               /\ i \notin pending_requests_'
      BY <1>3, <2>2, SendersMove
    <3>2. Unsent(i) /\ NoSuccess(i) /\ i <= request_id_
      BY <3>1, <1>t DEF SentInv
    <3>3. \A u \in Threads : current'[u] # i
      BY <3>1, <1>t
    <3> QED BY <3>1, <3>2, <3>3, <1>t, NoSuccessStep
  <2> QED BY <2>1, <2>2
<1>4. \A t \in Threads : (current[t] # NoId => Unsent(current[t]) /\ NoSuccess(current[t]))'
  BY <1>2, <1>k DEF Unsent, NoSuccess
<1> QED BY <1>1, <1>3, <1>4 DEF SentInv

\* The table is typed, never over its capacity, and an id that send()
\* returned as invalid is in nobody's hands.
THEOREM TableStaysSound == Spec => []TableIsSound
<1>1. Init => Bounded /\ SentInv
  <2>1. Init => Bounded
    BY FS_EmptySet, BoundAssumption DEF Init, Bounded
  <2>2. Init => SentInv
    BY DEF Init, SentInv, Unsent, NoSuccess
  <2> QED BY <2>1, <2>2
<1>2. IInv /\ Bounded /\ SentInv /\ [Next]_vars => Bounded' /\ SentInv'
  BY BoundedStep, SentStep DEF IInv
<1>3. IInv /\ Bounded /\ SentInv => TableIsSound
  BY DEF IInv, SentInv, NoSuccess, TableIsSound, InvalidIdMeansOver
<1> QED BY <1>1, <1>2, <1>3, Invariance, PTL DEF Spec

-----------------------------------------------------------------------------
(* The tracker implements the one-shot promise.                            *)

\* The requests under way, and those that are over, as the promise sees them.
OpenIds == {i \in Ids : Open(i)}
ClosedIds == {i \in Ids : i <= request_id_ /\ ~Open(i)}

\* An id beyond the counter is not open, nor is one inside no operation.
LEMMA BeyondIsFree == IInv => \A i \in Ids : Open(i) => i <= request_id_
<1>0. IInv => request_id_ \in Nat /\ Ids \subseteq Nat
  BY BoundAssumption DEF IInv, TypeOK, Ids
<1> SUFFICES ASSUME IInv, NEW i \in Ids, i > request_id_, Open(i) PROVE FALSE
  BY <1>0
<1>1. i \notin pending_requests_ /\ Untouched(i)
  BY DEF IInv, FreshInv
<1>2. PICK t \in Threads : step[t] = "register" /\ current[t] = i
  BY <1>1 DEF Open, Holds, Untouched
<1>3. current[t] # NoId
  BY <1>2, NoIdAssumption DEF Ids
<1> QED BY <1>2, <1>3, BoundAssumption DEF IInv, SendersInv, TypeOK, Ids

\* A step that tells nobody anything and opens no request withdraws the
\* requests it takes, if any.
LEMMA ShrinkRefines ==
    ASSUME IInv, heard' = heard, request_id_' = request_id_,
           \A i \in Ids : Open(i)' => Open(i)
    PROVE  [Promise!Next]_(Promise!vars)
<1> DEFINE S == {i \in Ids : Open(i) /\ ~Open(i)'}
<1>1. S \in SUBSET OpenIds /\ OpenIds' = OpenIds \ S
  BY DEF OpenIds
<1>2. ClosedIds' = ClosedIds \cup S
  BY BeyondIsFree DEF ClosedIds
<1>3. CASE S = {}
  BY <1>1, <1>2, <1>3 DEF Promise!vars, OpenIds, ClosedIds
<1>4. CASE S # {}
  <2> HIDE DEF S
  <2>1. /\ {i \in Ids : Open(i)'} = {i \in Ids : Open(i)} \ S
        /\ {i \in Ids : i <= request_id_' /\ ~Open(i)'} = {i \in Ids : i <= request_id_ /\ ~Open(i)} \cup S
    BY <1>1, <1>2 DEF OpenIds, ClosedIds
  <2>2. \E T \in SUBSET OpenIds : Promise!Withdraw(T)
    BY <1>1, <1>4, <2>1 DEF Promise!Withdraw
  <2> QED BY <2>2 DEF Promise!Next, OpenIds
<1> QED BY <1>3, <1>4

\* No step but the three that are begun, told or waived opens a request or
\* tells a caller anything.
LEMMA OpenShrinks ==
    ASSUME IInv, Next,
           ~\E t \in Threads : BeginSend(t) \/ SendFireAndForget(t) \/ Invoke(t)
    PROVE  heard' = heard /\ request_id_' = request_id_ /\ \A i \in Ids : Open(i)' => Open(i)
<1> USE ThreadAssumption
<1>t. /\ batch \in [Threads -> SUBSET (Ids \X Outcomes)] /\ pending_requests_ \subseteq Ids
      /\ step \in [Threads -> SendSteps] /\ current \in [Threads -> Ids \cup {NoId}]
      /\ wire \subseteq Ids \X {"success", "rpc_error"}
  BY DEF IInv, TypeOK
<1>e. \A S, o, i, p : <<i, p>> \in ErrorCallbacks(S, o) => i \in S
  BY DEF ErrorCallbacks
\* Callbacks move from the table, or from a registration, to a batch.
<1>q. ASSUME NEW t \in Threads, NEW B, batch' = batch \/ batch' = [batch EXCEPT ![t] = B],
             \A i \in Ids, o \in Outcomes : <<i, o>> \in B => <<i, o>> \in batch[t] \/ Open(i),
             pending_requests_' \subseteq {i \in Ids : Open(i)},
             \A u \in Threads : step'[u] = "register" => step[u] = "register" /\ current'[u] = current[u]
      PROVE  \A i \in Ids : Open(i)' => Open(i)
  <2> SUFFICES ASSUME NEW i \in Ids, Open(i)' PROVE Open(i)
    OBVIOUS
  <2>1. CASE i \in pending_requests_'
    BY <2>1, <1>q
  <2>2. ASSUME NEW u \in Threads, NEW o \in Outcomes, <<i, o>> \in batch'[u] PROVE Open(i)
    <3>1. <<i, o>> \in batch[u] \/ Open(i)
      BY <2>2, <1>q, <1>t
    <3> QED BY <3>1 DEF Open, Holds
  <2>3. ASSUME NEW u \in Threads, step'[u] = "register", current'[u] = i PROVE Open(i)
    BY <2>3, <1>q DEF Open
  <2> QED BY <2>1, <2>2, <2>3 DEF Open, Holds
<1>o. \A i \in pending_requests_ : i \in Ids /\ Open(i)
  BY <1>t DEF Open
<1>2. ASSUME NEW t \in Threads, Register(t)
      PROVE  heard' = heard /\ request_id_' = request_id_ /\ \A i \in Ids : Open(i)' => Open(i)
  <2>1. Open(current[t]) /\ current[t] \in Ids
    BY <1>2 DEF Register, Open, IInv, TypeOK, SendersInv
  <2>2. heard' = heard /\ request_id_' = request_id_
    BY <1>2 DEF Register, outcome
  <2>3. pending_requests_' \subseteq {i \in Ids : Open(i)}
    BY <1>2, <1>o, <2>1 DEF Register
  <2>4. \A u \in Threads : step'[u] = "register" => step[u] = "register" /\ current'[u] = current[u]
    BY <1>2, <1>t DEF Register
  <2> DEFINE B == batch[t] \cup ErrorCallbacks({current[t]}, "lost")
  <2>5. batch' = batch \/ batch' = [batch EXCEPT ![t] = B]
    BY <1>2 DEF Register
  <2>6. \A i \in Ids, o \in Outcomes : <<i, o>> \in B => <<i, o>> \in batch[t] \/ Open(i)
    BY <2>1, <1>e
  <2>7. \A i \in Ids : Open(i)' => Open(i)
    <3> HIDE DEF B
    <3> QED BY <2>3, <2>4, <2>5, <2>6, <1>q
  <2> QED BY <2>2, <2>7
<1>3. ASSUME NEW t \in Threads, Transmit(t)
      PROVE  heard' = heard /\ request_id_' = request_id_ /\ \A i \in Ids : Open(i)' => Open(i)
  <2>1. \A u \in Threads : step'[u] = "register" => step[u] = "register" /\ current'[u] = current[u]
    BY <1>3, <1>t DEF Transmit
  <2>2. UNCHANGED <<batch, pending_requests_, heard, request_id_>>
    BY <1>3 DEF Transmit, table, sweeping, outcome
  <2>3. pending_requests_' \subseteq {i \in Ids : Open(i)}
    BY <2>2, <1>o
  <2> DEFINE B == {}
  <2>4. \A i \in Ids, o \in Outcomes : <<i, o>> \in B => <<i, o>> \in batch[t] \/ Open(i)
    OBVIOUS
  <2>5. \A i \in Ids : Open(i)' => Open(i)
    <3> HIDE DEF B
    <3> QED BY <2>1, <2>2, <2>3, <2>4, <1>q
  <2> QED BY <2>2, <2>5
<1>4. ASSUME NEW t \in Threads, SendFailed(t)
      PROVE  heard' = heard /\ request_id_' = request_id_ /\ \A i \in Ids : Open(i)' => Open(i)
  <2>1. UNCHANGED <<heard, request_id_>> /\ pending_requests_' \subseteq pending_requests_
    BY <1>4 DEF SendFailed, outcome
  <2>2. \A u \in Threads : step'[u] = "register" => step[u] = "register" /\ current'[u] = current[u]
    BY <1>4, <1>t DEF SendFailed
  <2>3. PICK B : /\ batch' = [batch EXCEPT ![t] = B]
                 /\ B = batch[t] \cup ErrorCallbacks({current[t]} \cap pending_requests_, "lost")
    BY <1>4 DEF SendFailed
  <2>4. \A i \in Ids, o \in Outcomes : <<i, o>> \in B => <<i, o>> \in batch[t] \/ Open(i)
    BY <2>3, <1>e, <1>o
  <2>5. pending_requests_' \subseteq {i \in Ids : Open(i)}
    BY <2>1, <1>o
  <2>6. batch' = [batch EXCEPT ![t] = B]
    BY <2>3
  <2>7. \A i \in Ids : Open(i)' => Open(i)
    BY <2>2, <2>4, <2>5, <2>6, <1>q
  <2> QED BY <2>1, <2>7
<1>7. ASSUME NEW t \in Threads, CheckTimeouts(t)
      PROVE  heard' = heard /\ request_id_' = request_id_ /\ \A i \in Ids : Open(i)' => Open(i)
  <2>1. UNCHANGED <<heard, request_id_, step, current>> /\ pending_requests_' \subseteq pending_requests_
    BY <1>7 DEF CheckTimeouts, outcome, sending
  <2>3. PICK B : /\ batch' = [batch EXCEPT ![t] = B]
                 /\ B = ErrorCallbacks(pending_requests_ \cap expired, "timeout")
    BY <1>7 DEF CheckTimeouts
  <2>4. \A i \in Ids, o \in Outcomes : <<i, o>> \in B => Open(i)
    BY <2>3, <1>e, <1>o
  <2> QED BY <2>1, <2>3, <2>4, <1>o, <1>q
<1>9. ASSUME NEW t \in Threads, CleanupAll(t)
      PROVE  heard' = heard /\ request_id_' = request_id_ /\ \A i \in Ids : Open(i)' => Open(i)
  <2>1. UNCHANGED <<heard, request_id_, step, current>> /\ pending_requests_' \subseteq pending_requests_
    BY <1>9 DEF CleanupAll, outcome, sending
  <2>3. PICK B : batch' = [batch EXCEPT ![t] = B] /\ B = ErrorCallbacks(pending_requests_, "lost")
    BY <1>9 DEF CleanupAll
  <2>4. \A i \in Ids, o \in Outcomes : <<i, o>> \in B => Open(i)
    BY <2>3, <1>e, <1>o
  <2> QED BY <2>1, <2>3, <2>4, <1>o, <1>q
<1>13. ASSUME NEW r \in wire, RouteResponse(r)
       PROVE  heard' = heard /\ request_id_' = request_id_ /\ \A i \in Ids : Open(i)' => Open(i)
  <2>1. UNCHANGED <<heard, request_id_, step, current>> /\ pending_requests_' \subseteq pending_requests_
    BY <1>13 DEF RouteResponse, outcome, sending
  <2>2. PICK B : /\ batch' = [batch EXCEPT ![EventLoop] = B]
                 /\ B = {} \/ (B = {r} /\ r[1] \in pending_requests_)
    BY <1>13 DEF RouteResponse
  <2>3. \A i \in Ids, o \in Outcomes : <<i, o>> \in B => Open(i)
    BY <2>2, <1>o
  <2> QED BY <2>1, <2>2, <2>3, <1>o, <1>q
<1>12. ASSUME NEW t \in Threads, NEW c \in Ids, Cancel(t, c)
       PROVE  heard' = heard /\ request_id_' = request_id_ /\ \A i \in Ids : Open(i)' => Open(i)
  BY <1>12 DEF Cancel, sending, sweeping, Open, Holds
<1>0. CASE /\ pending_requests_' = pending_requests_
           /\ UNCHANGED <<batch, heard, request_id_, step, current>>
  BY <1>0 DEF Open, Holds
<1> QED
  BY <1>0, <1>2, <1>3, <1>4, <1>7, <1>9, <1>12, <1>13
  DEF Next, LogPending, CleanupRequested, OnClose, Expire, Reply, SocketClose, SocketOpen,
      table, sending, sweeping, outcome

\* fetch_add on the id counter begins the request.
LEMMA BeginSendBegins ==
    ASSUME IInv, NEW t \in Threads, BeginSend(t)
    PROVE  \E i \in Ids : Promise!Begin(i)
<1>t. /\ request_id_ \in Nat /\ step \in [Threads -> SendSteps]
      /\ current \in [Threads -> Ids \cup {NoId}] /\ \A i \in Ids : i \in Nat
  BY DEF IInv, TypeOK, Ids
<1>1. PICK n \in Ids : n = request_id_ + 1
  BY BoundAssumption DEF BeginSend, IInv, TypeOK, Ids
<1>2. /\ UNCHANGED <<pending_requests_, batch, heard>> /\ request_id_' = n
      /\ step' = [step EXCEPT ![t] = "register"] /\ current' = [current EXCEPT ![t] = n]
      /\ step[t] = "none"
  BY <1>1 DEF BeginSend, sweeping, outcome, Free
<1>3. ~Open(n) /\ \A i \in Ids : i > n => ~Open(i)
  BY <1>1, <1>t, BeyondIsFree
<1>4. \A i \in Ids : Open(i)' <=> Open(i) \/ i = n
  <2>1. step'[t] = "register" /\ current'[t] = n
    BY <1>2, <1>t
  <2>2. \A u \in Threads : u # t => step'[u] = step[u] /\ current'[u] = current[u]
    BY <1>2, <1>t
  <2>3. \A i \in Ids, u \in Threads : Holds(u, i)' <=> Holds(u, i)
    BY <1>2 DEF Holds
  <2> QED BY <1>2, <2>1, <2>2, <2>3 DEF Open
<1>5. OpenIds' = OpenIds \cup {n} /\ n \notin OpenIds
  BY <1>3, <1>4 DEF OpenIds
<1>6. ClosedIds' = ClosedIds /\ n \notin ClosedIds
  <2>1. \A i \in Ids : i <= request_id_' <=> i <= request_id_ \/ i = n
    BY <1>1, <1>2, <1>t
  <2>2. \A i \in Ids : i <= request_id_' /\ ~Open(i)' <=> i <= request_id_ /\ ~Open(i)
    BY <2>1, <1>1, <1>3, <1>4, <1>t
  <2>3. ~(n <= request_id_)
    BY <1>1, <1>t
  <2> QED BY <2>2, <2>3 DEF ClosedIds
<1>7. Promise!Begin(n)
  BY <1>2, <1>5, <1>6 DEF Promise!Begin, OpenIds, ClosedIds
<1> QED BY <1>7

\* send_fire_and_forget() takes an id nobody waits for.
LEMMA FireAndForgetWaives ==
    ASSUME IInv, NEW t \in Threads, SendFireAndForget(t)
    PROVE  \E i \in Ids : Promise!Waive(i)
<1>t. request_id_ \in Nat /\ \A i \in Ids : i \in Nat
  BY DEF IInv, TypeOK, Ids
<1>1. PICK n \in Ids : n = request_id_ + 1
  BY BoundAssumption DEF SendFireAndForget, IInv, TypeOK, Ids
<1>2. UNCHANGED <<pending_requests_, batch, heard, step, current>> /\ request_id_' = n
  BY <1>1 DEF SendFireAndForget, sweeping, outcome, sending
<1>3. ~Open(n)
  BY <1>1, <1>t, BeyondIsFree
<1>4. \A i \in Ids : Open(i)' <=> Open(i)
  BY <1>2 DEF Open, Holds
<1>5. OpenIds' = OpenIds /\ n \notin OpenIds
  BY <1>3, <1>4 DEF OpenIds
<1>6. ClosedIds' = ClosedIds \cup {n} /\ n \notin ClosedIds
  <2>1. \A i \in Ids : i <= request_id_' <=> i <= request_id_ \/ i = n
    BY <1>1, <1>2, <1>t
  <2>2. ~(n <= request_id_)
    BY <1>1, <1>t
  <2> QED BY <2>1, <2>2, <1>3, <1>4 DEF ClosedIds
<1>7. Promise!Waive(n)
  BY <1>2, <1>5, <1>6 DEF Promise!Waive, OpenIds, ClosedIds
<1> QED BY <1>7

\* Invoking a copied callback settles its request: it was the only one.
LEMMA InvokeSettles ==
    ASSUME IInv, NEW t \in Threads, Invoke(t)
    PROVE  \E i \in Ids, o \in Outcomes : Promise!Settle(i, o)
<1>t. /\ batch \in [Threads -> SUBSET (Ids \X Outcomes)] /\ heard \in [Ids -> Seq(Outcomes)]
  BY DEF IInv, TypeOK
<1>1. PICK e \in batch[t] : /\ batch' = [batch EXCEPT ![t] = @ \ {e}]
                            /\ heard' = [heard EXCEPT ![e[1]] = Append(@, e[2])]
  BY DEF Invoke
<1>2. PICK i \in Ids, o \in Outcomes : e = <<i, o>>
  BY <1>1, <1>t
<1>3. /\ UNCHANGED <<pending_requests_, request_id_, step, current>>
  BY DEF Invoke, table, sending
<1>4. heard[i] = <<>> /\ heard' = [heard EXCEPT ![i] = <<o>>]
  <2>1. heard[i] = <<>>
    BY <1>1, <1>2 DEF IInv, HeldInv
  <2>2. Append(heard[i], o) = <<o>>
    BY <2>1
  <2> QED BY <1>1, <1>2, <2>1, <2>2
<1>5. Holds(t, i) /\ Open(i)
  BY <1>1, <1>2 DEF Holds, Open
<1>6. ~Open(i)'
  <2>1. i \notin pending_requests_
    BY <1>1, <1>2 DEF IInv, PendingInv, Untouched
  <2>2. \A u \in Threads : ~(step[u] = "register" /\ current[u] = i)
    BY <1>1, <1>2 DEF IInv, FreshInv, Untouched
  <2>3. \A u \in Threads, p \in Outcomes : <<i, p>> \notin batch'[u]
    <3>1. \A u \in Threads, p \in Outcomes : <<i, p>> \in batch[u] => u = t /\ p = o
      BY <1>1, <1>2 DEF IInv, HeldInv
    <3> QED BY <1>1, <1>2, <1>t, <3>1
  <2> QED BY <1>3, <2>1, <2>2, <2>3 DEF Open, Holds
<1>7. \A j \in Ids \ {i} : Open(j)' <=> Open(j)
  <2>1. \A j \in Ids \ {i}, u \in Threads, p \in Outcomes :
            <<j, p>> \in batch'[u] <=> <<j, p>> \in batch[u]
    BY <1>1, <1>2, <1>t
  <2> QED BY <1>3, <2>1 DEF Open, Holds
<1>8. OpenIds' = OpenIds \ {i} /\ i \in OpenIds
  BY <1>5, <1>6, <1>7 DEF OpenIds
<1>9. ClosedIds' = ClosedIds \cup {i}
  BY <1>3, <1>5, <1>6, <1>7, BeyondIsFree DEF ClosedIds
<1>10. Promise!Settle(i, o)
  BY <1>4, <1>8, <1>9 DEF Promise!Settle, OpenIds, ClosedIds
<1> QED BY <1>10

\* Every run of the tracker is a run of the promise: whatever the threads, the
\* socket and the timeouts do, each request is begun once and ends once.
THEOREM OneAnswerPerRequest == Spec => ImplementsOneShot
<1>1. Init => Promise!Init
  <2> SUFFICES ASSUME Init PROVE Promise!Init
    OBVIOUS
  <2>1. \A i \in Ids : ~Open(i) /\ ~(i <= request_id_)
    BY DEF Init, Open, Holds, Ids
  <2>2. OpenIds = {} /\ ClosedIds = {}
    BY <2>1 DEF OpenIds, ClosedIds
  <2>3. heard = [i \in Ids |-> <<>>]
    BY DEF Init
  <2> QED BY <2>2, <2>3 DEF Promise!Init, OpenIds, ClosedIds
<1>2. IInv /\ [Next]_vars => [Promise!Next]_(Promise!vars)
  <2> SUFFICES ASSUME IInv, [Next]_vars PROVE [Promise!Next]_(Promise!vars)
    OBVIOUS
  <2>1. CASE UNCHANGED vars
    <3>1. /\ UNCHANGED <<heard, request_id_>>
          /\ \A i \in Ids : Open(i)' <=> Open(i)
      BY <2>1 DEF vars, table, sending, sweeping, outcome, Open, Holds
    <3> QED BY <3>1, ShrinkRefines
  <2>2. CASE \E t \in Threads : BeginSend(t)
    BY <2>2, BeginSendBegins DEF Promise!Next
  <2>3. CASE \E t \in Threads : SendFireAndForget(t)
    BY <2>3, FireAndForgetWaives DEF Promise!Next
  <2>4. CASE \E t \in Threads : Invoke(t)
    BY <2>4, InvokeSettles DEF Promise!Next
  <2>5. CASE Next /\ ~\E t \in Threads : BeginSend(t) \/ SendFireAndForget(t) \/ Invoke(t)
    BY <2>5, OpenShrinks, ShrinkRefines
  <2> QED BY <2>1, <2>2, <2>3, <2>4, <2>5
<1> QED BY <1>1, <1>2, Invariance, PTL DEF Spec, ImplementsOneShot, Promise!Spec

=============================================================================
