------------------------------- MODULE OneShot -------------------------------
(***************************************************************************)
(* What the callback interfaces of HelixScreen promise their callers: an   *)
(* operation is begun at most once, is then open, and ends once, either by *)
(* telling its caller one outcome or by being withdrawn with nothing told. *)
(* An exclusive interface has at most one operation open at a time.        *)
(*                                                                         *)
(* RequestTracker (one operation per request id), PrinterRecovery (one per *)
(* accepted recovery chain, exclusive) and HttpExecutor (one per accepted  *)
(* item, whose future is the caller) are shown to implement this.          *)
(***************************************************************************)
EXTENDS Sequences

CONSTANTS Ops,        \* the operations
          Outcomes,   \* what a caller can be told
          Exclusive   \* TRUE if operations exclude each other

VARIABLES open,       \* operations under way
          closed,     \* operations that are over
          told        \* told[i]: the outcomes the caller of i was told

vars == <<open, closed, told>>

Init ==
    /\ open = {}
    /\ closed = {}
    /\ told = [i \in Ops |-> <<>>]

Begin(i) ==
    /\ i \notin open \cup closed
    /\ Exclusive => open = {}
    /\ open' = open \cup {i}
    /\ UNCHANGED <<closed, told>>

\* The caller hears its one outcome and the operation is over.
Settle(i, o) ==
    /\ i \in open
    /\ open' = open \ {i}
    /\ closed' = closed \cup {i}
    /\ told' = [told EXCEPT ![i] = <<o>>]

\* Operations end, and their callers will never hear anything.
Withdraw(S) ==
    /\ S # {}
    /\ open' = open \ S
    /\ closed' = closed \cup S
    /\ UNCHANGED told

\* An operation nobody waits for: over as soon as it is issued.
Waive(i) ==
    /\ i \notin open \cup closed
    /\ closed' = closed \cup {i}
    /\ UNCHANGED <<open, told>>

Next ==
    \/ \E i \in Ops : Begin(i)
    \/ \E i \in Ops, o \in Outcomes : Settle(i, o)
    \/ \E S \in SUBSET open : Withdraw(S)
    \/ \E i \in Ops : Waive(i)

Spec == Init /\ [][Next]_vars
==============================================================================
