-------------------------- MODULE MCRequestTracker --------------------------
(* RequestTracker for TLC: the event loop, the main thread and a worker.   *)
EXTENDS RequestTracker

CONSTANT Worker
=============================================================================
