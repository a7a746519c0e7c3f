---------------------------- MODULE MCUpdateQueue ----------------------------
(* UpdateQueue for TLC.                                                    *)
EXTENDS UpdateQueue
=============================================================================
