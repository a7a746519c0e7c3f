---------------------------- MODULE MCKlippyState ----------------------------
(* KlippyState for TLC.                                                     *)
EXTENDS KlippyState
=============================================================================
