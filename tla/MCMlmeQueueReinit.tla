------------------------- MODULE MCMlmeQueueReinit -------------------------
(***************************************************************************)
(* An instance of MlmeQueueReinit for TLC: a ring of four entries.         *)
(***************************************************************************)
EXTENDS MlmeQueueReinit

CONSTANTS s1, r1, mlme, q1, q2, f1, none
=============================================================================
