---------------------------- MODULE MCMlmeQueue ----------------------------
(***************************************************************************)
(* Instances of MlmeQueue for TLC: a ring of four entries.                 *)
(***************************************************************************)
EXTENDS MlmeQueue

CONSTANTS s1, r1, mlme, q1, f1, none
=============================================================================
