----------------------------- MODULE MCSPSCQueue -----------------------------
(***************************************************************************)
(* Instances of SPSCQueue for TLC.                                         *)
(***************************************************************************)
EXTENDS SPSCQueue

CONSTANTS v1, v2
=============================================================================
