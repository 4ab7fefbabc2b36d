--------------------------- MODULE MCMatchManager ---------------------------
(***************************************************************************)
(* Instances of MatchManager for TLC.                                      *)
(***************************************************************************)
EXTENDS MatchManager

CONSTANTS s1, s2, s3, a1

(* Sessions are interchangeable: no definition chooses among them. *)
SessionSymmetry == Permutations(Sessions)
=============================================================================
