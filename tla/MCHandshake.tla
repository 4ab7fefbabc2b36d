----------------------------- MODULE MCHandshake -----------------------------
(***************************************************************************)
(* Instances of Handshake for TLC.                                         *)
(***************************************************************************)
EXTENDS Handshake, TLC

CONSTANTS c1, c2, c3

(* Clients are interchangeable: no definition chooses among them. *)
ClientSymmetry == Permutations(Clients)

(* EveryoneStarts of one client.  A temporal property allows no SYMMETRY, but
   what holds of one client in every behaviour holds of each. *)
FirstStarts == GetsToStart(c1)
=============================================================================
