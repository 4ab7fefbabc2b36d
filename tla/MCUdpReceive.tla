---------------------------- MODULE MCUdpReceive -----------------------------
(***************************************************************************)
(* Instances of UdpReceive for TLC.                                        *)
(***************************************************************************)
EXTENDS UdpReceive, TLC

CONSTANTS c1, c2, c3, c4, d1, d2

(* Chunks are interchangeable, the initial free list has any order; so are
   datagrams. *)
ReceiveSymmetry == Permutations(Chunks) \cup Permutations(Datagrams)
=============================================================================
