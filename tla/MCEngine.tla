------------------------------- MODULE MCEngine -------------------------------
(***************************************************************************)
(* A small instance of Engine: two players, one bound key, and a key code  *)
(* of no key.                                                              *)
(***************************************************************************)
EXTENDS Engine, TLC

MCKeyOfCode == [c \in {"GLFW_KEY_SPACE"} |-> "SpaceBar"]
MCKeyIntents == [k \in {"SpaceBar"} |-> "JUMP"]
MCPeerInputs == {[held |-> {"JUMP"}, down |-> {"JUMP"}]}
===============================================================================
