------------------------------ MODULE MCRendering ------------------------------
(* The worlds of TestState, with texts of up to two characters of four,    *)
(* of GameState and of DefaultState; an atlas of a few pixels.             *)
EXTENDS Rendering, TLC

MCSize ==
    "a" :> [w |-> 1, h |-> 1] @@ "b" :> [w |-> 2, h |-> 1]
    @@ "c" :> [w |-> 1, h |-> 2] @@ "d" :> [w |-> 3, h |-> 3]

Me   == [mesh |-> "CUBE", shader |-> "Primitive", texture |-> "White"]
Ball == [mesh |-> "SPHERE", shader |-> "Primitive", texture |-> "Logo"]

TestWorld(text) == [entities |-> <<Me, Ball, Me>>, texts |-> <<text, <<"a">> >>, camera |-> 0]

MCWorlds ==
    {TestWorld(<<c, d>>) : c, d \in {"a", "b", "c", "d"}}
    \cup {[entities |-> <<>>, texts |-> <<>>, camera |-> 0],
          [entities |-> <<>>, texts |-> <<>>, camera |-> Null]}

=============================================================================
