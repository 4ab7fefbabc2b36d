----------------------------- MODULE MCSimulation -----------------------------
(* A player that walks, a player that jumps, a box that stays in its place *)
(* and one in a layer that collides with nothing.                          *)
EXTENDS Simulation, TLC

CONSTANTS walker, jumper, box, ghost

MCColliders ==
    walker :> [type |-> "OBB", halfScale |-> [x |-> 2, y |-> 3, z |-> 1], layer |-> "Default"]
    @@ jumper :> [type |-> "Sphere", halfScale |-> [x |-> 1, y |-> 0, z |-> 0], layer |-> "Default"]
    @@ box :> [type |-> "Cylinder", halfScale |-> [x |-> 1, y |-> 1, z |-> 0], layer |-> "Default"]
    @@ ghost :> [type |-> "AABB", halfScale |-> [x |-> 1, y |-> 1, z |-> 1], layer |-> "None"]

At(x, y, z) == [x |-> x, y |-> y, z |-> z]

MCStarts ==
    {walker :> At(-1, 0, 1) @@ jumper :> At(-2, 0, 3) @@ box :> At(1, 3, 3) @@ ghost :> At(5, 1, 3)}

MCRecords ==
    walker :> {[held |-> h, jump |-> FALSE] : h \in {{"RIGHT"}, {"LEFT", "UP"}}}
    @@ jumper :> {[held |-> {}, jump |-> j] : j \in BOOLEAN}

MCArena  == -1 .. 1
MCLowest == -100

=============================================================================
