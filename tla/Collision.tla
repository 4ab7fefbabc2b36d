------------------------------- MODULE Collision -------------------------------
(***************************************************************************)
(* The broad phase of CollisionSystem (src/engine/src/ecs/systems/         *)
(* CollisionSystem.cpp) and its layer matrix.  An update gives every       *)
(* collider the box around its shape, sorts the colliders by the least x   *)
(* of their boxes and sweeps over them once: the list active holds those   *)
(* whose boxes may still reach the next one's, and activeMaxX the greatest *)
(* x of their boxes.                                                       *)
(*                                                                         *)
(* Coordinates are integers; only their order matters to the sweep.  What  *)
(* the update does with a pair it finds (the narrow phase) is empty in the *)
(* source: found collects the pairs for which it logs "AABB Collision".    *)
(*                                                                         *)
(* Between two updates the positions change arbitrarily here; Simulation   *)
(* says how the movement system changes them, and implements this module.  *)
(***************************************************************************)
EXTENDS Integers, FiniteSets

CONSTANTS
    Entities,     \* the entities with an AABBComponent and a ColliderComponent
    Colliders,    \* their ColliderComponents
    Quarter,      \* those of them whose rotation is a quarter turn about z
    Layers,       \* the values of CollisionLayer that colliders have
    Default,      \* CollisionLayer::Default
    Starts,       \* the positions that State::Init gives the entities
    Lowest        \* std::numeric_limits<float>::lowest()

ColliderTypes == {"AABB", "OBB", "Sphere", "Cylinder"}

Vectors == [x : Int, y : Int, z : Int]

ASSUME CollidersAssumption ==
    /\ IsFiniteSet(Entities)
    /\ Quarter \subseteq Entities
    /\ Default \in Layers
    /\ Starts \subseteq [Entities -> Vectors]
    /\ Lowest \in Int
    /\ Colliders \in [Entities -> [type : ColliderTypes, halfScale : Vectors, layer : Layers]]
    /\ \A e \in Entities : LET h == Colliders[e].halfScale IN h.x >= 0 /\ h.y >= 0 /\ h.z >= 0

VARIABLES
    stage,        \* "Move" between two updates, "Sweep" during one
    pos,          \* PositionComponent
    aabb,         \* AABBComponent
    order,        \* the group in the order of its last sort
    next,         \* index of the entity that the sweep looks at next
    active,       \* active
    activeMaxX,   \* activeMaxX
    found         \* the pairs for which "AABB Collision" was logged in this update

sweepVars     == <<order, next, active, activeMaxX, found>>
collisionVars == <<stage, pos, aabb, sweepVars>>

N == Cardinality(Entities)

-----------------------------------------------------------------------------
(* The layer matrix and the boxes                                          *)

MaxOf(a, b) == IF a < b THEN b ELSE a

(* What CollisionLayerMatrix() enables; nothing calls SetCollisionLayer.   *)
LayerMatrix == [l \in Layers |-> IF l = Default THEN {Default} ELSE {}]

CanCollide(layer1, layer2) == layer2 \in LayerMatrix[layer1]

(* How far the box of e reaches from its position; a quarter turn swaps    *)
(* the x and y of an oriented box.                                         *)
Reach(e) ==
    LET h == Colliders[e].halfScale
        t == Colliders[e].type
    IN  [x |-> IF t = "OBB" /\ e \in Quarter THEN h.y ELSE h.x,
         y |-> IF t = "Sphere" \/ (t = "OBB" /\ e \in Quarter) THEN h.x ELSE h.y,
         z |-> IF t \in {"Sphere", "Cylinder"} THEN h.x ELSE h.z]

SetAABB(e) ==
    [min |-> [x |-> pos[e].x - Reach(e).x, y |-> pos[e].y - Reach(e).y, z |-> pos[e].z - Reach(e).z],
     max |-> [x |-> pos[e].x + Reach(e).x, y |-> pos[e].y + Reach(e).y, z |-> pos[e].z + Reach(e).z]]

(* emplace<AABBComponent>(e) without arguments.                            *)
NoBox == [min |-> [x |-> 0, y |-> 0, z |-> 0], max |-> [x |-> 0, y |-> 0, z |-> 0]]

(* Every order that group.sort may leave: ties come in any order.          *)
Sorted(boxes) ==
    {o \in [1 .. N -> Entities] :
        /\ \A e \in Entities : \E i \in 1 .. N : o[i] = e
        /\ \A i, j \in 1 .. N :
              i < j => o[i] # o[j] /\ boxes[o[i]].min.x <= boxes[o[j]].min.x}

OverlapYZ(a, b) ==
    /\ ~ (a.max.y < b.min.y \/ b.max.y < a.min.y)
    /\ ~ (a.max.z < b.min.z \/ b.max.z < a.min.z)

-----------------------------------------------------------------------------
(* One update; active and activeMaxX are local to it.                      *)

CollisionInit ==
    /\ stage = "Move"
    /\ pos \in Starts
    /\ aabb = [e \in Entities |-> NoBox]
    /\ order \in Sorted(aabb)
    /\ next = N + 1
    /\ active = {}
    /\ activeMaxX = Lowest
    /\ found = {}

(* The systems of the phases before this one, and the rollback.            *)
Move ==
    /\ stage = "Move"
    /\ pos' \in [Entities -> Vectors]
    /\ UNCHANGED <<stage, aabb, sweepVars>>

(* Mutant: isDirty is reset when the box is set.                           *)
BeginUpdateClean ==
    /\ stage = "Move"
    /\ stage' = "Sweep"
    /\ aabb' = [e \in Entities |-> IF aabb[e] = NoBox THEN SetAABB(e) ELSE aabb[e]]
    /\ order' \in Sorted(aabb')
    /\ next' = 1
    /\ active' = {}
    /\ activeMaxX' = Lowest
    /\ found' = {}
    /\ UNCHANGED pos

(* isDirty is true from the start and never reset: all boxes are renewed.  *)
BeginUpdate ==
    /\ stage = "Move"
    /\ stage' = "Sweep"
    /\ aabb' = [e \in Entities |-> SetAABB(e)]
    /\ order' \in Sorted(aabb')
    /\ next' = 1
    /\ active' = {}
    /\ activeMaxX' = Lowest
    /\ found' = {}
    /\ UNCHANGED pos

(* The next box begins right of every active one: the list starts anew.    *)
StartCluster(e) ==
    /\ activeMaxX < aabb[e].min.x
    /\ active' = {e}
    /\ activeMaxX' = aabb[e].max.x
    /\ UNCHANGED found

Ended(e) == {a \in active : aabb[a].max.x < aabb[e].min.x}

(* Mutant: the list ends where the box that came last ends.                *)
JoinClusterShrinking(e) ==
    /\ ~ (activeMaxX < aabb[e].min.x)
    /\ found' = found \cup
          {{e, a} : a \in {b \in active \ Ended(e) :
                              /\ CanCollide(Colliders[e].layer, Colliders[b].layer)
                              /\ OverlapYZ(aabb[b], aabb[e])}}
    /\ active' = (active \ Ended(e)) \cup {e}
    /\ activeMaxX' = aabb[e].max.x

JoinCluster(e) ==
    /\ ~ (activeMaxX < aabb[e].min.x)
    /\ found' = found \cup
          {{e, a} : a \in {b \in active \ Ended(e) :
                              /\ CanCollide(Colliders[e].layer, Colliders[b].layer)
                              /\ OverlapYZ(aabb[b], aabb[e])}}
    /\ active' = (active \ Ended(e)) \cup {e}
    /\ activeMaxX' = MaxOf(activeMaxX, aabb[e].max.x)

SweepEntity ==
    /\ stage = "Sweep"
    /\ next <= N
    /\ StartCluster(order[next]) \/ JoinCluster(order[next])
    /\ next' = next + 1
    /\ UNCHANGED <<stage, pos, aabb, order>>

EndUpdate ==
    /\ stage = "Sweep"
    /\ next > N
    /\ stage' = "Move"
    /\ active' = {}
    /\ activeMaxX' = Lowest
    /\ found' = {}
    /\ UNCHANGED <<pos, aabb, order, next>>

CollisionNext == Move \/ BeginUpdate \/ SweepEntity \/ EndUpdate

CollisionSpec == CollisionInit /\ [][CollisionNext]_collisionVars

-----------------------------------------------------------------------------
(* Properties                                                              *)

OverlapX(a, b) == a.min.x <= b.max.x /\ b.min.x <= a.max.x

(* The pairs that every two boxes compared with each other would give.     *)
Touching(es) ==
    {{p[1], p[2]} : p \in {q \in es \X es :
                           /\ q[1] # q[2]
                           /\ CanCollide(Colliders[q[1]].layer, Colliders[q[2]].layer)
                           /\ OverlapX(aabb[q[1]], aabb[q[2]])
                           /\ OverlapYZ(aabb[q[1]], aabb[q[2]])}}

Swept == {order[i] : i \in 1 .. next - 1}

(* At any point of the sweep the pairs found so far are exactly the        *)
(* touching pairs of the entities it has passed, whatever the sort made of *)
(* equal coordinates: the list is never cut while an entity in it can      *)
(* still touch a later one (Update's two conditions on max.x).             *)
FindsTouchingPairs == stage = "Sweep" => found = Touching(Swept)

=============================================================================
