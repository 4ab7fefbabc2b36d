--------------------------- MODULE SimulationProofs ---------------------------
(***************************************************************************)
(* What Simulation and the sweep of Collision guarantee, for any           *)
(* colliders, speeds, records, players and rollbacks.                      *)
(*                                                                         *)
(* The sweep: FindsTouchingPairs alone is not inductive.  That a pair with *)
(* an entity that has left the list cannot touch has to be known before    *)
(* the pair is looked at.  SweepInv says what the list leaves out: an      *)
(* entity that the sweep has passed and the list has lost ends left of all *)
(* boxes to come, and activeMaxX is no less than the end of any box in the *)
(* list.                                                                   *)
(*                                                                         *)
(* The jumps: what is said of the players has to hold of the captured      *)
(* components as well, since a rollback makes them the players' components *)
(* again: Sound is stated of a position and a jump, and IInv says it of    *)
(* the world and of each slice.  DrawInv says what the matrices and the    *)
(* boxes are while a tick runs.                                            *)
(*                                                                         *)
(* The last part shows that the systems use the sweep as Collision         *)
(* describes it, and so that it finds the touching pairs of each tick.     *)
(***************************************************************************)
EXTENDS Simulation, FiniteSetTheorems, SequenceTheorems, TLAPS

-----------------------------------------------------------------------------
(* The sweep                                                               *)

Intervals == [min : Vectors, max : Vectors]

(* What is true of the variables at any time.                              *)
TypeInv ==
    /\ stage \in {"Move", "Sweep"}
    /\ pos \in [Entities -> Vectors]
    /\ aabb \in [Entities -> Intervals]
    /\ order \in [1 .. N -> Entities]
    /\ next \in 1 .. N + 1
    /\ active \subseteq Entities
    /\ activeMaxX \in Int

(* During a sweep: the boxes are no emptier than a point and in order, and *)
(* what has left the list is behind.                                       *)
BoxesInOrder ==
    /\ order \in Sorted(aabb)
    /\ \A e \in Entities : aabb[e].min.x <= aabb[e].max.x

ListIsComplete ==
    /\ active \subseteq Swept
    /\ \A e \in active : aabb[e].max.x <= activeMaxX
    /\ \A e \in Swept \ active : \A k \in next .. N :
          aabb[e].max.x < aabb[order[k]].min.x

SweepInv ==
    stage = "Sweep" => BoxesInOrder /\ ListIsComplete /\ found = Touching(Swept)

BroadInv == TypeInv /\ SweepInv

-----------------------------------------------------------------------------
(* Lemmas about the operators                                              *)

(* The number of colliders is a number.                                    *)
LEMMA NIsNat == N \in Nat
  BY CollidersAssumption, FS_CardinalityType DEF N

(* The box of a collider is made of integers and holds its position.       *)
LEMMA SetAABBType ==
  ASSUME NEW e \in Entities, pos \in [Entities -> Vectors]
  PROVE  SetAABB(e) \in Intervals /\ SetAABB(e).min.x <= SetAABB(e).max.x
<1>1. Reach(e) \in Vectors /\ Reach(e).x >= 0
  <2>1. Colliders[e].halfScale \in Vectors /\ Colliders[e].halfScale.x >= 0
            /\ Colliders[e].halfScale.y >= 0
    BY CollidersAssumption
  <2> QED  BY <2>1 DEF Reach, Vectors
<1>2. pos[e] \in Vectors
  BY CollidersAssumption
<1> QED  BY <1>1, <1>2 DEF SetAABB, Intervals, Vectors

(* The layer matrix is symmetric as it is initialised.                     *)
LEMMA CanCollideIsSymmetric ==
  ASSUME NEW l \in Layers, NEW m \in Layers
  PROVE  CanCollide(l, m) <=> CanCollide(m, l)
BY DEF CanCollide, LayerMatrix

LEMMA OverlapIsSymmetric ==
  ASSUME NEW a, NEW b
  PROVE  /\ OverlapYZ(a, b) <=> OverlapYZ(b, a)
         /\ OverlapX(a, b) <=> OverlapX(b, a)
BY DEF OverlapYZ, OverlapX

Compatible(a, b) ==
    /\ CanCollide(Colliders[a].layer, Colliders[b].layer)
    /\ OverlapX(aabb[a], aabb[b])
    /\ OverlapYZ(aabb[a], aabb[b])

LEMMA CompatibleIsSymmetric ==
  ASSUME NEW a \in Entities, NEW b \in Entities
  PROVE  Compatible(a, b) <=> Compatible(b, a)
<1>1. Colliders[a].layer \in Layers /\ Colliders[b].layer \in Layers
  BY CollidersAssumption
<1>2. CanCollide(Colliders[a].layer, Colliders[b].layer)
          <=> CanCollide(Colliders[b].layer, Colliders[a].layer)
  BY <1>1, CanCollideIsSymmetric
<1>3. /\ OverlapYZ(aabb[a], aabb[b]) <=> OverlapYZ(aabb[b], aabb[a])
      /\ OverlapX(aabb[a], aabb[b]) <=> OverlapX(aabb[b], aabb[a])
  BY OverlapIsSymmetric
<1> QED  BY <1>2, <1>3 DEF Compatible

(* A new entity adds its own touching pairs and no other.                  *)
LEMMA TouchingGrows ==
  ASSUME NEW es \in SUBSET Entities, NEW e \in Entities, e \notin es
  PROVE  Touching(es \cup {e}) =
             Touching(es) \cup {{e, a} : a \in {b \in es : Compatible(e, b)}}
<1> DEFINE New == {{e, a} : a \in {b \in es : Compatible(e, b)}}
<1>1. ASSUME NEW s \in Touching(es \cup {e})
      PROVE  s \in Touching(es) \cup New
  <2>1. PICK p \in (es \cup {e}) \X (es \cup {e}) :
            s = {p[1], p[2]} /\ p[1] # p[2] /\ Compatible(p[1], p[2])
    BY <1>1 DEF Touching, Compatible
  <2>2. CASE p[1] \in es /\ p[2] \in es
    <3>1. p \in es \X es  BY <2>1, <2>2
    <3> QED  BY <2>1, <3>1 DEF Touching, Compatible
  <2>3. CASE p[1] = e /\ p[2] \in es
    BY <2>1, <2>3
  <2>4. CASE p[1] \in es /\ p[2] = e
    <3>1. Compatible(e, p[1])
      BY <2>1, <2>4, CompatibleIsSymmetric
    <3>2. s = {e, p[1]}
      BY <2>1, <2>4
    <3> QED  BY <2>4, <3>1, <3>2
  <2> QED  BY <2>1, <2>2, <2>3, <2>4
<1>2. ASSUME NEW s \in Touching(es)
      PROVE  s \in Touching(es \cup {e})
  BY <1>2 DEF Touching
<1>3. ASSUME NEW s \in New
      PROVE  s \in Touching(es \cup {e})
  <2>1. PICK a \in es : s = {e, a} /\ Compatible(e, a)
    BY <1>3
  <2>2. <<e, a>> \in (es \cup {e}) \X (es \cup {e}) /\ e # a
    BY <2>1
  <2> QED  BY <2>1, <2>2 DEF Touching, Compatible
<1> QED  BY <1>1, <1>2, <1>3

-----------------------------------------------------------------------------
(* The invariant                                                           *)

LEMMA InitBroad == CollisionInit => BroadInv
<1> SUFFICES ASSUME CollisionInit PROVE BroadInv
  OBVIOUS
<1>1. pos \in [Entities -> Vectors]
  BY CollidersAssumption DEF CollisionInit
<1>2. aabb \in [Entities -> Intervals]
  BY DEF CollisionInit, NoBox, Intervals, Vectors
<1>3. order \in [1 .. N -> Entities]
  BY DEF CollisionInit, Sorted
<1>4. next \in 1 .. N + 1
  BY NIsNat DEF CollisionInit
<1> QED
  BY <1>1, <1>2, <1>3, <1>4, CollidersAssumption DEF CollisionInit, BroadInv, TypeInv, SweepInv

(* What the sweep knows when it looks at the next entity.                  *)
LEMMA NextEntity ==
  ASSUME BroadInv, stage = "Sweep", next <= N
  PROVE  /\ order[next] \in Entities
         /\ order[next] \notin Swept
         /\ \A a \in Swept : aabb[a].min.x <= aabb[order[next]].min.x
         /\ \A k \in next + 1 .. N : aabb[order[next]].min.x <= aabb[order[k]].min.x
         /\ next \in 1 .. N
         /\ {order[i] : i \in 1 .. (next + 1) - 1} = Swept \cup {order[next]}
         /\ Swept \subseteq Entities
<1>1. next \in 1 .. N
  BY NIsNat DEF BroadInv, TypeInv
<1>2. /\ order \in [1 .. N -> Entities]
      /\ \A i, j \in 1 .. N :
            i < j => order[i] # order[j] /\ aabb[order[i]].min.x <= aabb[order[j]].min.x
  BY DEF BroadInv, SweepInv, BoxesInOrder, Sorted
<1>3. \A i \in 1 .. next - 1 : i \in 1 .. N /\ i < next
  BY <1>1, NIsNat
<1>4. {order[i] : i \in 1 .. (next + 1) - 1} = Swept \cup {order[next]}
  <2>1. 1 .. (next + 1) - 1 = (1 .. next - 1) \cup {next}
    BY <1>1, NIsNat
  <2> QED  BY <2>1 DEF Swept
<1>5. \A k \in next + 1 .. N : k \in 1 .. N /\ next < k
  BY <1>1, NIsNat
<1> QED  BY <1>1, <1>2, <1>3, <1>4, <1>5 DEF Swept

(* The list holds exactly the entities whose boxes reach the next one's.   *)
LEMMA ReachesNext ==
  ASSUME BroadInv, stage = "Sweep", next <= N, NEW a \in Swept
  PROVE  OverlapX(aabb[order[next]], aabb[a]) <=> a \in active \ Ended(order[next])
<1> DEFINE e == order[next]
<1>1. /\ e \in Entities /\ a \in Entities /\ next \in next .. N
      /\ aabb[a].min.x <= aabb[e].min.x
  BY NextEntity
<1>2. aabb \in [Entities -> Intervals]
  BY DEF BroadInv, TypeInv
<1>3. /\ aabb[a].min.x \in Int /\ aabb[a].max.x \in Int
      /\ aabb[e].min.x \in Int /\ aabb[e].max.x \in Int
  BY <1>1, <1>2 DEF Intervals, Vectors
<1>4. aabb[e].min.x <= aabb[e].max.x
  BY <1>1 DEF BroadInv, SweepInv, BoxesInOrder
<1>5. a \notin active => aabb[a].max.x < aabb[e].min.x
  BY <1>1 DEF BroadInv, SweepInv, ListIsComplete
<1> QED  BY <1>1, <1>3, <1>4, <1>5 DEF OverlapX, Ended

LEMMA StartClusterInv ==
  ASSUME BroadInv, SweepEntity, StartCluster(order[next])
  PROVE  SweepInv'
<1> DEFINE e == order[next]
<1>1. /\ e \in Entities /\ e \notin Swept /\ Swept \subseteq Entities /\ next \in 1 .. N
      /\ Swept' = Swept \cup {e}
      /\ \A k \in next + 1 .. N : aabb[e].min.x <= aabb[order[k]].min.x
  BY NextEntity DEF SweepEntity, Swept
<1>2. /\ aabb' = aabb /\ order' = order /\ next' = next + 1 /\ stage = "Sweep"
      /\ stage' = "Sweep" /\ active' = {e} /\ activeMaxX' = aabb[e].max.x /\ found' = found
      /\ activeMaxX < aabb[e].min.x
  BY DEF SweepEntity, StartCluster
<1>3. \A a \in Entities : aabb[a].min.x \in Int /\ aabb[a].max.x \in Int
  BY DEF BroadInv, TypeInv, Intervals, Vectors
<1>4. \A a \in Swept : aabb[a].max.x < aabb[e].min.x
  <2>1. activeMaxX \in Int /\ active \subseteq Entities
    BY DEF BroadInv, TypeInv
  <2>2. ASSUME NEW a \in active PROVE aabb[a].max.x < aabb[e].min.x
    BY <2>1, <1>1, <1>2, <1>3 DEF BroadInv, SweepInv, ListIsComplete
  <2>3. ASSUME NEW a \in Swept \ active PROVE aabb[a].max.x < aabb[e].min.x
    <3>1. next \in next .. N  BY <1>1
    <3> QED  BY <3>1, <1>2 DEF BroadInv, SweepInv, ListIsComplete
  <2> QED  BY <2>2, <2>3
<1>5. BoxesInOrder'
  BY <1>2 DEF BroadInv, SweepInv, BoxesInOrder, Sorted
<1>6. ListIsComplete'
  <2>1. active' \subseteq Swept' /\ \A a \in active' : aabb'[a].max.x <= activeMaxX'
    BY <1>1, <1>2, <1>3
  <2>2. ASSUME NEW a \in Swept' \ active', NEW k \in next' .. N
        PROVE  aabb'[a].max.x < aabb'[order'[k]].min.x
    <3>1. a \in Swept /\ k \in next + 1 .. N /\ k \in 1 .. N
      BY <2>2, <1>1, <1>2, NIsNat
    <3>2. order[k] \in Entities
      BY <3>1 DEF BroadInv, TypeInv
    <3> QED  BY <3>1, <3>2, <1>1, <1>2, <1>3, <1>4
  <2> QED  BY <2>1, <2>2 DEF ListIsComplete, N
<1>7. found' = Touching(Swept)'
  <2>1. \A a \in Swept : ~ Compatible(e, a)
    BY <1>1, <1>3, <1>4 DEF Compatible, OverlapX
  <2>2. Touching(Swept \cup {e}) = Touching(Swept)
    <3>1. Touching(Swept \cup {e}) =
              Touching(Swept) \cup {{e, a} : a \in {b \in Swept : Compatible(e, b)}}
      BY <1>1, TouchingGrows
    <3>2. {b \in Swept : Compatible(e, b)} = {}
      BY <2>1
    <3> HIDE DEF e
    <3> QED  BY <3>1, <3>2
  <2>3. found = Touching(Swept)
    BY <1>2 DEF BroadInv, SweepInv
  <2>4. Touching(Swept)' = Touching(Swept \cup {e})
    BY <1>1, <1>2 DEF Touching
  <2> QED  BY <1>2, <2>2, <2>3, <2>4
<1> QED  BY <1>5, <1>6, <1>7 DEF SweepInv

LEMMA JoinClusterInv ==
  ASSUME BroadInv, SweepEntity, JoinCluster(order[next])
  PROVE  SweepInv'
<1> DEFINE e    == order[next]
           Kept == active \ Ended(e)
<1>1. /\ e \in Entities /\ e \notin Swept /\ Swept \subseteq Entities /\ next \in 1 .. N
      /\ Swept' = Swept \cup {e}
      /\ \A k \in next + 1 .. N : aabb[e].min.x <= aabb[order[k]].min.x
  BY NextEntity DEF SweepEntity, Swept
<1>2. /\ aabb' = aabb /\ order' = order /\ next' = next + 1 /\ stage = "Sweep"
      /\ stage' = "Sweep" /\ active' = Kept \cup {e}
      /\ activeMaxX' = MaxOf(activeMaxX, aabb[e].max.x)
      /\ found' = found \cup
            {{e, a} : a \in {b \in Kept :
                                /\ CanCollide(Colliders[e].layer, Colliders[b].layer)
                                /\ OverlapYZ(aabb[b], aabb[e])}}
  BY DEF SweepEntity, JoinCluster
<1>3. /\ \A a \in Entities : aabb[a].min.x \in Int /\ aabb[a].max.x \in Int
      /\ activeMaxX \in Int
  BY DEF BroadInv, TypeInv, Intervals, Vectors
<1>4. active \subseteq Swept
  BY <1>2 DEF BroadInv, SweepInv, ListIsComplete
<1>5. BoxesInOrder'
  BY <1>2 DEF BroadInv, SweepInv, BoxesInOrder, Sorted
<1>6. ListIsComplete'
  <2>1. active' \subseteq Swept'
    BY <1>1, <1>2, <1>4
  <2>2. ASSUME NEW a \in active' PROVE aabb'[a].max.x <= activeMaxX'
    <3>1. CASE a = e
      BY <3>1, <1>1, <1>2, <1>3 DEF MaxOf
    <3>2. CASE a \in active
      <4>1. aabb[a].max.x <= activeMaxX /\ a \in Entities
        BY <3>2, <1>1, <1>2, <1>4 DEF BroadInv, SweepInv, ListIsComplete
      <4> QED  BY <4>1, <1>1, <1>2, <1>3 DEF MaxOf
    <3> QED  BY <2>2, <1>2, <3>1, <3>2
  <2>3. ASSUME NEW a \in Swept' \ active', NEW k \in next' .. N
        PROVE  aabb'[a].max.x < aabb'[order'[k]].min.x
    <3>1. /\ a \in Swept /\ a \in Entities /\ a \notin Kept
          /\ k \in next + 1 .. N /\ k \in next .. N /\ k \in 1 .. N
      BY <2>3, <1>1, <1>2, NIsNat
    <3>2. order[k] \in Entities
      BY <3>1 DEF BroadInv, TypeInv
    <3>3. CASE a \in active
      <4>1. aabb[a].max.x < aabb[e].min.x
        BY <3>1, <3>3 DEF Ended
      <4> QED  BY <4>1, <3>1, <3>2, <1>1, <1>2, <1>3
    <3>4. CASE a \notin active
      BY <3>1, <3>4, <1>2 DEF BroadInv, SweepInv, ListIsComplete
    <3> QED  BY <3>3, <3>4
  <2> QED  BY <2>1, <2>2, <2>3 DEF ListIsComplete, N
<1>7. found' = Touching(Swept)'
  <2>1. \A a \in Swept : OverlapX(aabb[e], aabb[a]) <=> a \in Kept
    BY <1>2, ReachesNext DEF SweepEntity
  <2>2. {b \in Kept : /\ CanCollide(Colliders[e].layer, Colliders[b].layer)
                      /\ OverlapYZ(aabb[b], aabb[e])}
            = {b \in Swept : Compatible(e, b)}
    BY <2>1, <1>4, OverlapIsSymmetric DEF Compatible
  <2>3. found' = Touching(Swept) \cup {{e, a} : a \in {b \in Swept : Compatible(e, b)}}
    BY <1>2, <2>2 DEF BroadInv, SweepInv
  <2>4. found' = Touching(Swept \cup {e})
    BY <2>3, <1>1, TouchingGrows
  <2>5. Touching(Swept)' = Touching(Swept \cup {e})
    BY <1>1, <1>2 DEF Touching
  <2> QED  BY <2>4, <2>5
<1> QED  BY <1>5, <1>6, <1>7 DEF SweepInv

LEMMA StepBroad == BroadInv /\ [CollisionNext]_collisionVars => BroadInv'
<1> SUFFICES ASSUME BroadInv, [CollisionNext]_collisionVars PROVE BroadInv'
  OBVIOUS
<1>1. CASE Move
  BY <1>1 DEF Move, BroadInv, TypeInv, SweepInv, sweepVars
<1>2. CASE BeginUpdate
  <2>1. TypeInv'
    <3>1. aabb' \in [Entities -> Intervals]
      BY <1>2, SetAABBType DEF BeginUpdate, BroadInv, TypeInv
    <3> QED
      BY <1>2, <3>1, NIsNat, CollidersAssumption
      DEF BeginUpdate, BroadInv, TypeInv, Sorted
  <2>2. Swept' = {}
    BY <1>2 DEF BeginUpdate, Swept
  <2>3. BoxesInOrder'
    <3>1. \A e \in Entities : aabb'[e].min.x <= aabb'[e].max.x
      BY <1>2, SetAABBType DEF BeginUpdate, BroadInv, TypeInv
    <3> QED  BY <1>2, <3>1 DEF BeginUpdate, BoxesInOrder, Sorted
  <2>4. ListIsComplete'
    BY <1>2, <2>2 DEF BeginUpdate, ListIsComplete
  <2>5. found' = Touching(Swept)'
    BY <1>2, <2>2 DEF BeginUpdate, Touching
  <2> QED  BY <2>1, <2>3, <2>4, <2>5 DEF BroadInv, SweepInv
<1>3. CASE SweepEntity
  <2>1. TypeInv'
    <3>1. /\ order[next] \in Entities /\ next + 1 \in 1 .. N + 1
          /\ aabb[order[next]].max.x \in Int
      BY <1>3, NextEntity, NIsNat DEF SweepEntity, BroadInv, TypeInv, Intervals, Vectors
    <3> QED
      BY <1>3, <3>1
      DEF SweepEntity, StartCluster, JoinCluster, MaxOf, Ended, BroadInv, TypeInv
  <2>2. SweepInv'
    BY <1>3, StartClusterInv, JoinClusterInv DEF SweepEntity
  <2> QED  BY <2>1, <2>2 DEF BroadInv
<1>4. CASE EndUpdate
  BY <1>4, CollidersAssumption DEF EndUpdate, BroadInv, TypeInv, SweepInv
<1>5. CASE UNCHANGED collisionVars
  BY <1>5 DEF collisionVars, sweepVars, BroadInv, TypeInv, SweepInv, BoxesInOrder, ListIsComplete,
              Swept, Sorted, Touching
<1> QED  BY <1>1, <1>2, <1>3, <1>4, <1>5 DEF CollisionNext

-----------------------------------------------------------------------------
(* The invariant holds of every behaviour of CollisionSystem::Update.      *)
THEOREM SweepInvariant == CollisionSpec => []BroadInv
BY InitBroad, StepBroad, PTL DEF CollisionSpec

(* The pairs found so far are the touching pairs of the entities passed,   *)
(* whatever the boxes, the layers and the order of ties: Update's early    *)
(* clear and erase lose no pair, and no pair is found twice or wrongly.    *)
THEOREM SweepFindsTouchingPairs == CollisionSpec => []FindsTouchingPairs
<1>1. BroadInv => FindsTouchingPairs
  BY DEF BroadInv, SweepInv, FindsTouchingPairs
<1> QED  BY <1>1, SweepInvariant, PTL

-----------------------------------------------------------------------------
(* The movement of the players                                             *)

Jumps == [cnt : Nat, vy : Int]

(* The position at and the jump j of a player belong together.             *)
Sound(at, j) ==
    /\ at \in Vectors
    /\ j \in Jumps
    /\ j.cnt = 0 => at.y = 0 /\ j.vy = 0
    /\ j.cnt > 0 => at.y > 0

Slices ==
    {s \in [pos : [Players -> Vectors], jump : [Players -> Jumps]] :
        \A p \in Players : Sound(s.pos[p], s.jump[p])}

Snapshots == [state : Slices, used : AllRecords]

IInv ==
    /\ pos \in [Entities -> Vectors]
    /\ jump \in [Players -> Jumps]
    /\ \A p \in Players : Sound(pos[p], jump[p])
    /\ snapshots \in Seq(Snapshots)

-----------------------------------------------------------------------------
(* The movement system                                                     *)

LEMMA MovedType ==
  ASSUME NEW at \in Vectors, NEW held
  PROVE  /\ Moved(at, held) \in Vectors
         /\ Moved(at, held).y = at.y
<1>1. \A minus, plus : Axis(held, minus, plus) \in Int
  BY DEF Axis
<1>2. /\ Axis(held, "LEFT", "RIGHT") \in Int
      /\ Axis(held, "UP", "DOWN") \in Int
  BY <1>1
<1>3. /\ Axis(held, "LEFT", "RIGHT") * Straight \in Int
      /\ Axis(held, "LEFT", "RIGHT") * Diagonal \in Int
      /\ Axis(held, "UP", "DOWN") * Straight \in Int
      /\ Axis(held, "UP", "DOWN") * Diagonal \in Int
  <2>1. Straight \in Int /\ Diagonal \in Int
    BY MovementAssumption
  <2>2. \A m, n \in Int : m * n \in Int
    OBVIOUS
  <2> QED  BY <1>2, <2>1, <2>2
<1> DEFINE x  == Axis(held, "LEFT", "RIGHT")
           z  == Axis(held, "UP", "DOWN")
           speed == IF x # 0 /\ z # 0 THEN Diagonal ELSE Straight
<1>4. x * speed \in Int /\ z * speed \in Int
  BY <1>3
<1>5. Moved(at, held) = [x |-> at.x + x * speed, y |-> at.y, z |-> at.z + z * speed]
  BY DEF Moved
<1> HIDE DEF x, z, speed
<1> QED  BY <1>4, <1>5 DEF Vectors

(* One update keeps a player's position and jump together: a jump that     *)
(* begins on the ground takes off in the same tick, as JumpSpeed exceeds   *)
(* Gravity, and one that reaches the ground is over.                       *)
LEMMA KinematicIsSound ==
  ASSUME NEW at, NEW j, Sound(at, j), NEW record
  PROVE  Sound(Kinematic(at, j, record).pos, Kinematic(at, j, record).jump)
<1> DEFINE to    == Moved(at, record.held)
           begun == JumpStarted(j, record.jump)
           vy    == begun.vy - Gravity
<1>1. to \in Vectors /\ to.y = at.y
  BY MovedType DEF Sound
<1>2. /\ begun \in Jumps
      /\ begun.cnt = 0 => begun = j
      /\ begun.cnt > 0 => to.y >= 0
  BY <1>1, MovementAssumption DEF Sound, JumpStarted, MaxOf, Jumps, Vectors
<1>3. vy \in Int
  BY <1>2, MovementAssumption DEF Jumps
<1>4. CASE record = NoRecord
  BY <1>4 DEF Kinematic
<1>5. CASE record # NoRecord /\ begun.cnt = 0
  <2>1. Kinematic(at, j, record) = [pos |-> to, jump |-> begun]
    BY <1>5 DEF Kinematic
  <2> QED  BY <2>1, <1>1, <1>2, <1>5 DEF Sound
<1>6. CASE record # NoRecord /\ begun.cnt # 0 /\ to.y + vy <= 0
  <2>1. Kinematic(at, j, record) = [pos |-> [to EXCEPT !.y = 0], jump |-> Grounded]
    BY <1>2, <1>6 DEF Kinematic, Jumps
  <2> QED  BY <2>1, <1>1 DEF Sound, Grounded, Vectors, Jumps
<1>7. CASE record # NoRecord /\ begun.cnt # 0 /\ ~ (to.y + vy <= 0)
  <2>1. Kinematic(at, j, record) =
            [pos |-> [to EXCEPT !.y = @ + vy], jump |-> [begun EXCEPT !.vy = vy]]
    BY <1>2, <1>7 DEF Kinematic, Jumps
  <2> QED  BY <2>1, <1>1, <1>2, <1>3, <1>7 DEF Sound, Vectors, Jumps
<1> QED  BY <1>4, <1>5, <1>6, <1>7

-----------------------------------------------------------------------------
(* The invariant                                                           *)

LEMMA InitInv == Init => IInv
<1> SUFFICES ASSUME Init PROVE IInv
  OBVIOUS
<1>1. pos \in [Entities -> Vectors]
  BY CollidersAssumption DEF Init, CollisionInit
<1>2. \A p \in Players : Sound(pos[p], jump[p])
  BY <1>1, PlayersAssumption DEF Init, Sound, Grounded, Jumps
<1> QED
  BY <1>1, <1>2 DEF Init, IInv, Grounded, Jumps

LEMMA ControllerInv ==
  ASSUME IInv, NEW records \in AllRecords, Controller(records)
  PROVE  IInv'
<1> DEFINE after == [p \in Players |-> Kinematic(pos[p], jump[p], records[p])]
<1>1. /\ pos' = [e \in Entities |-> IF e \in Players THEN after[e].pos ELSE pos[e]]
      /\ jump' = [p \in Players |-> after[p].jump]
  BY DEF Controller
<1>2. \A p \in Players : Sound(after[p].pos, after[p].jump)
  BY KinematicIsSound DEF IInv
<1>3. /\ pos' \in [Entities -> Vectors]
      /\ jump' \in [Players -> Jumps]
      /\ \A p \in Players : Sound(pos'[p], jump'[p])
  <2> HIDE DEF after
  <2> QED  BY <1>1, <1>2, PlayersAssumption DEF IInv, Sound
<1>4. snapshots' \in Seq(Snapshots)
  <2> DEFINE new == [state |-> Captured, used |-> records]
             at  == Len(snapshots) - replay + 1
             all == IF replay = 0 THEN Append(snapshots, new)
                    ELSE [snapshots EXCEPT ![at] = new]
  <2>1. Captured \in Slices
    BY PlayersAssumption DEF IInv, Captured, Slices, Sound
  <2>2. new \in Snapshots
    BY <2>1 DEF Snapshots
  <2>3. all \in Seq(Snapshots)
    <3> HIDE DEF new, at
    <3>1. Append(snapshots, new) \in Seq(Snapshots)
      BY <2>2 DEF IInv
    <3>2. [snapshots EXCEPT ![at] = new] \in Seq(Snapshots)
      <4>1. CASE at \in 1 .. Len(snapshots)
        BY <2>2, <4>1, ExceptSeq DEF IInv
      <4>2. CASE at \notin 1 .. Len(snapshots)
        <5>1. /\ DOMAIN snapshots = 1 .. Len(snapshots)
              /\ snapshots = [i \in DOMAIN snapshots |-> snapshots[i]]
          BY DEF IInv
        <5>2. [snapshots EXCEPT ![at] = new] = snapshots
          BY <4>2, <5>1
        <5> QED  BY <5>2 DEF IInv
      <4> QED  BY <4>1, <4>2
    <3> QED  BY <3>1, <3>2
  <2>4. snapshots' = IF Len(all) > ROLLBACK_WINDOW THEN Tail(all) ELSE all
    BY DEF Controller
  <2>5. Len(all) > ROLLBACK_WINDOW => Tail(all) \in Seq(Snapshots)
    <3> HIDE DEF all
    <3>1. Len(all) > ROLLBACK_WINDOW => all # <<>>
      BY <2>3, MovementAssumption
    <3> QED  BY <2>3, <3>1, HeadTailProperties
  <2> HIDE DEF all
  <2> QED  BY <2>3, <2>4, <2>5
<1> QED  BY <1>3, <1>4 DEF IInv

LEMMA RollbackInv ==
  ASSUME IInv, NEW k \in 1 .. Len(snapshots), Rollback(k)
  PROVE  IInv'
<1> DEFINE slice == snapshots[Len(snapshots) - k + 1].state
<1>1. slice \in Slices
  <2>1. Len(snapshots) - k + 1 \in 1 .. Len(snapshots)
    BY DEF IInv
  <2>2. snapshots[Len(snapshots) - k + 1] \in Snapshots
    BY <2>1, ElementOfSeq DEF IInv
  <2> QED  BY <2>2 DEF Snapshots
<1>2. /\ pos' = [e \in Entities |-> IF e \in Players THEN slice.pos[e] ELSE pos[e]]
      /\ jump' = slice.jump
      /\ snapshots' = snapshots
  BY DEF Rollback
<1> HIDE DEF slice
<1> QED  BY <1>1, <1>2, PlayersAssumption DEF IInv, Slices, Sound

LEMMA StepInv == IInv /\ [Next]_vars => IInv'
<1> SUFFICES ASSUME IInv, [Next]_vars PROVE IInv'
  OBVIOUS
<1>1. ASSUME NEW records \in AllRecords, Controller(records) PROVE IInv'
  BY <1>1, ControllerInv
<1>2. CASE Integrator
  BY <1>2 DEF Integrator, collisionVars, IInv
<1>3. CASE BeginCollision
  BY <1>3 DEF BeginCollision, BeginUpdate, simVars, IInv
<1>4. CASE SweepCollision
  BY <1>4 DEF SweepCollision, SweepEntity, simVars, IInv
<1>5. CASE EndTick
  BY <1>5 DEF EndTick, EndUpdate, IInv
<1>6. ASSUME NEW k \in 1 .. Len(snapshots), Rollback(k) PROVE IInv'
  BY <1>6, RollbackInv
<1>7. CASE UNCHANGED vars
  BY <1>7 DEF vars, collisionVars, simVars, IInv
<1> QED  BY <1>1, <1>2, <1>3, <1>4, <1>5, <1>6, <1>7 DEF Next

THEOREM SoundnessInvariant == Spec => []IInv
BY InitInv, StepInv, PTL DEF Spec

(* Position and jump of a player never come apart, whatever is pressed and *)
(* wherever a rollback goes: RollbackSlice captures and restores both, and *)
(* Update ends a jump in the tick that brings the player to the ground.    *)
THEOREM AirborneExactlyWhileJumping == Spec => []AirborneMeansJumping
<1>1. IInv => AirborneMeansJumping
  BY DEF IInv, Sound, AirborneMeansJumping
<1> QED  BY <1>1, SoundnessInvariant, PTL

-----------------------------------------------------------------------------
(* What a frame draws                                                      *)

Boxed == \A e \in Entities : aabb[e] = SetAABB(e)

(* The sweep runs inside the tick's last phase, and from the phase that    *)
(* writes the matrices and the boxes to the end of the tick nothing moves. *)
DrawInv ==
    /\ stage \in {"Move", "Sweep"}
    /\ replay \in Nat
    /\ phase = "Collision" => matrix = pos
    /\ stage = "Sweep" => phase = "Collision" /\ Boxed
    /\ DrawsWhatWasSimulated

LEMMA InitDraw == Init => DrawInv
BY DEF Init, CollisionInit, DrawInv, DrawsWhatWasSimulated

LEMMA StepDraw == IInv /\ DrawInv /\ [Next]_vars => DrawInv'
<1> SUFFICES ASSUME IInv, DrawInv, [Next]_vars PROVE DrawInv'
  OBVIOUS
<1>1. ASSUME NEW records \in AllRecords, Controller(records) PROVE DrawInv'
  BY <1>1 DEF Controller, DrawInv, DrawsWhatWasSimulated
<1>2. CASE Integrator
  <2>1. UNCHANGED <<pos, aabb, stage, snapshots, replay>>
    BY <1>2 DEF Integrator, collisionVars
  <2> QED  BY <1>2, <2>1 DEF Integrator, DrawInv, DrawsWhatWasSimulated
<1>3. CASE BeginCollision
  <2>1. /\ UNCHANGED <<pos, matrix, phase, replay>>
        /\ stage' = "Sweep" /\ phase = "Collision"
    BY <1>3 DEF BeginCollision, BeginUpdate, simVars
  <2>2. Boxed'
    <3>1. \A e \in Entities : SetAABB(e)' = SetAABB(e)
      BY <2>1 DEF SetAABB
    <3>2. aabb' = [e \in Entities |-> SetAABB(e)]
      BY <1>3 DEF BeginCollision, BeginUpdate
    <3> HIDE DEF SetAABB
    <3> QED  BY <3>1, <3>2 DEF Boxed
  <2> QED  BY <2>1, <2>2 DEF DrawInv, DrawsWhatWasSimulated
<1>4. CASE SweepCollision
  <2>1. UNCHANGED <<pos, aabb, stage, matrix, phase, snapshots, replay>>
    BY <1>4 DEF SweepCollision, SweepEntity, simVars
  <2> QED  BY <2>1 DEF DrawInv, DrawsWhatWasSimulated, Boxed, SetAABB
<1>5. CASE EndTick
  <2>1. /\ UNCHANGED <<pos, aabb, matrix, snapshots>>
        /\ stage = "Sweep" /\ stage' = "Move" /\ phase' = "Controller"
        /\ replay' \in Nat
    BY <1>5 DEF EndTick, EndUpdate, DrawInv
  <2>2. matrix' = pos' /\ Boxed'
    BY <2>1 DEF DrawInv, Boxed, SetAABB
  <2> QED  BY <2>1, <2>2 DEF DrawInv, DrawsWhatWasSimulated, Boxed
<1>6. ASSUME NEW k \in 1 .. Len(snapshots), Rollback(k) PROVE DrawInv'
  <2>1. k \in Nat \ {0}
    BY DEF IInv
  <2>2. /\ phase' = "Controller" /\ replay' = k /\ stage' = "Move"
    BY <1>6 DEF Rollback, DrawInv
  <2> QED  BY <2>1, <2>2 DEF DrawInv, DrawsWhatWasSimulated
<1>7. CASE UNCHANGED vars
  <2>1. UNCHANGED <<pos, aabb, stage, matrix, phase, snapshots, replay>>
    BY <1>7 DEF vars, collisionVars, simVars
  <2> QED  BY <2>1 DEF DrawInv, DrawsWhatWasSimulated, Boxed, SetAABB
<1> QED  BY <1>1, <1>2, <1>3, <1>4, <1>5, <1>6, <1>7 DEF Next

(* When a frame renders, the matrices and the boxes are those of the       *)
(* positions that the last tick left (SystemManager::Simulate runs the     *)
(* phases in their order, Engine::Rollback ends with the present tick).    *)
THEOREM FramesDrawTheLastTick == Spec => []DrawsWhatWasSimulated
<1>1. DrawInv => DrawsWhatWasSimulated
  BY DEF DrawInv
<1> QED  BY <1>1, InitDraw, StepDraw, SoundnessInvariant, PTL DEF Spec

-----------------------------------------------------------------------------
(* The systems and the sweep                                               *)

(* A step of the tick is a step of Collision or leaves its variables: what *)
(* moves a position is not enabled while the sweep runs.                   *)
LEMMA StepCollision ==
  ASSUME IInv, IInv', DrawInv, [Next]_vars
  PROVE  [CollisionNext]_collisionVars
<1>1. pos' \in [Entities -> Vectors]
  BY DEF IInv
<1>2. phase = "Controller" => stage = "Move"
  BY DEF DrawInv
<1>3. ASSUME NEW records \in AllRecords, Controller(records) PROVE Move
  BY <1>1, <1>2, <1>3 DEF Controller, Move
<1>4. CASE Integrator
  BY <1>4 DEF Integrator
<1>5. CASE BeginCollision
  BY <1>5 DEF BeginCollision, CollisionNext
<1>6. CASE SweepCollision
  BY <1>6 DEF SweepCollision, CollisionNext
<1>7. CASE EndTick
  BY <1>7 DEF EndTick, CollisionNext
<1>8. ASSUME NEW k \in 1 .. Len(snapshots), Rollback(k) PROVE Move
  BY <1>1, <1>2, <1>8 DEF Rollback, Move
<1>9. CASE UNCHANGED vars
  BY <1>9 DEF vars
<1> QED  BY <1>3, <1>4, <1>5, <1>6, <1>7, <1>8, <1>9 DEF Next, CollisionNext

(* No system and no rollback moves an entity while CollisionSystem::Update *)
(* runs, and none of its steps is left out or repeated.                    *)
THEOREM SystemsUseTheSweep == Spec => ImplementsCollision
<1>1. Init => CollisionInit
  BY DEF Init
<1>2. IInv /\ IInv' /\ DrawInv /\ [Next]_vars => [CollisionNext]_collisionVars
  BY StepCollision
<1>3. Spec => [](IInv /\ DrawInv)
  BY InitInv, StepInv, InitDraw, StepDraw, PTL DEF Spec
<1> QED  BY <1>1, <1>2, <1>3, PTL DEF Spec, CollisionSpec, ImplementsCollision

(* In every tick, also in one that is simulated again, the sweep finds     *)
(* exactly the touching pairs of the positions that the tick has made.     *)
THEOREM TicksFindTouchingPairs == Spec => []FindsTouchingPairs
BY SystemsUseTheSweep, SweepFindsTouchingPairs, PTL DEF ImplementsCollision

=============================================================================
