------------------------------ MODULE Simulation ------------------------------
(***************************************************************************)
(* A tick of the simulation: SystemManager::Simulate runs the systems of   *)
(* the phases CONTROLLER (KinematicMovementSystem), INTEGRATOR             *)
(* (TransformSystem) and COLLISION (CollisionSystem, the module            *)
(* Collision) in this order; Engine::Simulate captures the world after it, *)
(* and Engine::Rollback goes back to a captured tick and simulates again   *)
(* the ticks since, with the records that have come in meanwhile.          *)
(*                                                                         *)
(* A length of time is counted in ticks and a length in steps: JumpSpeed,  *)
(* Gravity, Straight and Diagonal stand for JUMP_SPEED, GRAVITY and the    *)
(* two speeds of a player, multiplied with FIXED_DELTA_TIME as in the code *)
(* and scaled to integers.  Rounding is left out.                          *)
(***************************************************************************)
EXTENDS Collision, Sequences

CONSTANTS
    Players,         \* entities with Position, Speed, InputChannel and Jump
    Records,         \* what a player may hold and have pressed in a tick
    Straight,        \* steps per tick along an axis
    Diagonal,        \* steps per tick along each axis when both are held
    JumpSpeed,       \* JUMP_SPEED
    Gravity,         \* -GRAVITY * FIXED_DELTA_TIME
    JUMP_COUNT_MAX,
    ROLLBACK_WINDOW, \* how many ticks back a rollback may go
    Arena            \* bound: the x and z that players walk to

ASSUME PlayersAssumption == Players \subseteq Entities

ASSUME MovementAssumption ==
    /\ Straight \in Nat /\ Diagonal \in Nat
    /\ Gravity \in Nat \ {0}
    /\ JumpSpeed \in Nat /\ JumpSpeed > Gravity
    /\ JUMP_COUNT_MAX \in Nat
    /\ ROLLBACK_WINDOW \in Nat
    /\ Arena \subseteq Int

Directions == {"UP", "DOWN", "LEFT", "RIGHT"}

ASSUME RecordsAssumption ==
    \A p \in Players :
        Records[p] \subseteq [held : SUBSET Directions, jump : BOOLEAN]

VARIABLES
    phase,      \* "Controller" between two ticks, else the phase of the tick
    jump,       \* JumpComponent of the players
    matrix,     \* the translation of each WorldMatrixComponent
    used,       \* the records the players had in this tick
    snapshots,  \* the last captures, oldest first, with the records used since
    replay      \* how many ticks Engine::Rollback has still to simulate

simVars == <<phase, jump, matrix, used, snapshots, replay>>
vars    == <<collisionVars, simVars>>

(* A slot of the input timeline that holds another tick's record.          *)
NoRecord == [held |-> {"none"}, jump |-> FALSE]

-----------------------------------------------------------------------------
(* KinematicMovementSystem                                                 *)

Axis(held, minus, plus) ==
    (IF plus \in held THEN 1 ELSE 0) - (IF minus \in held THEN 1 ELSE 0)

(* dir is normalised when it is longer than 1.                             *)
Moved(at, held) ==
    LET x     == Axis(held, "LEFT", "RIGHT")
        z     == Axis(held, "UP", "DOWN")
        speed == IF x # 0 /\ z # 0 THEN Diagonal ELSE Straight
    IN  [x |-> at.x + x * speed, y |-> at.y, z |-> at.z + z * speed]

Walks(record) ==
    Axis(record.held, "LEFT", "RIGHT") # 0 \/ Axis(record.held, "UP", "DOWN") # 0

(* vy and cnt after the key down of this tick, if there is one.            *)
JumpStarted(j, pressed) ==
    IF pressed /\ j.cnt < JUMP_COUNT_MAX
    THEN [cnt |-> j.cnt + 1, vy |-> MaxOf(j.vy, 0) + JumpSpeed]
    ELSE j

Grounded == [cnt |-> 0, vy |-> 0]

(* Mutant: the end of the jump leaves cnt as it is.                        *)
KinematicStillJumping(at, j, record) ==
    LET to    == Moved(at, record.held)
        begun == JumpStarted(j, record.jump)
        vy    == begun.vy - Gravity
    IN  CASE record = NoRecord    -> [pos |-> at, jump |-> j]
          [] record # NoRecord /\ begun.cnt = 0 -> [pos |-> to, jump |-> begun]
          [] record # NoRecord /\ begun.cnt > 0 /\ to.y + vy <= 0 ->
                [pos |-> [to EXCEPT !.y = 0], jump |-> [begun EXCEPT !.vy = 0]]
          [] OTHER -> [pos  |-> [to EXCEPT !.y = @ + vy],
                       jump |-> [begun EXCEPT !.vy = vy]]

(* The position and the jump of a player after its update.                 *)
Kinematic(at, j, record) ==
    LET to    == Moved(at, record.held)
        begun == JumpStarted(j, record.jump)
        vy    == begun.vy - Gravity
    IN  CASE record = NoRecord    -> [pos |-> at, jump |-> j]
          [] record # NoRecord /\ begun.cnt = 0 -> [pos |-> to, jump |-> begun]
          [] record # NoRecord /\ begun.cnt > 0 /\ to.y + vy <= 0 ->
                [pos |-> [to EXCEPT !.y = 0], jump |-> Grounded]
          [] OTHER -> [pos  |-> [to EXCEPT !.y = @ + vy],
                       jump |-> [begun EXCEPT !.vy = vy]]

-----------------------------------------------------------------------------
InArena(at) == at.x \in Arena /\ at.z \in Arena

Init ==
    /\ CollisionInit
    /\ \A p \in Players : pos[p].y = 0
    /\ phase = "Controller"
    /\ jump = [p \in Players |-> Grounded]
    /\ matrix = [e \in Entities |-> [x |-> 0, y |-> 0, z |-> 0]]
    /\ used = [p \in Players |-> NoRecord]
    /\ snapshots = <<>>
    /\ replay = 0

(* The players' components at the start of the tick, which the slice       *)
(* captured after the tick before it.                                      *)
Captured == [pos |-> [p \in Players |-> pos[p]], jump |-> jump]

(* The record that was used for a tick is there when it is simulated once  *)
(* more; one that was missing may have arrived.                            *)
UsedBefore(p) ==
    IF replay = 0 THEN NoRecord ELSE snapshots[Len(snapshots) - replay + 1].used[p]

RecordsOfTick(p) ==
    IF UsedBefore(p) = NoRecord THEN Records[p] \cup {NoRecord} ELSE {UsedBefore(p)}

IsNew(records, p) == records[p] # UsedBefore(p)

Controller(records) ==
    /\ phase = "Controller"
    /\ \A p \in Players : records[p] \in RecordsOfTick(p)
    /\ LET after == [p \in Players |-> Kinematic(pos[p], jump[p], records[p])]
       IN  /\ pos' = [e \in Entities |-> IF e \in Players THEN after[e].pos ELSE pos[e]]
           /\ jump' = [p \in Players |-> after[p].jump]
    /\ \A p \in Players : IsNew(records, p) /\ Walks(records[p]) => InArena(pos'[p])
    /\ snapshots' =
          LET all == IF replay = 0
                     THEN Append(snapshots, [state |-> Captured, used |-> records])
                     ELSE [snapshots EXCEPT ![Len(snapshots) - replay + 1] =
                              [state |-> Captured, used |-> records]]
          IN  IF Len(all) > ROLLBACK_WINDOW THEN Tail(all) ELSE all
    /\ used' = records
    /\ phase' = "Integrator"
    /\ UNCHANGED <<stage, aabb, sweepVars, matrix, replay>>

(* TransformSystem                                                         *)
Integrator ==
    /\ phase = "Integrator"
    /\ matrix' = pos
    /\ phase' = "Collision"
    /\ UNCHANGED <<collisionVars, jump, used, snapshots, replay>>

(* Mutant: the next tick's systems do not wait for the sweep.              *)
BeginCollisionAsync ==
    /\ phase = "Collision"
    /\ BeginUpdate
    /\ phase' = "Controller"
    /\ UNCHANGED <<jump, matrix, used, snapshots, replay>>

(* CollisionSystem; the tick is over when its sweep is.                    *)
BeginCollision ==
    /\ phase = "Collision"
    /\ BeginUpdate
    /\ UNCHANGED simVars

SweepCollision == SweepEntity /\ UNCHANGED simVars

EndTick ==
    /\ EndUpdate
    /\ phase' = "Controller"
    /\ replay' = IF replay = 0 THEN 0 ELSE replay - 1
    /\ UNCHANGED <<jump, matrix, used, snapshots>>

(* Mutant: the slice has no JumpComponent.                                 *)
RollbackPositions(k) ==
    /\ phase = "Controller"
    /\ replay = 0
    /\ LET slice == snapshots[Len(snapshots) - k + 1].state
       IN  pos' = [e \in Entities |-> IF e \in Players THEN slice.pos[e] ELSE pos[e]]
    /\ replay' = k
    /\ UNCHANGED <<stage, aabb, sweepVars, phase, jump, matrix, used, snapshots>>

(* Engine::Rollback to the start of the k-th last tick; the matrices and   *)
(* the boxes are not captured.                                             *)
Rollback(k) ==
    /\ phase = "Controller"
    /\ replay = 0
    /\ LET slice == snapshots[Len(snapshots) - k + 1].state
       IN  /\ pos' = [e \in Entities |-> IF e \in Players THEN slice.pos[e] ELSE pos[e]]
           /\ jump' = slice.jump
    /\ replay' = k
    /\ UNCHANGED <<stage, aabb, sweepVars, phase, matrix, used, snapshots>>

Tick(records) == replay = 0 /\ Controller(records)

AllRecords == [Players -> UNION {Records[p] : p \in Players} \cup {NoRecord}]

Next ==
    \/ \E records \in AllRecords : Controller(records)
    \/ Integrator
    \/ BeginCollision
    \/ SweepCollision
    \/ EndTick
    \/ \E k \in 1 .. Len(snapshots) : Rollback(k)

Spec == Init /\ [][Next]_vars

(* A tick that has begun is finished, a rollback simulates all its ticks,  *)
(* and every player's record of the tick is there again and again: each    *)
(* frame records the input of its first tick before it simulates it.       *)
Fairness ==
    /\ WF_vars(Integrator \/ BeginCollision \/ SweepCollision \/ EndTick)
    /\ WF_vars(\E records \in AllRecords : replay # 0 /\ Controller(records))
    /\ \A p \in Players :
          SF_vars(\E records \in AllRecords : records[p] # NoRecord /\ Tick(records))

FairSpec == Spec /\ Fairness

-----------------------------------------------------------------------------
(* Properties                                                              *)

TypeOK ==
    /\ stage \in {"Move", "Sweep"}
    /\ phase \in {"Controller", "Integrator", "Collision"}
    /\ pos \in [Entities -> Vectors]
    /\ jump \in [Players -> [cnt : 0 .. JUMP_COUNT_MAX, vy : Int]]
    /\ matrix \in [Entities -> Vectors]
    /\ replay \in 0 .. Len(snapshots)
    /\ Len(snapshots) <= ROLLBACK_WINDOW
    /\ next \in 1 .. N + 1
    /\ active \subseteq Entities

(* Between two ticks a player that is not jumping stands on the ground and *)
(* one that is jumping is above it, also after a rollback: the position    *)
(* and the jump are captured and restored together (main.cpp's             *)
(* RollbackSlice<PositionComponent, JumpComponent>), and a landing ends    *)
(* the jump in the tick that reaches the ground.                           *)
AirborneMeansJumping ==
    \A p \in Players :
        /\ jump[p].cnt = 0 => pos[p].y = 0 /\ jump[p].vy = 0
        /\ jump[p].cnt > 0 => pos[p].y > 0

(* No sequence of presses, at whatever moments of a flight and however the *)
(* ticks are simulated again, lifts a player higher than JUMP_COUNT_MAX    *)
(* jumps pressed at once would (JUMP_COUNT_MAX in the jump's condition).   *)
MaxHeight ==
    LET vy == JUMP_COUNT_MAX * JumpSpeed
    IN  (vy * vy) \div (2 * Gravity)

NoHigherThanItsJumps == \A p \in Players : pos[p].y <= MaxHeight

(* When a frame renders, the matrices it draws with and the boxes the      *)
(* sweep has compared are those of the positions the last tick left: the   *)
(* order of the phases lets no system read what a later one writes, and    *)
(* after a rollback no frame is drawn before the ticks are redone.         *)
DrawsWhatWasSimulated ==
    (phase = "Controller" /\ stage = "Move" /\ replay = 0 /\ snapshots # <<>>)
        => /\ matrix = pos
           /\ \A e \in Entities : aabb[e] = SetAABB(e)

(* Every jump ends: the records of a player keep coming, and whatever it   *)
(* presses and however often ticks are simulated again, it lands.          *)
EveryJumpLands == \A p \in Players : jump[p].cnt > 0 ~> jump[p].cnt = 0

(* The systems use the collision system as Collision describes it: no      *)
(* position changes while its update runs.                                 *)
ImplementsCollision == CollisionSpec

=============================================================================
