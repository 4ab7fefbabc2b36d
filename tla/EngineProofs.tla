------------------------------ MODULE EngineProofs ------------------------------
(***************************************************************************)
(* What the rollback window keeps, for every size of the window, every     *)
(* number of ticks in a frame and whatever the other players send: the     *)
(* properties of Engine as theorems.                                       *)
(*                                                                         *)
(* None of them is inductive.  What Rollback makes of the world depends on *)
(* the captures, what the captures are on the world, and whether a record  *)
(* is still in its slot when its tick is simulated on which other records  *)
(* can have come since: IInv relates the three.                            *)
(***************************************************************************)
EXTENDS Engine, SequenceTheorems, TLAPS

-----------------------------------------------------------------------------
(* Remainders.                                                             *)
LEMMA DivMod ==
    ASSUME NEW a \in Int, NEW w \in Nat, w > 0
    PROVE  /\ a % w \in 0 .. w - 1
           /\ a \div w \in Int
           /\ a = w * (a \div w) + (a % w)
OBVIOUS

(* The only multiple of w nearer to 0 than w.                              *)
LEMMA SmallMultiple ==
    ASSUME NEW q \in Int, NEW w \in Nat, w > 0, w * q < w, -w < w * q
    PROVE  q = 0
<1>1. CASE q >= 1
  <2>1. w * q >= w * 1
    BY <1>1
  <2> QED BY <2>1
<1>2. CASE q <= -1
  <2>1. w * q <= w * (-1)
    BY <1>2
  <2> QED BY <2>1
<1> QED BY <1>1, <1>2

LEMMA NearWithSameRemainder ==
    ASSUME NEW a \in Int, NEW b \in Int, NEW w \in Nat, w > 0,
           a % w = b % w, a - b < w, b - a < w
    PROVE  a = b
<1> DEFINE q == (a \div w) - (b \div w)
<1>1. q \in Int /\ w * (a \div w) - w * (b \div w) = a - b
  BY DivMod
<1>2. w * q = a - b
  BY <1>1, DivMod
<1>3. q = 0
  <2> HIDE DEF q
  <2> QED BY <1>1, <1>2, SmallMultiple
<1> QED BY <1>2, <1>3

LEMMA DistanceFromRemainder ==
    ASSUME NEW a \in Int, NEW b \in Int, NEW w \in Nat, w > 0, b <= a, a - b < w
    PROVE  (a - (b % w)) % w = a - b
<1> DEFINE c == a - (b % w)
           q == (c \div w) - (b \div w)
<1>1. b = w * (b \div w) + (b % w) /\ (b \div w) \in Int /\ (b % w) \in 0 .. w - 1
  BY DivMod
<1>2. c = w * (c \div w) + (c % w) /\ (c \div w) \in Int /\ (c % w) \in 0 .. w - 1 /\ c \in Int
  BY <1>1, DivMod
<1>3. w * q = w * (c \div w) - w * (b \div w) /\ q \in Int
  BY <1>1, <1>2
<1>4. w * q = (a - b) - (c % w)
  BY <1>1, <1>2, <1>3
<1>5. q = 0
  <2> HIDE DEF q, c
  <2> QED BY <1>2, <1>3, <1>4, SmallMultiple
<1> QED BY <1>2, <1>4, <1>5

-----------------------------------------------------------------------------
(* RingArray: two ticks that are less than a window apart have slots of    *)
(* their own.                                                              *)
LEMMA SlotType == \A t \in Int : Slot(t) \in Slots
BY DivMod, WindowAssumption DEF Slot, Slots

LEMMA SlotsApart ==
    ASSUME NEW t \in Int, NEW u \in Int, t # u,
           t - u < ROLLBACK_WINDOW, u - t < ROLLBACK_WINDOW
    PROVE  Slot(t) # Slot(u)
BY NearWithSameRemainder, WindowAssumption DEF Slot

(* LatestIn finds the tick of the window that a slot is for.               *)
LEMMA LatestInSlot ==
    ASSUME tick \in Nat, NEW t \in Window
    PROVE  LatestIn(Slot(t)) = t
<1>1. t \in Int /\ t <= tick /\ tick - t < ROLLBACK_WINDOW
  BY WindowAssumption DEF Window
<1>2. (tick - (t % ROLLBACK_WINDOW)) % ROLLBACK_WINDOW = tick - t
  BY <1>1, WindowAssumption, DistanceFromRemainder
<1> QED BY <1>1, <1>2 DEF LatestIn, Slot

LEMMA LatestInType ==
    ASSUME tick \in Nat, NEW s \in Slots
    PROVE  LatestIn(s) \in Int /\ LatestIn(s) <= tick
<1>1. (tick - s) % ROLLBACK_WINDOW \in 0 .. ROLLBACK_WINDOW - 1
  BY DivMod, WindowAssumption DEF Slots
<1> QED BY <1>1 DEF LatestIn

-----------------------------------------------------------------------------
(* The world.                                                              *)
Column == [Players -> InputOf \cup {NotOfThisTick}]

LEMMA InputsType ==
    ASSUME inputTimelines \in [Players -> [Slots -> InputRecord]], NEW t \in Int
    PROVE  Inputs(t) \in Column
<1>1. \A p \in Players : inputTimelines[p][Slot(t)] \in InputRecord
  BY SlotType
<1>2. \A p \in Players : InputAt(p, t) \in InputOf \cup {NotOfThisTick}
  BY <1>1 DEF InputAt, InputRecord, InputOf
<1> QED BY <1>2 DEF Inputs, Column

(* The world v is w with a column more for each tick from first to         *)
(* last - 1.                                                               *)
Continues(v, w, first, last) ==
    /\ v \in Seq(Column)
    /\ Len(v) = Len(w) + last - first
    /\ \A i \in 1 .. Len(w) : v[i] = w[i]
    /\ \A i \in 1 .. last - first : v[Len(w) + i] = Inputs(first + i - 1)

LEMMA ResimulatedProperties ==
    ASSUME inputTimelines \in [Players -> [Slots -> InputRecord]],
           NEW w \in Seq(Column), NEW first \in Nat, NEW last \in Nat, first <= last
    PROVE  Continues(Resimulated(w, first, last), w, first, last)
<1> DEFINE added == [i \in 1 .. last - first |-> Inputs(first + i - 1)]
<1>1. \A i \in 1 .. last - first : Inputs(first + i - 1) \in Column
  BY InputsType
<1>2. added \in Seq(Column) /\ Len(added) = last - first
  BY <1>1
<1>3. \A i \in 1 .. last - first : added[i] = Inputs(first + i - 1)
  OBVIOUS
<1> HIDE DEF added
<1>4. /\ w \o added \in Seq(Column)
      /\ Len(w \o added) = Len(w) + Len(added)
      /\ \A i \in 1 .. Len(w) + Len(added) :
            (w \o added)[i] = IF i <= Len(w) THEN w[i] ELSE added[i - Len(w)]
  BY <1>2, ConcatProperties
<1>5. Resimulated(w, first, last) = w \o added
  BY DEF Resimulated, added
<1>6. Len(w) \in Nat
  OBVIOUS
<1> HIDE DEF Resimulated
<1>7. \A i \in 1 .. last - first : (w \o added)[Len(w) + i] = added[i]
  <2> TAKE i \in 1 .. last - first
  <2>1. Len(w) + i \in 1 .. Len(w) + Len(added) /\ ~ (Len(w) + i <= Len(w)) /\ Len(w) + i - Len(w) = i
    BY <1>2, <1>6
  <2> QED BY <1>4, <2>1
<1> QED BY <1>2, <1>3, <1>4, <1>5, <1>6, <1>7 DEF Continues

LEMMA PrefixProperties ==
    ASSUME NEW w \in Seq(Column), NEW n \in Nat, n <= Len(w)
    PROVE  /\ SubSeq(w, 1, n) \in Seq(Column)
           /\ Len(SubSeq(w, 1, n)) = n
           /\ \A i \in 1 .. n : SubSeq(w, 1, n)[i] = w[i]
<1>1. \A i \in 1 .. n : w[i] \in Column
  BY ElementOfSeq
<1> QED BY <1>1, SubSeqProperties

LEMMA PrefixEqual ==
    ASSUME NEW w \in Seq(Column), NEW v \in Seq(Column),
           Len(v) <= Len(w), \A i \in 1 .. Len(v) : v[i] = w[i]
    PROVE  v = SubSeq(w, 1, Len(v))
<1>1. Len(v) \in Nat
  OBVIOUS
<1> QED BY <1>1, PrefixProperties, SeqEqual

LEMMA SamePrefix ==
    ASSUME NEW w \in Seq(Column), NEW v \in Seq(Column), NEW n \in Nat,
           n <= Len(w), n <= Len(v), \A i \in 1 .. n : w[i] = v[i]
    PROVE  SubSeq(w, 1, n) = SubSeq(v, 1, n)
<1>1. SubSeq(w, 1, n) \in Seq(Column) /\ Len(SubSeq(w, 1, n)) = n
      /\ \A i \in 1 .. n : SubSeq(w, 1, n)[i] = w[i]
  BY PrefixProperties
<1> DEFINE u == SubSeq(w, 1, n)
<1> HIDE DEF u
<1>2. u \in Seq(Column) /\ Len(u) = n /\ \A i \in 1 .. n : u[i] = v[i]
  BY <1>1 DEF u
<1>3. u = SubSeq(v, 1, n)
  BY <1>2, PrefixEqual
<1> QED BY <1>3 DEF u

(* Simulating up to a tick gives the beginning of simulating further.      *)
LEMMA ResimulatedPrefix ==
    ASSUME inputTimelines \in [Players -> [Slots -> InputRecord]],
           NEW w \in Seq(Column), NEW first \in Nat, NEW t \in Nat, NEW last \in Nat,
           Len(w) = first, first <= t, t <= last
    PROVE  Resimulated(w, first, t) = SubSeq(Resimulated(w, first, last), 1, t)
<1> DEFINE v == Resimulated(w, first, t)
           u == Resimulated(w, first, last)
<1>0. first <= last
  OBVIOUS
<1>1. Continues(v, w, first, t)
  BY ResimulatedProperties
<1>2. Continues(u, w, first, last)
  BY <1>0, ResimulatedProperties
<1> HIDE DEF v, u
<1>3. ASSUME NEW i \in 1 .. t
      PROVE  v[i] = u[i]
  <2>1. CASE i <= first
    BY <1>1, <1>2, <2>1 DEF Continues
  <2>2. CASE ~ (i <= first)
    <3> DEFINE j == i - first
    <3>1. j \in 1 .. t - first /\ j \in 1 .. last - first /\ first + j = i
      BY <2>2
    <3>2. v[first + j] = u[first + j]
      <4> HIDE DEF j
      <4> QED BY <1>1, <1>2, <3>1 DEF Continues
    <3> QED BY <3>1, <3>2
  <2> QED BY <2>1, <2>2
<1>4. v = SubSeq(u, 1, t)
  BY <1>1, <1>2, <1>3, PrefixEqual DEF Continues
<1> QED BY <1>4 DEF v, u

-----------------------------------------------------------------------------
(* The invariant.                                                          *)

StageInv ==
    /\ phase # "Frame" => ~ nextState
    /\ states = 0 => nextState /\ punctual
    /\ phase = "Packets" => latestTick <= tick /\ (punctual => latestTick >= tick - MaxLate)

CoverInv ==
    \A t \in Window : snapshots[Slot(t)].tick = t /\ snapshots[Slot(t)].state = states

PrefixInv ==
    punctual => /\ Len(world) = tick
                /\ \A t \in Window : snapshots[Slot(t)].world = SubSeq(world, 1, t)

(* The ticks that are simulated, and that Rollback will not redo.          *)
Settled(t) == t < tick /\ (phase = "Packets" => t < latestTick)

FollowInv ==
    punctual => \A t \in Nat :
        Settled(t) /\ t >= tick - MaxLate => world[t + 1] = Inputs(t)

(* A player sends one INPUT for a tick.                                    *)
PeersInv ==
    /\ \A m \in peerInput : m.player # Me
    /\ \A m, n \in peerInput : m.player = n.player /\ m.tick = n.tick => m = n

RecordOf(m) == [tick |-> m.tick, held |-> m.held, down |-> m.down]

ColumnOf(m) == [held |-> m.held, down |-> m.down]

(* A record keeps its slot for as long as its tick may be simulated again, *)
(* and afterwards its tick is settled.                                     *)
HeardInv ==
    punctual => \A m \in heard :
        /\ m.tick <= tick + MaxAhead
        /\ m.tick >= tick - MaxLate => inputTimelines[m.player][Slot(m.tick)] = RecordOf(m)
        /\ Settled(m.tick) => world[m.tick + 1][m.player] = ColumnOf(m)

IInv == TypeOK /\ StageInv /\ CoverInv /\ PrefixInv /\ FollowInv /\ PeersInv /\ HeardInv

-----------------------------------------------------------------------------
LEMMA InitIsTyped == Init => TypeOK
<1> SUFFICES ASSUME Init PROVE TypeOK
  OBVIOUS
<1>1. Blank \in InputRecord
  BY DEF Blank, InputRecord
<1>2. <<>> \in Seq([Players -> InputOf \cup {NotOfThisTick}]) /\ <<>> \in Seq(Message) /\ Len(<<>>) = 0
  OBVIOUS
<1>3. [tick |-> 0, state |-> 0, world |-> <<>>] \in Snapshot
  BY <1>2 DEF Snapshot
<1> QED BY <1>1, <1>2, <1>3, BoundsAssumption DEF Init, TypeOK

LEMMA InitInvariant == Init => IInv
<1> SUFFICES ASSUME Init PROVE IInv
  OBVIOUS
<1>1. TypeOK
  BY InitIsTyped
<1>2. Window = {0}
  BY WindowAssumption DEF Init, Window
<1>3. CoverInv
  BY <1>2, SlotType DEF Init, CoverInv
<1>4. PrefixInv
  <2>1. SubSeq(<<>>, 1, 0) = <<>>
    BY SubSeqEmpty
  <2> QED BY <1>2, <2>1, SlotType DEF Init, PrefixInv
<1>5. StageInv /\ FollowInv /\ PeersInv /\ HeardInv
  BY DEF Init, StageInv, FollowInv, Settled, PeersInv, HeardInv
<1> QED BY <1>1, <1>3, <1>4, <1>5 DEF IInv

-----------------------------------------------------------------------------
(* Every step keeps the types.                                             *)
LEMMA UpdateInputKeyType ==
    ASSUME NEW c \in InputRecord, NEW down \in SUBSET Intents, NEW held \in SUBSET Intents
    PROVE  /\ [c EXCEPT !.held = held] \in InputRecord
           /\ [c EXCEPT !.down = down, !.held = held] \in InputRecord
BY DEF InputRecord

LEMMA IntentsOfKeyType == \A k : IntentsOfKey(k) \subseteq Intents
BY KeysAssumption DEF IntentsOfKey

LEMMA MessageRecordType ==
    ASSUME NEW m \in Message
    PROVE  RecordOf(m) \in InputRecord /\ m.player \in Players /\ m.tick \in Nat
BY DEF Message, InputRecord, RecordOf

LEMMA RestoredType ==
    ASSUME TypeOK, NEW t \in Nat
    PROVE  Restored(t) \in Seq(Column)
<1>1. snapshots[Slot(t)] \in Snapshot
  BY SlotType DEF TypeOK
<1> QED BY <1>1 DEF Restored, Snapshot, TypeOK, Column

LEMMA CaptureType ==
    ASSUME TypeOK, NEW t \in Nat, NEW w \in Seq(Column)
    PROVE  Capture(w, t) \in Snapshot
BY DEF Capture, Snapshot, TypeOK, Column

LEMMA StepKeepsTypes ==
    ASSUME TypeOK, StageInv, [Next]_vars
    PROVE  TypeOK'
<1> USE BoundsAssumption
<1>1. CASE SetNextState
  BY <1>1 DEF TypeOK, SetNextState, inputVars, netVars
<1>2. CASE ChangeState
  <2>1. <<>> \in Seq([Players -> InputOf \cup {NotOfThisTick}])
    OBVIOUS
  <2>2. [tick |-> 0, state |-> states + 1, world |-> <<>>] \in Snapshot
    BY <2>1 DEF Snapshot, TypeOK
  <2>3. snapshots' \in [Slots -> Snapshot]
    BY <1>2, <2>2 DEF ChangeState, TypeOK
  <2>4. world' \in Seq([Players -> InputOf \cup {NotOfThisTick}])
    BY <1>2, <2>1 DEF ChangeState
  <2>5. heard' \subseteq peerInput' /\ punctual' \in BOOLEAN /\ nextState' \in BOOLEAN
    BY <1>2 DEF ChangeState
  <2>6. states' \in Nat /\ tick' \in Nat /\ events' \in 0 .. MaxEvents
    BY <1>2 DEF ChangeState, TypeOK
  <2> QED BY <1>2, <2>3, <2>4, <2>5, <2>6 DEF TypeOK, ChangeState
<1>3. CASE ProcessNetPackets
  BY <1>3 DEF TypeOK, ProcessNetPackets, inputVars, netVars
<1>4. ASSUME NEW p \in Players \ {Me}, NEW t \in 0 .. MaxTick - 1, NEW i \in PeerInputs,
             PeerSends(p, t, i)
      PROVE  TypeOK'
  <2>1. i \in InputOf
    BY PeerInputsAssumption
  <2>2. [player |-> p, tick |-> t, held |-> i.held, down |-> i.down] \in Message
    BY <2>1 DEF Message, InputOf
  <2> QED BY <1>4, <2>2 DEF TypeOK, PeerSends, engineVars, inputVars
<1>5. ASSUME NEW m \in peerInput, ApplyInput(m)
      PROVE  TypeOK'
  <2>1. m \in Message
    BY DEF TypeOK
  <2>2. RecordOf(m) \in InputRecord /\ m.player \in Players /\ m.tick \in Nat /\ Slot(m.tick) \in Slots
    BY <2>1, MessageRecordType, SlotType
  <2>3. inputTimelines' = [inputTimelines EXCEPT ![m.player][Slot(m.tick)] = RecordOf(m)]
    BY <1>5 DEF ApplyInput, RecordOf
  <2>4. inputTimelines' \in [Players -> [Slots -> InputRecord]]
    BY <2>2, <2>3 DEF TypeOK
  <2>5. latestTick' \in Nat
    BY <1>5, <2>2 DEF TypeOK, ApplyInput, SetLatestTick
  <2> QED BY <1>5, <2>4, <2>5 DEF TypeOK, ApplyInput, inputVars, Punctual
<1>6. CASE Rollback
  <2>1. CASE ~ (latestTick < tick)
    BY <1>6, <2>1 DEF TypeOK, Rollback, inputVars, netVars
  <2>2. CASE latestTick < tick
    <3> DEFINE w == Restored(latestTick)
    <3>1. w \in Seq(Column)
      BY RestoredType DEF TypeOK
    <3> HIDE DEF w
    <3>2. ASSUME NEW t \in Nat, latestTick <= t
          PROVE  Resimulated(w, latestTick, t) \in Seq(Column)
      BY <3>1, <3>2, ResimulatedProperties DEF TypeOK, Continues
    <3>3. world' = Resimulated(w, latestTick, tick)
      BY <1>6, <2>2 DEF Rollback, w
    <3>4. world' \in Seq(Column)
      BY <2>2, <3>2, <3>3 DEF TypeOK
    <3>5. ASSUME NEW s \in Slots
          PROVE  (IF LatestIn(s) > latestTick
                  THEN Capture(Resimulated(w, latestTick, LatestIn(s)), LatestIn(s))
                  ELSE snapshots[s]) \in Snapshot
      <4>1. CASE LatestIn(s) > latestTick
        <5>1. LatestIn(s) \in Nat
          BY <4>1, LatestInType DEF TypeOK
        <5>2. latestTick <= LatestIn(s)
          BY <4>1, <5>1 DEF TypeOK
        <5>3. Resimulated(w, latestTick, LatestIn(s)) \in Seq(Column)
          BY <5>1, <5>2, <3>2
        <5>4. Capture(Resimulated(w, latestTick, LatestIn(s)), LatestIn(s)) \in Snapshot
          BY <5>1, <5>3, CaptureType
        <5> QED BY <4>1, <5>4
      <4>2. CASE ~ (LatestIn(s) > latestTick)
        BY <4>2 DEF TypeOK
      <4> QED BY <4>1, <4>2
    <3>6. snapshots' \in [Slots -> Snapshot]
      BY <1>6, <2>2, <3>5 DEF Rollback, w
    <3> QED BY <1>6, <3>4, <3>6 DEF TypeOK, Rollback, inputVars, netVars, Column
  <2> QED BY <2>1, <2>2
<1>7. ASSUME NEW c \in Codes, NEW a \in {"GLFW_PRESS", "GLFW_REPEAT", "GLFW_RELEASE"},
             OnKeyEvent(c, a)
      PROVE  TypeOK'
  <2> DEFINE intents == IntentsOfKey(ConvertKeyGLFW(c))
  <2>1. intents \subseteq Intents
    BY IntentsOfKeyType
  <2> HIDE DEF intents
  <2>2. curr' = (IF ConvertActionGLFW(a) = "RELEASE"
                 THEN [curr EXCEPT !.held = curr.held \ intents]
                 ELSE [curr EXCEPT !.down = curr.down \cup (intents \ prev.held),
                                   !.held = curr.held \cup intents])
    BY <1>7 DEF OnKeyEvent, UpdateInputKey, intents
  <2>3. curr.held \subseteq Intents /\ curr.down \subseteq Intents
    BY DEF TypeOK, InputRecord
  <2>4. curr' \in InputRecord
    <3>1. curr \in InputRecord
      BY DEF TypeOK
    <3> QED BY <2>1, <2>2, <2>3, <3>1, UpdateInputKeyType
  <2>5. keysDown' \subseteq Codes /\ events' \in 0 .. MaxEvents /\ pressed' \subseteq Intents
    BY <1>7, <2>1 DEF OnKeyEvent, TypeOK, intents
  <2> QED BY <1>7, <2>4, <2>5 DEF TypeOK, OnKeyEvent, engineVars, netVars
<1>8. ASSUME NEW n \in 0 .. MAX_SIMULATION_NUM, RecordInput(n)
      PROVE  TypeOK'
  <2>1. inputTimelines' \in [Players -> [Slots -> InputRecord]]
    BY <1>8, SlotType DEF RecordInput, TypeOK
  <2> QED BY <1>8, <2>1 DEF TypeOK, RecordInput, inputVars, netVars
<1>9. CASE SimulateTick
  <2>1. Inputs(tick) \in Column
    BY InputsType DEF TypeOK
  <2>2. world' \in Seq(Column)
    BY <1>9, <2>1 DEF SimulateTick, TypeOK, Column
  <2>3. snapshots' \in [Slots -> Snapshot]
    <3>1. Capture(world', tick + 1) \in Snapshot
      BY <2>2, CaptureType DEF TypeOK
    <3> QED BY <1>9, <3>1 DEF SimulateTick, TypeOK
  <2>4. InputMessage \in Message
    <3>1. inputTimelines[Me][Slot(tick)] \in InputRecord
      BY SlotType, PlayersAssumption DEF TypeOK
    <3> QED BY <3>1, PlayersAssumption DEF InputMessage, Message, InputRecord, TypeOK
  <2>5. sent' \in Seq(Message) /\ Len(sent') <= 1
    BY <1>9, <2>4 DEF SimulateTick
  <2>6. tick' \in Nat /\ simLimit' \in 0 .. MAX_SIMULATION_NUM
    BY <1>9 DEF SimulateTick, TypeOK
  <2> QED BY <1>9, <2>2, <2>3, <2>5, <2>6 DEF TypeOK, SimulateTick, inputVars, Column
<1>10. CASE EndFrame
  <2>1. curr' \in InputRecord /\ prev' \in InputRecord
    <3>1. curr \in InputRecord /\ prev \in InputRecord /\ tick \in Nat
      BY DEF TypeOK
    <3>2. ASSUME NEW c \in InputRecord PROVE [c EXCEPT !.tick = tick, !.down = {}] \in InputRecord
      BY <3>1 DEF InputRecord
    <3> QED BY <1>10, <3>1, <3>2 DEF EndFrame, ResetInputRecords
  <2>2. heldBefore' \subseteq Intents /\ pressed' \subseteq Intents
    <3>1. IntentsDown \subseteq Intents
      BY IntentsOfKeyType DEF IntentsDown
    <3> QED BY <1>10, <3>1 DEF EndFrame, ResetInputRecords, TypeOK
  <2>3. <<>> \in Seq(Message) /\ Len(<<>>) <= 1
    OBVIOUS
  <2> QED BY <1>10, <2>1, <2>2, <2>3 DEF TypeOK, EndFrame, engineVars
<1>11. CASE UNCHANGED vars
  BY <1>11 DEF vars, engineVars, inputVars, netVars, TypeOK
<1> QED
  BY <1>1, <1>2, <1>3, <1>4, <1>5, <1>6, <1>7, <1>8, <1>9, <1>10, <1>11 DEF Next

-----------------------------------------------------------------------------
(* The frame, and the other players.                                       *)
LEMMA StepKeepsStage ==
    ASSUME TypeOK, StageInv, [Next]_vars
    PROVE  StageInv'
<1> USE DEF StageInv
<1>1. CASE SetNextState
  BY <1>1 DEF SetNextState, netVars
<1>2. CASE ChangeState
  BY <1>2 DEF ChangeState, TypeOK
<1>3. CASE ProcessNetPackets
  BY <1>3, PunctualAssumption DEF ProcessNetPackets, TypeOK, netVars
<1>4. ASSUME NEW p \in Players \ {Me}, NEW t \in 0 .. MaxTick - 1, NEW i \in PeerInputs,
             PeerSends(p, t, i)
      PROVE  StageInv'
  BY <1>4 DEF PeerSends, engineVars
<1>5. ASSUME NEW m \in peerInput, ApplyInput(m)
      PROVE  StageInv'
  <2>1. m.tick \in Nat
    BY MessageRecordType DEF TypeOK
  <2> QED BY <1>5, <2>1, PunctualAssumption DEF ApplyInput, SetLatestTick, Punctual, TypeOK
<1>6. CASE Rollback
  BY <1>6 DEF Rollback, netVars
<1>7. ASSUME NEW c \in Codes, NEW a \in {"GLFW_PRESS", "GLFW_REPEAT", "GLFW_RELEASE"},
             OnKeyEvent(c, a)
      PROVE  StageInv'
  BY <1>7 DEF OnKeyEvent, engineVars, netVars
<1>8. ASSUME NEW n \in 0 .. MAX_SIMULATION_NUM, RecordInput(n)
      PROVE  StageInv'
  BY <1>8 DEF RecordInput, netVars
<1>9. CASE SimulateTick
  BY <1>9 DEF SimulateTick
<1>10. CASE EndFrame
  BY <1>10 DEF EndFrame, engineVars
<1>11. CASE UNCHANGED vars
  BY <1>11 DEF vars, engineVars, inputVars, netVars
<1> QED
  BY <1>1, <1>2, <1>3, <1>4, <1>5, <1>6, <1>7, <1>8, <1>9, <1>10, <1>11 DEF Next

LEMMA StepKeepsPeers ==
    ASSUME TypeOK, PeersInv, [Next]_vars
    PROVE  PeersInv'
<1>1. ASSUME NEW p \in Players \ {Me}, NEW t \in 0 .. MaxTick - 1, NEW i \in PeerInputs,
             PeerSends(p, t, i)
      PROVE  PeersInv'
  <2> DEFINE new == [player |-> p, tick |-> t, held |-> i.held, down |-> i.down]
  <2>1. peerInput' = peerInput \cup {new} /\ new.player = p /\ new.tick = t
    BY <1>1 DEF PeerSends
  <2>2. \A m \in peerInput : m.player = p => m.tick # t
    <3>1. \A m \in peerInput : m.tick \in Nat
      BY MessageRecordType DEF TypeOK
    <3> QED BY <1>1, <3>1 DEF PeerSends
  <2> HIDE DEF new
  <2> QED BY <2>1, <2>2 DEF PeersInv
<1>2. CASE UNCHANGED peerInput
  BY <1>2 DEF PeersInv
<1>3. (\E p \in Players \ {Me}, t \in 0 .. MaxTick - 1, i \in PeerInputs : PeerSends(p, t, i))
      \/ UNCHANGED peerInput
  BY DEF Next, vars, netVars, SetNextState, ChangeState, ProcessNetPackets, ApplyInput, Rollback,
         OnKeyEvent, RecordInput, SimulateTick, EndFrame
<1> QED BY <1>1, <1>2, <1>3

-----------------------------------------------------------------------------
(* Steps that leave the world, its captures and the timelines alone.       *)
Quiet ==
    /\ UNCHANGED <<world, snapshots, states, tick, inputTimelines, heard, punctual>>
    /\ \A t \in Int : Settled(t)' = Settled(t)

LEMMA QuietSteps ==
    ASSUME TypeOK, StageInv,
           \/ SetNextState \/ ProcessNetPackets \/ EndFrame \/ UNCHANGED vars
           \/ \E p \in Players \ {Me}, t \in 0 .. MaxTick - 1, i \in PeerInputs : PeerSends(p, t, i)
           \/ \E c \in Codes, a \in {"GLFW_PRESS", "GLFW_REPEAT", "GLFW_RELEASE"} : OnKeyEvent(c, a)
    PROVE  Quiet
<1> USE DEF Quiet, Settled
<1>1. CASE SetNextState
  BY <1>1 DEF SetNextState, netVars
<1>2. CASE ProcessNetPackets
  BY <1>2 DEF ProcessNetPackets, netVars, TypeOK
<1>3. CASE EndFrame
  BY <1>3 DEF EndFrame, engineVars
<1>4. CASE UNCHANGED vars
  BY <1>4 DEF vars, engineVars, inputVars, netVars
<1>5. ASSUME NEW p \in Players \ {Me}, NEW t \in 0 .. MaxTick - 1, NEW i \in PeerInputs,
             PeerSends(p, t, i)
      PROVE  Quiet
  BY <1>5 DEF PeerSends, engineVars
<1>6. ASSUME NEW c \in Codes, NEW a \in {"GLFW_PRESS", "GLFW_REPEAT", "GLFW_RELEASE"},
             OnKeyEvent(c, a)
      PROVE  Quiet
  BY <1>6 DEF OnKeyEvent, engineVars, netVars
<1> QED BY <1>1, <1>2, <1>3, <1>4, <1>5, <1>6

HeardType ==
    \A m \in heard : /\ m \in Message /\ m.tick \in Nat /\ m.player \in Players
                     /\ Slot(m.tick) \in Slots

LEMMA HeardIsTyped == TypeOK => HeardType
BY MessageRecordType, SlotType DEF TypeOK, HeardType

LEMMA QuietKeeps ==
    ASSUME IInv, Quiet
    PROVE  CoverInv' /\ PrefixInv' /\ FollowInv' /\ HeardInv'
<1>1. Window' = Window
  BY DEF Quiet, Window
<1>2. \A t : Inputs(t)' = Inputs(t)
  BY DEF Quiet, Inputs, InputAt
<1>3. CoverInv' /\ PrefixInv'
  BY <1>1 DEF Quiet, IInv, CoverInv, PrefixInv
<1>4. FollowInv'
  BY <1>2 DEF Quiet, IInv, FollowInv
<1>5. HeardInv'
  BY HeardIsTyped DEF Quiet, IInv, HeardInv, HeardType
<1> QED BY <1>3, <1>4, <1>5

LEMMA ChangeStateKeeps ==
    ASSUME IInv, ChangeState
    PROVE  CoverInv' /\ PrefixInv' /\ FollowInv' /\ HeardInv'
<1>1. tick' = 0 /\ world' = <<>> /\ states' = states + 1 /\ heard' = {} /\ phase' = "Frame"
  BY DEF ChangeState
<1>2. Window' = {0}
  BY <1>1, WindowAssumption DEF Window
<1>3. snapshots'[Slot(0)] = [tick |-> 0, state |-> states + 1, world |-> <<>>]
  BY SlotType DEF ChangeState, IInv, TypeOK
<1>4. CoverInv'
  BY <1>1, <1>2, <1>3 DEF CoverInv
<1>5. PrefixInv'
  <2>1. SubSeq(<<>>, 1, 0) = <<>>
    BY SubSeqEmpty
  <2>2. Len(world') = 0 /\ SubSeq(world', 1, 0) = <<>>
    BY <1>1, <2>1
  <2>3. snapshots'[Slot(0)].world = <<>>
    BY <1>3
  <2> QED BY <1>1, <1>2, <2>2, <2>3 DEF PrefixInv
<1>6. FollowInv' /\ HeardInv'
  BY <1>1 DEF FollowInv, HeardInv, Settled
<1> QED BY <1>4, <1>5, <1>6

-----------------------------------------------------------------------------
(* Records.                                                                *)

(* A record that is written does not touch those of ticks less than a      *)
(* window away.                                                            *)
WritesOnly(p, u) ==
    \A q \in Players : \A s \in Slots :
        q # p \/ s # Slot(u) => inputTimelines'[q][s] = inputTimelines[q][s]

LEMMA TimelineWrite ==
    ASSUME NEW p \in Players, NEW u \in Int, WritesOnly(p, u),
           NEW t \in Int, t - u < ROLLBACK_WINDOW, u - t < ROLLBACK_WINDOW, t # u
    PROVE  /\ \A q \in Players : inputTimelines'[q][Slot(t)] = inputTimelines[q][Slot(t)]
           /\ Inputs(t)' = Inputs(t)
<1>1. Slot(t) \in Slots /\ Slot(t) # Slot(u)
  BY SlotType, SlotsApart
<1>2. \A q \in Players : inputTimelines'[q][Slot(t)] = inputTimelines[q][Slot(t)]
  BY <1>1 DEF WritesOnly
<1>3. Inputs(t)' = Inputs(t)
  BY <1>2 DEF Inputs, InputAt
<1> QED BY <1>2, <1>3

(* The systems read from the slot what the message said.                   *)
LEMMA RecordIsRead ==
    ASSUME NEW m \in Message, inputTimelines[m.player][Slot(m.tick)] = RecordOf(m)
    PROVE  Inputs(m.tick)[m.player] = ColumnOf(m)
BY MessageRecordType DEF Inputs, InputAt, RecordOf, ColumnOf

LEMMA ApplyInputKeeps ==
    ASSUME IInv, NEW m \in peerInput, ApplyInput(m)
    PROVE  CoverInv' /\ PrefixInv' /\ FollowInv' /\ HeardInv'
<1> USE PunctualAssumption
<1>1. /\ UNCHANGED <<phase, states, tick, world, snapshots>>
      /\ phase = "Packets"
      /\ inputTimelines' = [inputTimelines EXCEPT ![m.player][Slot(m.tick)] = RecordOf(m)]
      /\ latestTick' = IF m.tick < latestTick THEN m.tick ELSE latestTick
      /\ heard' = heard \cup {m}
      /\ punctual' => punctual /\ tick - MaxLate <= m.tick /\ m.tick <= tick + MaxAhead
  BY DEF ApplyInput, SetLatestTick, RecordOf, Punctual
<1>2. /\ m \in Message /\ m.tick \in Nat /\ m.player \in Players
      /\ tick \in Nat /\ latestTick \in Nat /\ TypeOK
  BY MessageRecordType DEF IInv, TypeOK
<1>3. CoverInv' /\ PrefixInv'
  <2>1. Window' = Window
    BY <1>1 DEF Window
  <2> QED BY <1>1, <2>1 DEF IInv, CoverInv, PrefixInv
<1>4. \A t \in Int : Settled(t)' => Settled(t) /\ t < m.tick
  BY <1>1, <1>2 DEF Settled
<1>5. ASSUME punctual', NEW t \in Nat, t >= tick - MaxLate, t <= tick + MaxAhead
      PROVE  /\ \A q \in Players : q # m.player \/ t # m.tick =>
                   inputTimelines'[q][Slot(t)] = inputTimelines[q][Slot(t)]
             /\ inputTimelines'[m.player][Slot(m.tick)] = RecordOf(m)
             /\ t # m.tick => Inputs(t)' = Inputs(t)
  <2>1. t - m.tick < ROLLBACK_WINDOW /\ m.tick - t < ROLLBACK_WINDOW
    BY <1>1, <1>2, <1>5, WindowAssumption
  <2>2. WritesOnly(m.player, m.tick) /\ inputTimelines'[m.player][Slot(m.tick)] = RecordOf(m)
    BY <1>1, <1>2, SlotType DEF TypeOK, WritesOnly
  <2>3. CASE t = m.tick
    <3>1. Slot(t) \in Slots
      BY SlotType
    <3> QED BY <2>2, <2>3, <3>1 DEF WritesOnly
  <2>4. CASE t # m.tick
    BY <1>2, <2>1, <2>2, <2>4, TimelineWrite
  <2> QED BY <2>2, <2>3, <2>4
<1>6. FollowInv'
  <2> SUFFICES ASSUME punctual', NEW t \in Nat, Settled(t)', t >= tick' - MaxLate
               PROVE  world'[t + 1] = Inputs(t)'
    BY DEF FollowInv
  <2>1. Settled(t) /\ t < m.tick /\ t < tick
    BY <1>4 DEF Settled
  <2>2. world[t + 1] = Inputs(t)
    BY <1>1, <2>1 DEF IInv, FollowInv
  <2>3. Inputs(t)' = Inputs(t)
    BY <1>1, <1>2, <1>5, <2>1
  <2> QED BY <1>1, <2>2, <2>3
<1>7. HeardInv'
  <2> SUFFICES ASSUME punctual', NEW n \in heard'
               PROVE  /\ n.tick <= tick + MaxAhead
                      /\ n.tick >= tick - MaxLate =>
                            inputTimelines'[n.player][Slot(n.tick)] = RecordOf(n)
                      /\ Settled(n.tick)' => world[n.tick + 1][n.player] = ColumnOf(n)
    BY <1>1, Zenon DEF HeardInv
  <2>1. CASE n = m
    <3>1. m.tick <= tick + MaxAhead /\ m.tick >= tick - MaxLate
      BY <1>1
    <3>2. inputTimelines'[m.player][Slot(m.tick)] = RecordOf(m)
      BY <1>2, <1>5, <3>1
    <3>3. ~ Settled(m.tick)'
      BY <1>2, <1>4
    <3> QED BY <2>1, <3>1, <3>2, <3>3
  <2>2. CASE n # m
    <3>1. n \in heard /\ n \in peerInput /\ n.tick \in Nat /\ n.player \in Players
      BY <1>1, <1>2, <2>2, HeardIsTyped DEF HeardType, TypeOK
    <3>2. n.player # m.player \/ n.tick # m.tick
      BY <2>2, <3>1 DEF IInv, PeersInv
    <3>3. /\ n.tick <= tick + MaxAhead
          /\ n.tick >= tick - MaxLate => inputTimelines[n.player][Slot(n.tick)] = RecordOf(n)
          /\ Settled(n.tick) => world[n.tick + 1][n.player] = ColumnOf(n)
      BY <1>1, <3>1 DEF IInv, HeardInv
    <3> QED BY <1>4, <1>5, <3>1, <3>2, <3>3
  <2> QED BY <2>1, <2>2
<1> QED BY <1>3, <1>6, <1>7

(* The recorder writes the record of the tick that is simulated next.      *)
LEMMA RecordInputKeeps ==
    ASSUME IInv, NEW k \in 0 .. MAX_SIMULATION_NUM, RecordInput(k)
    PROVE  CoverInv' /\ PrefixInv' /\ FollowInv' /\ HeardInv'
<1> USE PunctualAssumption
<1>1. /\ UNCHANGED <<states, tick, world, snapshots, heard, punctual>>
      /\ phase = "Input" /\ phase' = "Simulate"
      /\ inputTimelines' = [inputTimelines EXCEPT ![Me][Slot(tick)] = curr]
  BY DEF RecordInput, netVars
<1>2. tick \in Nat /\ TypeOK
  BY DEF IInv, TypeOK
<1>3. CoverInv' /\ PrefixInv'
  <2>1. Window' = Window
    BY <1>1 DEF Window
  <2> QED BY <1>1, <2>1 DEF IInv, CoverInv, PrefixInv
<1>4. \A t \in Int : Settled(t)' = Settled(t)
  BY <1>1 DEF Settled
<1>5. FollowInv'
  <2> SUFFICES ASSUME punctual', NEW t \in Nat, Settled(t)', t >= tick' - MaxLate
               PROVE  world'[t + 1] = Inputs(t)'
    BY DEF FollowInv
  <2>1. Settled(t) /\ t < tick
    BY <1>4 DEF Settled
  <2>2. t - tick < ROLLBACK_WINDOW /\ tick - t < ROLLBACK_WINDOW
    BY <1>1, <1>2, <2>1, WindowAssumption
  <2>3. Inputs(t)' = Inputs(t)
    <3>1. WritesOnly(Me, tick)
      BY <1>1, <1>2, SlotType, PlayersAssumption DEF TypeOK, WritesOnly
    <3> QED BY <1>2, <2>1, <2>2, <3>1, TimelineWrite, PlayersAssumption
  <2> QED BY <1>1, <2>1, <2>3 DEF IInv, FollowInv
<1>6. HeardInv'
  <2>1. \A n \in heard : n \in peerInput /\ n.player \in Players /\ n.player # Me
                         /\ Slot(n.tick) \in Slots /\ n.tick \in Nat
    BY <1>2, HeardIsTyped DEF TypeOK, HeardType, IInv, PeersInv
  <2>2. \A n \in heard : inputTimelines'[n.player][Slot(n.tick)]
                            = inputTimelines[n.player][Slot(n.tick)]
    BY <1>1, <1>2, <2>1 DEF TypeOK
  <2> QED BY <1>1, <1>4, <2>1, <2>2 DEF IInv, HeardInv
<1> QED BY <1>3, <1>5, <1>6

-----------------------------------------------------------------------------
(* One tick more.                                                          *)
LEMMA SimulateTickKeeps ==
    ASSUME IInv, SimulateTick
    PROVE  CoverInv' /\ PrefixInv' /\ FollowInv' /\ HeardInv'
<1> USE PunctualAssumption
<1>1. /\ UNCHANGED <<states, inputTimelines, heard, punctual>>
      /\ phase = "Simulate" /\ phase' = "Simulate"
      /\ world' = Append(world, Inputs(tick))
      /\ tick' = tick + 1
      /\ snapshots' = [snapshots EXCEPT ![Slot(tick + 1)] = Capture(world', tick + 1)]
  BY DEF SimulateTick
<1>2. tick \in Nat /\ TypeOK /\ world \in Seq(Column) /\ Inputs(tick) \in Column
  BY InputsType DEF IInv, TypeOK, Column
<1>3. /\ world' \in Seq(Column)
      /\ Len(world') = Len(world) + 1
      /\ \A i \in 1 .. Len(world) : world'[i] = world[i]
      /\ world'[Len(world) + 1] = Inputs(tick)
  BY <1>1, <1>2, AppendProperties
<1>4. snapshots'[Slot(tick + 1)] = Capture(world', tick + 1)
  BY <1>1, <1>2, SlotType DEF TypeOK
<1>5. ASSUME NEW t \in Window', t # tick + 1
      PROVE  t \in Window /\ snapshots'[Slot(t)] = snapshots[Slot(t)]
  <2>1. t \in Window /\ t \in Int /\ t - (tick + 1) < ROLLBACK_WINDOW
        /\ (tick + 1) - t < ROLLBACK_WINDOW
    BY <1>1, <1>2, <1>5, WindowAssumption DEF Window
  <2>2. Slot(t) \in Slots /\ Slot(t) # Slot(tick + 1)
    BY <1>2, <1>5, <2>1, SlotType, SlotsApart
  <2> QED BY <1>1, <1>2, <2>1, <2>2 DEF TypeOK
<1>6. CoverInv'
  <2> SUFFICES ASSUME NEW t \in Window'
               PROVE  snapshots'[Slot(t)].tick = t /\ snapshots'[Slot(t)].state = states
    BY <1>1 DEF CoverInv
  <2>1. CASE t = tick + 1
    BY <1>4, <2>1 DEF Capture
  <2>2. CASE t # tick + 1
    BY <1>5, <2>2 DEF IInv, CoverInv
  <2> QED BY <2>1, <2>2
<1>7. punctual => Len(world) = tick
  BY DEF IInv, PrefixInv
<1>8. PrefixInv'
  <2> SUFFICES ASSUME punctual, NEW t \in Window'
               PROVE  snapshots'[Slot(t)].world = SubSeq(world', 1, t)
    BY <1>1, <1>3, <1>7 DEF PrefixInv
  <2>1. CASE t = tick + 1
    <3>1. snapshots'[Slot(t)].world = world'
      BY <1>4, <2>1 DEF Capture
    <3>2. world' = SubSeq(world', 1, Len(world'))
      BY <1>3, PrefixEqual
    <3> QED BY <1>3, <1>7, <2>1, <3>1, <3>2
  <2>2. CASE t # tick + 1
    <3> DEFINE v == SubSeq(world, 1, t)
    <3>1. snapshots'[Slot(t)].world = v
      BY <1>5, <2>2 DEF IInv, PrefixInv
    <3>2. t \in Nat /\ t <= Len(world)
      BY <1>5, <1>2, <1>7, <2>2 DEF Window
    <3>3. v \in Seq(Column) /\ Len(v) = t /\ \A i \in 1 .. t : v[i] = world[i]
      BY <1>2, <3>2, PrefixProperties
    <3> HIDE DEF v
    <3>4. Len(v) <= Len(world') /\ \A i \in 1 .. Len(v) : v[i] = world'[i]
      BY <1>2, <1>3, <3>2, <3>3
    <3>5. v = SubSeq(world', 1, Len(v))
      BY <1>3, <3>3, <3>4, PrefixEqual
    <3> QED BY <3>1, <3>3, <3>5
  <2> QED BY <2>1, <2>2
<1>9. ASSUME NEW t \in Nat, Settled(t)', t # tick
      PROVE  Settled(t) /\ (punctual => world'[t + 1] = world[t + 1])
  <2>1. t < tick
    BY <1>1, <1>2, <1>9 DEF Settled
  <2>2. Settled(t)
    BY <1>1, <2>1 DEF Settled
  <2> QED BY <1>2, <1>3, <1>7, <2>1, <2>2
<1>10. punctual => world'[tick + 1] = Inputs(tick)
  BY <1>3, <1>7
<1>11. \A t \in Nat : Inputs(t)' = Inputs(t)
  BY <1>1 DEF Inputs, InputAt
<1>12. FollowInv'
  <2> SUFFICES ASSUME punctual', NEW t \in Nat, Settled(t)', t >= tick' - MaxLate
               PROVE  world'[t + 1] = Inputs(t)'
    BY DEF FollowInv
  <2>1. CASE t = tick
    BY <1>1, <1>10, <1>11, <2>1
  <2>2. CASE t # tick
    <3>1. Settled(t) /\ t >= tick - MaxLate /\ punctual
      BY <1>1, <1>2, <1>9, <2>2
    <3>2. world'[t + 1] = world[t + 1] /\ world[t + 1] = Inputs(t)
      BY <1>9, <2>2, <3>1 DEF IInv, FollowInv
    <3> QED BY <1>11, <3>1, <3>2
  <2> QED BY <2>1, <2>2
<1>13. HeardInv'
  <2> SUFFICES ASSUME punctual', NEW m \in heard'
               PROVE  /\ m.tick <= tick' + MaxAhead
                      /\ m.tick >= tick' - MaxLate =>
                            inputTimelines'[m.player][Slot(m.tick)] = RecordOf(m)
                      /\ Settled(m.tick)' => world'[m.tick + 1][m.player] = ColumnOf(m)
    BY Zenon DEF HeardInv
  <2>0. tick' = tick + 1 /\ inputTimelines' = inputTimelines /\ punctual /\ m \in heard
    BY <1>1
  <2>1. m \in Message /\ m.tick \in Nat
    BY <1>2, <2>0, HeardIsTyped DEF HeardType
  <2>2. /\ m.tick <= tick + MaxAhead
        /\ m.tick >= tick - MaxLate => inputTimelines[m.player][Slot(m.tick)] = RecordOf(m)
        /\ Settled(m.tick) => world[m.tick + 1][m.player] = ColumnOf(m)
    BY <2>0 DEF IInv, HeardInv
  <2>3. CASE m.tick = tick
    <3>1. inputTimelines[m.player][Slot(m.tick)] = RecordOf(m)
      BY <1>2, <2>2, <2>3
    <3> QED BY <1>2, <1>10, <2>0, <2>1, <2>2, <2>3, <3>1, RecordIsRead
  <2>4. CASE m.tick # tick
    <3>1. Settled(m.tick)' => Settled(m.tick) /\ world'[m.tick + 1] = world[m.tick + 1]
      BY <1>9, <2>0, <2>1, <2>4
    <3> QED BY <1>2, <2>0, <2>1, <2>2, <3>1
  <2> QED BY <2>3, <2>4
<1> QED BY <1>6, <1>8, <1>12, <1>13

-----------------------------------------------------------------------------
(* Rollback.                                                               *)

(* The world of latestTick is restored, and the ticks since are simulated  *)
(* with the inputs that are known now.                                     *)
LEMMA RollbackWorld ==
    ASSUME IInv, Rollback, latestTick < tick, punctual
    PROVE  /\ Restored(latestTick) \in Seq(Column)
           /\ Len(Restored(latestTick)) = latestTick
           /\ \A i \in 1 .. latestTick : Restored(latestTick)[i] = world[i]
           /\ world' \in Seq(Column)
           /\ Len(world') = tick
           /\ \A i \in 1 .. latestTick : world'[i] = world[i]
           /\ \A t \in Nat : latestTick <= t /\ t < tick => world'[t + 1] = Inputs(t)
<1> DEFINE L == latestTick
           w == Restored(L)
<1>1. L \in Nat /\ tick \in Nat /\ world \in Seq(Column) /\ TypeOK /\ L < tick
  BY DEF IInv, TypeOK, Column
<1>2. L \in Window
  <2>1. phase = "Packets" => L >= tick - MaxLate
    BY DEF IInv, StageInv
  <2>2. L >= tick - MaxLate
    BY <2>1 DEF Rollback
  <2> QED BY <1>1, <2>2, PunctualAssumption, WindowAssumption DEF Window
<1>3. w = SubSeq(world, 1, L)
  BY <1>2 DEF IInv, CoverInv, PrefixInv, Restored
<1>4. L <= Len(world)
  BY <1>1 DEF IInv, PrefixInv
<1>5. w \in Seq(Column) /\ Len(w) = L /\ \A i \in 1 .. L : w[i] = world[i]
  BY <1>1, <1>3, <1>4, PrefixProperties
<1>6. world' = Resimulated(w, L, tick)
  BY DEF Rollback
<1> HIDE DEF L, w
<1>7. Continues(world', w, L, tick)
  <2>1. L <= tick /\ inputTimelines \in [Players -> [Slots -> InputRecord]]
    BY <1>1 DEF TypeOK
  <2> QED BY <1>1, <1>5, <1>6, <2>1, ResimulatedProperties
<1>8. \A t \in Nat : L <= t /\ t < tick => world'[t + 1] = Inputs(t)
  <2> SUFFICES ASSUME NEW t \in Nat, L <= t, t < tick PROVE world'[t + 1] = Inputs(t)
    OBVIOUS
  <2> DEFINE i == t + 1 - L
  <2>1. i \in 1 .. tick - L /\ L + i = t + 1 /\ L + i - 1 = t
    BY <1>1
  <2> HIDE DEF i
  <2> QED BY <1>5, <1>7, <2>1 DEF Continues
<1>9. Len(world') = tick /\ \A i \in 1 .. L : world'[i] = world[i]
  BY <1>1, <1>5, <1>7 DEF Continues
<1> QED BY <1>5, <1>7, <1>8, <1>9 DEF L, w, Continues

LEMMA RollbackCaptures ==
    ASSUME IInv, Rollback, latestTick < tick, NEW t \in Window
    PROVE  /\ t > latestTick =>
                 /\ snapshots'[Slot(t)].tick = t
                 /\ snapshots'[Slot(t)].state = states
                 /\ snapshots'[Slot(t)].world = Resimulated(Restored(latestTick), latestTick, t)
           /\ ~ (t > latestTick) => snapshots'[Slot(t)] = snapshots[Slot(t)]
<1> DEFINE w == Resimulated(Restored(latestTick), latestTick, t)
<1>1. tick \in Nat /\ t \in Int
  BY DEF IInv, TypeOK, Window
<1>2. Slot(t) \in Slots /\ LatestIn(Slot(t)) = t
  BY <1>1, SlotType, LatestInSlot
<1>3. snapshots'[Slot(t)] = IF t > latestTick THEN Capture(w, t) ELSE snapshots[Slot(t)]
  BY <1>2 DEF Rollback
<1> HIDE DEF w
<1>4. /\ Capture(w, t).tick = t
      /\ Capture(w, t).state = states
      /\ Capture(w, t).world = w
  BY DEF Capture
<1> QED BY <1>3, <1>4 DEF w

LEMMA RollbackKeeps ==
    ASSUME IInv, Rollback
    PROVE  CoverInv' /\ PrefixInv' /\ FollowInv' /\ HeardInv'
<1> DEFINE L == latestTick
           w == Restored(L)
<1>1. /\ UNCHANGED <<states, tick, inputTimelines, heard, punctual>>
      /\ phase = "Packets" /\ phase' = "Input"
  BY DEF Rollback, netVars
<1>2. L \in Nat /\ tick \in Nat /\ TypeOK /\ world \in Seq(Column)
  BY DEF IInv, TypeOK, Column
<1>3. L <= tick /\ (punctual => L >= tick - MaxLate)
  BY <1>1 DEF IInv, StageInv
<1>4. CASE ~ (L < tick)
  <2>1. UNCHANGED <<world, snapshots>>
    BY <1>4 DEF Rollback
  <2>2. \A t \in Int : Settled(t)' = Settled(t)
    BY <1>1, <1>2, <1>3, <1>4 DEF Settled
  <2>3. Quiet
    BY <1>1, <2>1, <2>2 DEF Quiet
  <2> QED BY <2>3, QuietKeeps
<1>5. CASE L < tick
  <2> USE <1>5
  <2>1. Window' = Window /\ \A t \in Window : t \in Nat /\ t <= tick
    BY <1>1 DEF Window
  <2>2. CoverInv'
    <3> SUFFICES ASSUME NEW t \in Window
                 PROVE  snapshots'[Slot(t)].tick = t /\ snapshots'[Slot(t)].state = states
      BY <1>1, <2>1 DEF CoverInv
    <3>1. CASE t > L
      BY <3>1, RollbackCaptures
    <3>2. CASE ~ (t > L)
      BY <3>2, RollbackCaptures DEF IInv, CoverInv
    <3> QED BY <3>1, <3>2
  <2>3. ASSUME punctual
        PROVE  /\ w \in Seq(Column) /\ Len(w) = L
               /\ \A i \in 1 .. L : w[i] = world[i]
               /\ world' \in Seq(Column) /\ Len(world') = tick
               /\ \A i \in 1 .. L : world'[i] = world[i]
               /\ \A t \in Nat : L <= t /\ t < tick => world'[t + 1] = Inputs(t)
    BY <2>3, RollbackWorld
  <2>4. PrefixInv'
    <3>0. punctual' => Len(world') = tick'
      BY <1>1, <2>3
    <3> SUFFICES ASSUME punctual', NEW t \in Window'
                 PROVE  snapshots'[Slot(t)].world = SubSeq(world', 1, t)
      BY <3>0, Zenon DEF PrefixInv
    <3>1. t \in Window /\ t \in Nat /\ t <= tick /\ punctual /\ tick' = tick
      BY <1>1, <2>1
    <3>2. CASE t > L
      <4>1. snapshots'[Slot(t)].world = Resimulated(w, L, t)
        BY <3>1, <3>2, RollbackCaptures
      <4>2. /\ w \in Seq(Column) /\ Len(w) = L /\ t \in Nat /\ L \in Nat
            /\ L <= t /\ t <= tick
            /\ inputTimelines \in [Players -> [Slots -> InputRecord]]
        BY <1>2, <2>3, <3>1, <3>2 DEF TypeOK
      <4>3. world' = Resimulated(w, L, tick)
        BY DEF Rollback
      <4> HIDE DEF w, L
      <4>4. Resimulated(w, L, t) = SubSeq(Resimulated(w, L, tick), 1, t)
        BY <1>2, <4>2, ResimulatedPrefix
      <4> QED BY <2>3, <3>1, <4>1, <4>3, <4>4
    <3>3. CASE ~ (t > L)
      <4>1. snapshots'[Slot(t)].world = SubSeq(world, 1, t)
        BY <3>1, <3>3, RollbackCaptures DEF IInv, PrefixInv
      <4>2. t <= L /\ t <= Len(world) /\ t <= Len(world')
        BY <1>2, <2>3, <3>1, <3>3 DEF IInv, PrefixInv
      <4>3. \A i \in 1 .. t : world[i] = world'[i]
        BY <1>2, <2>3, <3>1, <4>2
      <4>4. SubSeq(world, 1, t) = SubSeq(world', 1, t)
        BY <1>2, <2>3, <3>1, <4>2, <4>3, SamePrefix
      <4> QED BY <2>3, <3>1, <4>1, <4>4
    <3> QED BY <3>2, <3>3
  <2>5. \A t \in Nat : Inputs(t)' = Inputs(t)
    BY <1>1 DEF Inputs, InputAt
  <2>6. ASSUME punctual, NEW t \in Nat, t < L
        PROVE  Settled(t) /\ world'[t + 1] = world[t + 1]
    <3>1. t + 1 \in 1 .. L
      BY <1>2, <2>6
    <3> QED BY <1>1, <1>2, <2>3, <2>6, <3>1 DEF Settled
  <2>7. FollowInv'
    <3> SUFFICES ASSUME punctual', NEW t \in Nat, Settled(t)', t >= tick' - MaxLate
                 PROVE  world'[t + 1] = Inputs(t)'
      BY DEF FollowInv
    <3>1. punctual /\ t < tick /\ t >= tick - MaxLate
      BY <1>1 DEF Settled
    <3>2. CASE t < L
      <4>1. Settled(t) /\ world'[t + 1] = world[t + 1]
        BY <2>6, <3>1, <3>2
      <4>2. world[t + 1] = Inputs(t)
        BY <3>1, <4>1 DEF IInv, FollowInv
      <4> QED BY <2>5, <4>1, <4>2
    <3>3. CASE ~ (t < L)
      BY <1>2, <2>3, <2>5, <3>1, <3>3
    <3> QED BY <3>2, <3>3
  <2>8. HeardInv'
    <3> SUFFICES ASSUME punctual', NEW m \in heard'
                 PROVE  /\ m.tick <= tick' + MaxAhead
                        /\ m.tick >= tick' - MaxLate =>
                              inputTimelines'[m.player][Slot(m.tick)] = RecordOf(m)
                        /\ Settled(m.tick)' => world'[m.tick + 1][m.player] = ColumnOf(m)
      BY Zenon DEF HeardInv
    <3>1. /\ punctual /\ m \in heard /\ tick' = tick /\ inputTimelines' = inputTimelines
          /\ m \in Message /\ m.tick \in Nat
      BY <1>1, <1>2, HeardIsTyped DEF HeardType
    <3>2. /\ m.tick <= tick + MaxAhead
          /\ m.tick >= tick - MaxLate => inputTimelines[m.player][Slot(m.tick)] = RecordOf(m)
          /\ Settled(m.tick) => world[m.tick + 1][m.player] = ColumnOf(m)
      BY <3>1 DEF IInv, HeardInv
    <3>3. ASSUME Settled(m.tick)'
          PROVE  world'[m.tick + 1][m.player] = ColumnOf(m)
      <4>1. m.tick < tick
        BY <1>1, <3>3 DEF Settled
      <4>2. CASE m.tick < L
        BY <2>6, <3>1, <3>2, <4>2
      <4>3. CASE ~ (m.tick < L)
        <5>1. world'[m.tick + 1] = Inputs(m.tick)
          BY <1>2, <2>3, <3>1, <4>1, <4>3
        <5>2. m.tick >= tick - MaxLate
          BY <1>2, <1>3, <3>1, <4>3, PunctualAssumption
        <5> QED BY <3>1, <3>2, <5>1, <5>2, RecordIsRead
      <4> QED BY <4>2, <4>3
    <3> QED BY <3>1, <3>2, <3>3
  <2> QED BY <2>2, <2>4, <2>7, <2>8
<1> QED BY <1>4, <1>5

-----------------------------------------------------------------------------
LEMMA StepKeepsInvariant ==
    ASSUME IInv, [Next]_vars
    PROVE  IInv'
<1>1. TypeOK' /\ StageInv' /\ PeersInv'
  BY StepKeepsTypes, StepKeepsStage, StepKeepsPeers DEF IInv
<1>2. CoverInv' /\ PrefixInv' /\ FollowInv' /\ HeardInv'
  <2>1. CASE ChangeState
    BY <2>1, ChangeStateKeeps
  <2>2. CASE \E m \in peerInput : ApplyInput(m)
    BY <2>2, ApplyInputKeeps
  <2>3. CASE Rollback
    BY <2>3, RollbackKeeps
  <2>4. CASE \E n \in 0 .. MAX_SIMULATION_NUM : RecordInput(n)
    BY <2>4, RecordInputKeeps
  <2>5. CASE SimulateTick
    BY <2>5, SimulateTickKeeps
  <2>6. CASE \/ SetNextState \/ ProcessNetPackets \/ EndFrame \/ UNCHANGED vars
             \/ \E p \in Players \ {Me}, t \in 0 .. MaxTick - 1, i \in PeerInputs :
                   PeerSends(p, t, i)
             \/ \E c \in Codes, a \in {"GLFW_PRESS", "GLFW_REPEAT", "GLFW_RELEASE"} :
                   OnKeyEvent(c, a)
    <3>1. Quiet
      BY <2>6, QuietSteps DEF IInv
    <3> QED BY <3>1, QuietKeeps
  <2> QED BY <2>1, <2>2, <2>3, <2>4, <2>5, <2>6 DEF Next
<1> QED BY <1>1, <1>2 DEF IInv

THEOREM InvariantHolds == Spec => []IInv
<1>1. Init => IInv
  BY InitInvariant
<1>2. IInv /\ [Next]_vars => IInv'
  BY StepKeepsInvariant
<1> QED BY <1>1, <1>2, PTL DEF Spec

(* The variables of the engine hold values of their types.                 *)
THEOREM TypeCorrect == Spec => []TypeOK
<1>1. IInv => TypeOK
  BY DEF IInv
<1> QED BY <1>1, InvariantHolds, PTL

(* RollbackManager: the slots of the window hold the captures of their own *)
(* ticks in the world that is simulated, and, as long as the inputs were   *)
(* punctual, what the world is up to that tick with all that is known.     *)
THEOREM WindowIsCovered == Spec => []SnapshotsCoverWindow
<1>1. IInv => SnapshotsCoverWindow
  BY DEF IInv, CoverInv, PrefixInv, SnapshotsCoverWindow
<1> QED BY <1>1, InvariantHolds, PTL

(* Engine::Rollback: the world is the one the timelines imply.             *)
THEOREM WorldIsOfTimelines == Spec => []WorldFollowsTimelines
<1>1. IInv => WorldFollowsTimelines
  <2> SUFFICES ASSUME IInv, punctual, phase # "Packets", NEW t \in 0 .. tick - 1, t >= tick - MaxLate
               PROVE  world[t + 1] = Inputs(t)
    BY DEF WorldFollowsTimelines
  <2>1. t \in Nat /\ t < tick /\ Settled(t)
    BY DEF IInv, TypeOK, Settled
  <2> QED BY <2>1 DEF IInv, FollowInv
<1> QED BY <1>1, InvariantHolds, PTL

(* Every INPUT that was received while all were punctual is applied to the *)
(* tick and the player it is of.                                           *)
THEOREM HeardInputIsApplied == Spec => []HeardIsApplied
<1>1. IInv => HeardIsApplied
  <2> SUFFICES ASSUME IInv, punctual, phase # "Packets", NEW m \in heard, m.tick < tick
               PROVE  world[m.tick + 1][m.player] = [held |-> m.held, down |-> m.down]
    BY DEF HeardIsApplied
  <2>1. Settled(m.tick)
    BY DEF Settled
  <2> QED BY <2>1 DEF IInv, HeardInv, ColumnOf
<1> QED BY <1>1, InvariantHolds, PTL

-----------------------------------------------------------------------------
(* Key presses.                                                            *)

(* InitKeyActionMap and the switch of ConvertKeyGLFW bind no intent twice. *)
OneKeyPerIntent ==
    \A c, d \in Codes :
        c # d => IntentsOfKey(ConvertKeyGLFW(c)) \cap IntentsOfKey(ConvertKeyGLFW(d)) = {}

(* The record follows the keyboard, also across repeats and releases.      *)
KeysInv ==
    /\ curr.held = IntentsDown
    /\ prev.held = heldBefore
    /\ curr.down = pressed \ heldBefore
    /\ IntentsDown \subseteq heldBefore \cup pressed

(* In the first state the record is of the tick that is next, is in its    *)
(* slot when that tick is simulated, and is in the world from then on.     *)
RecordInv ==
    /\ states = 0 => phase = "Frame" /\ tick = 0 /\ curr.tick = 0
    /\ states = 1 /\ phase # "Simulate" => curr.tick = tick
    /\ states = 1 /\ phase = "Simulate" =>
          /\ curr.tick <= tick
          /\ curr.tick = tick => inputTimelines[Me][Slot(tick)] = curr
          /\ punctual /\ curr.tick < tick => world[curr.tick + 1][Me] = ColumnOf(curr)

LEMMA IntentsDownChange ==
    ASSUME NEW c \in Codes
    PROVE  /\ keysDown' = keysDown \cup {c} =>
                IntentsDown' = IntentsDown \cup IntentsOfKey(ConvertKeyGLFW(c))
           /\ OneKeyPerIntent /\ keysDown \subseteq Codes /\ keysDown' = keysDown \ {c} /\ c \in keysDown =>
                IntentsDown' = IntentsDown \ IntentsOfKey(ConvertKeyGLFW(c))
<1>1. ASSUME keysDown' = keysDown \cup {c}
      PROVE  IntentsDown' = IntentsDown \cup IntentsOfKey(ConvertKeyGLFW(c))
  <2>1. \A i : i \in IntentsDown' <=>
               \E d \in keysDown \cup {c} : i \in IntentsOfKey(ConvertKeyGLFW(d))
    BY <1>1 DEF IntentsDown, IntentsOfKey, ConvertKeyGLFW
  <2>2. \A i : i \in IntentsDown <=> \E d \in keysDown : i \in IntentsOfKey(ConvertKeyGLFW(d))
    BY DEF IntentsDown
  <2> QED BY <2>1, <2>2
<1>2. ASSUME OneKeyPerIntent, keysDown \subseteq Codes, keysDown' = keysDown \ {c}, c \in keysDown
      PROVE  IntentsDown' = IntentsDown \ IntentsOfKey(ConvertKeyGLFW(c))
  <2>1. \A i : i \in IntentsDown' <=>
               \E d \in keysDown \ {c} : i \in IntentsOfKey(ConvertKeyGLFW(d))
    BY <1>2 DEF IntentsDown, IntentsOfKey, ConvertKeyGLFW
  <2>2. \A i : i \in IntentsDown <=> \E d \in keysDown : i \in IntentsOfKey(ConvertKeyGLFW(d))
    BY DEF IntentsDown
  <2>3. \A d \in keysDown \ {c} : \A i \in IntentsOfKey(ConvertKeyGLFW(d)) :
           i \notin IntentsOfKey(ConvertKeyGLFW(c))
    BY <1>2 DEF OneKeyPerIntent
  <2> QED BY <2>1, <2>2, <2>3
<1> QED BY <1>1, <1>2

(* A press, a repeat and a release of a key.                               *)
LEMMA KeyEventKeeps ==
    ASSUME OneKeyPerIntent, TypeOK, KeysInv, NEW c \in Codes,
           NEW a \in {"GLFW_PRESS", "GLFW_REPEAT", "GLFW_RELEASE"}, OnKeyEvent(c, a)
    PROVE  KeysInv' /\ curr'.tick = curr.tick
<1> DEFINE I == IntentsOfKey(ConvertKeyGLFW(c))
<1>0. keysDown \subseteq Codes /\ curr \in InputRecord
  BY DEF TypeOK
<1>1. UNCHANGED <<prev, heldBefore>>
  BY DEF OnKeyEvent
<1>2. CASE a = "GLFW_RELEASE"
  <2>1. c \in keysDown /\ keysDown' = keysDown \ {c} /\ pressed' = pressed
    BY <1>2 DEF OnKeyEvent
  <2>2. IntentsDown' = IntentsDown \ I
    BY <1>0, <2>1, IntentsDownChange
  <2>3. curr' = [curr EXCEPT !.held = curr.held \ I]
    BY <1>2 DEF OnKeyEvent, UpdateInputKey, ConvertActionGLFW
  <2> HIDE DEF I
  <2>4. curr'.held = curr.held \ I /\ curr'.down = curr.down /\ curr'.tick = curr.tick
    BY <1>0, <2>3 DEF InputRecord
  <2> QED BY <1>1, <2>1, <2>2, <2>4 DEF KeysInv
<1>3. CASE a # "GLFW_RELEASE"
  <2>1. keysDown' = keysDown \cup {c}
    BY <1>3 DEF OnKeyEvent
  <2>2. IntentsDown' = IntentsDown \cup I
    BY <2>1, IntentsDownChange
  <2>3. curr' = [curr EXCEPT !.down = curr.down \cup (I \ prev.held), !.held = curr.held \cup I]
    BY <1>3 DEF OnKeyEvent, UpdateInputKey, ConvertActionGLFW
  <2>4. pressed' = IF a = "GLFW_PRESS" THEN pressed \cup I ELSE pressed
    BY DEF OnKeyEvent
  <2>5. a # "GLFW_PRESS" => I \subseteq IntentsDown
    <3>1. a # "GLFW_PRESS" => c \in keysDown
      BY DEF OnKeyEvent
    <3> QED BY <3>1 DEF IntentsDown
  <2> HIDE DEF I
  <2>6. /\ curr'.held = curr.held \cup I
        /\ curr'.down = curr.down \cup (I \ prev.held)
        /\ curr'.tick = curr.tick
    BY <1>0, <2>3 DEF InputRecord
  <2> QED BY <1>1, <2>2, <2>4, <2>5, <2>6 DEF KeysInv
<1> QED BY <1>2, <1>3

(* The recorder begins a new record.                                       *)
LEMMA ResetKeeps ==
    ASSUME TypeOK, KeysInv, EndFrame
    PROVE  /\ KeysInv'
           /\ curr'.tick = tick
<1>0. curr \in InputRecord /\ tick \in Nat
  BY DEF TypeOK
<1>1. keysDown' = keysDown
  BY DEF EndFrame
<1>2. IntentsDown' = IntentsDown
  BY <1>1 DEF IntentsDown, IntentsOfKey, ConvertKeyGLFW
<1>3. CASE curr.tick # tick
  <2>1. /\ prev' = curr /\ heldBefore' = IntentsDown /\ pressed' = {}
        /\ curr' = [curr EXCEPT !.tick = tick, !.down = {}]
    BY <1>3 DEF EndFrame, ResetInputRecords
  <2>2. curr'.held = curr.held /\ curr'.down = {} /\ curr'.tick = tick
    BY <1>0, <2>1 DEF InputRecord
  <2> QED BY <1>2, <2>1, <2>2 DEF KeysInv
<1>4. CASE curr.tick = tick
  <2>1. UNCHANGED <<prev, curr, heldBefore, pressed>>
    BY <1>4 DEF EndFrame, ResetInputRecords
  <2> QED BY <1>2, <1>4, <2>1 DEF KeysInv
<1> QED BY <1>3, <1>4

LEMMA StepKeepsKeys ==
    ASSUME OneKeyPerIntent, IInv, KeysInv, [Next]_vars
    PROVE  KeysInv'
<1>0. TypeOK
  BY DEF IInv
<1>1. CASE EndFrame
  BY <1>0, <1>1, ResetKeeps
<1>2. CASE \E c \in Codes, a \in {"GLFW_PRESS", "GLFW_REPEAT", "GLFW_RELEASE"} : OnKeyEvent(c, a)
  BY <1>0, <1>2, KeyEventKeeps
<1>3. CASE UNCHANGED <<prev, curr, keysDown, heldBefore, pressed>>
  <2>1. IntentsDown' = IntentsDown
    BY <1>3 DEF IntentsDown, IntentsOfKey, ConvertKeyGLFW
  <2> QED BY <1>3, <2>1 DEF KeysInv
<1> QED
  BY <1>1, <1>2, <1>3
  DEF Next, vars, inputVars, SetNextState, ChangeState, ProcessNetPackets, PeerSends,
      ApplyInput, Rollback, RecordInput, SimulateTick

LEMMA StepKeepsRecord ==
    ASSUME OneKeyPerIntent, IInv, KeysInv, RecordInv, [Next]_vars
    PROVE  RecordInv'
<1>0. TypeOK /\ StageInv /\ PrefixInv
  BY DEF IInv
<1>a. curr \in InputRecord /\ tick \in Nat /\ states \in Nat /\ curr.tick \in Nat
  BY <1>0 DEF TypeOK, InputRecord
<1>1. CASE UNCHANGED <<states, tick, curr>> /\ phase # "Simulate" /\ phase' # "Simulate"
           /\ (phase = "Frame" => (states = 0 => phase' = "Frame"))
  BY <1>0, <1>1 DEF RecordInv
<1>2. CASE SetNextState \/ ProcessNetPackets
  <2>1. UNCHANGED <<states, tick, curr>> /\ phase # "Simulate" /\ phase' # "Simulate"
        /\ phase = "Frame" /\ (phase' = "Frame" \/ ~ nextState)
    BY <1>2 DEF SetNextState, ProcessNetPackets, inputVars
  <2> QED BY <1>0, <1>1, <2>1 DEF StageInv
<1>3. CASE ChangeState
  <2>1. states' = states + 1 /\ tick' = 0 /\ phase' = "Frame" /\ curr' = curr
    BY <1>3 DEF ChangeState
  <2>2. states' = 1 => states = 0
    BY <1>a, <2>1
  <2> QED BY <1>a, <2>1, <2>2 DEF RecordInv
<1>4. ASSUME UNCHANGED <<states, tick>>, curr'.tick = curr.tick,
             phase \in {"Packets", "Input"}, phase' \in {"Packets", "Input"}
      PROVE  RecordInv'
  BY <1>4 DEF RecordInv
<1>5. CASE \/ \E p \in Players \ {Me}, t \in 0 .. MaxTick - 1, i \in PeerInputs : PeerSends(p, t, i)
           \/ \E m \in peerInput : ApplyInput(m)
           \/ Rollback
  BY <1>4, <1>5 DEF PeerSends, ApplyInput, Rollback, engineVars, inputVars
<1>6. ASSUME NEW c \in Codes, NEW a \in {"GLFW_PRESS", "GLFW_REPEAT", "GLFW_RELEASE"},
             OnKeyEvent(c, a)
      PROVE  RecordInv'
  <2>1. curr'.tick = curr.tick
    BY <1>0, <1>6, KeyEventKeeps
  <2>2. phase = "Input" /\ phase' = phase /\ UNCHANGED <<states, tick>>
    BY <1>6 DEF OnKeyEvent, engineVars
  <2> QED BY <1>4, <2>1, <2>2
<1>7. ASSUME NEW n \in 0 .. MAX_SIMULATION_NUM, RecordInput(n)
      PROVE  RecordInv'
  <2>1. /\ phase = "Input" /\ phase' = "Simulate" /\ UNCHANGED <<states, tick, curr>>
        /\ inputTimelines' = [inputTimelines EXCEPT ![Me][Slot(tick)] = curr]
    BY <1>7 DEF RecordInput, inputVars
  <2>2. inputTimelines'[Me][Slot(tick)] = curr
    BY <1>0, <1>a, <2>1, SlotType, PlayersAssumption DEF TypeOK
  <2> QED BY <1>a, <2>1, <2>2 DEF RecordInv
<1>8. CASE SimulateTick
  <2>1. /\ phase = "Simulate" /\ phase' = "Simulate" /\ tick' = tick + 1
        /\ UNCHANGED <<states, curr, inputTimelines, punctual>>
        /\ world' = Append(world, Inputs(tick))
    BY <1>8 DEF SimulateTick, inputVars
  <2>2. world \in Seq(Column) /\ Inputs(tick) \in Column
    BY <1>0, <1>a, InputsType DEF TypeOK, Column
  <2>3. /\ \A i \in 1 .. Len(world) : world'[i] = world[i]
        /\ world'[Len(world) + 1] = Inputs(tick)
    BY <2>1, <2>2, AppendProperties
  <2>4. ASSUME states = 1, punctual
        PROVE  world'[curr.tick + 1][Me] = ColumnOf(curr)
    <3>1. Len(world) = tick /\ curr.tick <= tick
      BY <1>0, <2>1, <2>4 DEF PrefixInv, RecordInv
    <3>2. CASE curr.tick = tick
      <4>1. inputTimelines[Me][Slot(tick)] = curr
        BY <2>1, <2>4, <3>2 DEF RecordInv
      <4>2. InputAt(Me, tick) = ColumnOf(curr)
        BY <3>2, <4>1 DEF InputAt, ColumnOf
      <4>3. Inputs(tick)[Me] = ColumnOf(curr)
        BY <4>2, PlayersAssumption DEF Inputs
      <4> QED BY <2>3, <3>1, <3>2, <4>3
    <3>3. CASE curr.tick < tick
      <4>1. curr.tick + 1 \in 1 .. Len(world)
        BY <1>a, <3>1, <3>3
      <4>2. world[curr.tick + 1][Me] = ColumnOf(curr)
        BY <2>1, <2>4, <3>3 DEF RecordInv
      <4> QED BY <2>3, <4>1, <4>2
    <3> QED BY <1>a, <3>1, <3>2, <3>3
  <2>5. states' = 1 => curr'.tick <= tick' /\ curr'.tick # tick'
    BY <1>a, <2>1 DEF RecordInv
  <2>6. states' # 0
    BY <2>1 DEF RecordInv
  <2> QED BY <2>1, <2>4, <2>5, <2>6 DEF RecordInv, ColumnOf
<1>9. CASE EndFrame
  <2>1. phase = "Simulate" /\ phase' = "Frame" /\ UNCHANGED <<states, tick>>
    BY <1>9 DEF EndFrame, engineVars
  <2>2. curr'.tick = tick
    BY <1>0, <1>9, ResetKeeps
  <2>3. states # 0
    BY <2>1 DEF RecordInv
  <2> QED BY <2>1, <2>2, <2>3 DEF RecordInv
<1>10. CASE UNCHANGED vars
  BY <1>10 DEF vars, engineVars, inputVars, netVars, RecordInv, ColumnOf
<1> QED BY <1>2, <1>3, <1>5, <1>6, <1>7, <1>8, <1>9, <1>10 DEF Next

(* Engine::Simulate and ResetInputRecords: what the recorder forgets has   *)
(* been simulated, once, in the first state, while inputs are punctual.    *)
THEOREM PressesAreApplied ==
    ASSUME OneKeyPerIntent
    PROVE  Spec => PressesReachWorld
<1> DEFINE PInv == IInv /\ KeysInv /\ RecordInv
           Reached == (states = 1 /\ punctual /\ phase = "Simulate" /\ phase' = "Frame"
                          /\ tick # curr.tick) =>
                      world[curr.tick + 1][Me] =
                          [held |-> IntentsDown, down |-> pressed \ heldBefore]
<1>1. Init => PInv
  <2>1. Init => KeysInv
    BY DEF Init, KeysInv, Blank, IntentsDown
  <2>2. Init => RecordInv
    BY DEF Init, RecordInv, Blank
  <2> QED BY <2>1, <2>2, InitInvariant
<1>2. PInv /\ [Next]_vars => PInv'
  BY OneKeyPerIntent, StepKeepsInvariant, StepKeepsKeys, StepKeepsRecord
<1>3. PInv => Reached
  <2> SUFFICES ASSUME PInv, states = 1, punctual, phase = "Simulate", tick # curr.tick
               PROVE  world[curr.tick + 1][Me] =
                          [held |-> IntentsDown, down |-> pressed \ heldBefore]
    OBVIOUS
  <2>1. curr.tick \in Nat /\ tick \in Nat
    BY DEF IInv, TypeOK, InputRecord
  <2>2. curr.tick < tick
    BY <2>1 DEF RecordInv
  <2> QED BY <2>2 DEF RecordInv, KeysInv, ColumnOf
<1>4. PInv /\ [Next]_vars => [Reached]_vars
  <2> HIDE DEF PInv, Reached
  <2> QED BY <1>3
<1> HIDE DEF PInv
<1> QED BY <1>1, <1>2, <1>4, PTL DEF Spec, PressesReachWorld
=============================================================================
