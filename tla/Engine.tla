-------------------------------- MODULE Engine --------------------------------
(***************************************************************************)
(* One engine (src/engine/src/core/Engine.cpp) with its input recorder,    *)
(* its input timelines and its rollback manager, and the other players'    *)
(* engines as far as they are seen from it: as INPUT messages.             *)
(*                                                                         *)
(* Engine::Run repeats a frame, and phase says how far the frame is:       *)
(*                                                                         *)
(*   "Frame"     ChangeState if there is a next state, latestTick_ = tick_ *)
(*   "Packets"   the queued INPUT messages, then Rollback                  *)
(*   "Input"     the key events that GLFW reports, then the record of tick *)
(*   "Simulate"  up to MAX_SIMULATION_NUM ticks; Render; ResetInputRecords *)
(*                                                                         *)
(* The world is abstracted to the sequence of the inputs it was simulated  *)
(* with: element t + 1 says, for each player, what Update read for tick t  *)
(* and NotOfThisTick where the record in the slot was another tick's, and  *)
(* the player's entity was left alone.  Two worlds with the same sequence  *)
(* have the same components, as the systems read nothing else.             *)
(*                                                                         *)
(* The messages of the other players are lost (never delivered), repeated, *)
(* delayed and reordered at will.  The network service is NSS_Playing (the *)
(* module Handshake is about how it gets there).                           *)
(***************************************************************************)
EXTENDS Integers, Sequences

CONSTANTS
    Players,             \* the player ids of the match
    Me,                  \* network_.GetMyPlayerID()
    Intents,             \* the flags of InputIntent
    Codes,               \* the key codes of GLFW
    Keys,                \* the values of Key that have codes
    UNKNOWN,             \* Key::UNKNOWN
    KeyOfCode,           \* the cases of the switch: a function from codes to keys
    KeyIntents,          \* InitKeyActionMap: a function from keys to intents
    PeerInputs,          \* what the other players may do in a tick
    ROLLBACK_WINDOW,     \* slots of a timeline
    MAX_SIMULATION_NUM,  \* the most ticks of a frame
    MaxLate,             \* how many ticks late a punctual INPUT arrives at most
    MaxAhead,            \* how many ticks early a punctual INPUT arrives at most
    MaxTick,             \* bound: ticks of a state of the game
    MaxStates,           \* bound: states of the game
    MaxChangeTick,       \* bound: the tick at which a state is left at the latest
    MaxEvents            \* bound: key events of a state

ASSUME PlayersAssumption == Me \in Players

ASSUME KeysAssumption ==
    /\ UNKNOWN \notin Keys
    /\ DOMAIN KeyOfCode \subseteq Codes
    /\ \A c \in DOMAIN KeyOfCode : KeyOfCode[c] \in Keys
    /\ DOMAIN KeyIntents \subseteq Keys
    /\ \A k \in DOMAIN KeyIntents : KeyIntents[k] \in Intents

(* RingArray's static_assert asks for a power of two as well, which makes  *)
(* its bit mask the remainder that Slot takes.                             *)
ASSUME WindowAssumption == ROLLBACK_WINDOW \in Nat /\ ROLLBACK_WINDOW >= 2

(* The span of ticks in which an INPUT is punctual has to fit the window,  *)
(* or a record that is early would take the slot of one that is late.      *)
ASSUME PunctualAssumption ==
    /\ MaxLate \in Nat /\ MaxAhead \in Nat
    /\ MaxLate + MaxAhead < ROLLBACK_WINDOW

ASSUME BoundsAssumption ==
    /\ MAX_SIMULATION_NUM \in Nat
    /\ MaxTick \in Nat /\ MaxStates \in Nat /\ MaxChangeTick \in Nat /\ MaxEvents \in Nat

InputOf == [held : SUBSET Intents, down : SUBSET Intents]

ASSUME PeerInputsAssumption == PeerInputs \subseteq InputOf

VARIABLES
    phase,           \* how far the frame is
    nextState,       \* whether nextState_ is set
    states,          \* how many states the engine has entered, the world's identity
    tick,            \* tick_
    latestTick,      \* latestTick_
    simLimit,        \* ticks that are left of Simulate's loop
    world,           \* the inputs world_ was simulated with
    inputTimelines,  \* inputTimelines_
    snapshots,       \* timelines_ of the RollbackManager
    prev, curr,      \* prev_ and curr_ of the InputRecorder
    peerInput,       \* the INPUT messages the other players have sent
    sent,            \* the last INPUT message of this frame, <<>> before it
    \* history and environment
    keysDown,        \* the codes of the keys that are down on the keyboard
    events,          \* how many key events the state has had
    heldBefore,      \* the intents of the keys down when curr was last reset
    pressed,         \* the intents whose keys went down since then
    heard,           \* the messages applied since the state was entered
    punctual         \* whether all of these were punctual

engineVars == <<nextState, states, tick, latestTick, simLimit, world,
                inputTimelines, snapshots>>
inputVars  == <<prev, curr, keysDown, events, heldBefore, pressed>>
netVars    == <<peerInput, sent, heard, punctual>>
vars       == <<phase, engineVars, inputVars, netVars>>

-----------------------------------------------------------------------------
(* RingArray and Timeline                                                  *)

Slots == 0 .. ROLLBACK_WINDOW - 1

Slot(t) == t % ROLLBACK_WINDOW

Nothing == [held |-> {}, down |-> {}]

NotOfThisTick == [held |-> {"no input"}, down |-> {}]

InputRecord == [tick : Nat, held : SUBSET Intents, down : SUBSET Intents]

Blank == [tick |-> 0, held |-> {}, down |-> {}]

Message == [player : Players, tick : Nat,
            held : SUBSET Intents, down : SUBSET Intents]

Snapshot == [tick : Nat, state : Nat, world : Seq([Players -> InputOf \cup {NotOfThisTick}])]

(* EngineConfig has four timelines; those of absent players are not used.  *)
Init ==
    /\ phase = "Frame"
    /\ nextState = TRUE
    /\ states = 0
    /\ tick = 0
    /\ latestTick = 0
    /\ simLimit = 0
    /\ world = <<>>
    /\ inputTimelines = [p \in Players |-> [s \in Slots |-> Blank]]
    /\ snapshots = [s \in Slots |-> [tick |-> 0, state |-> 0, world |-> <<>>]]
    /\ prev = Blank
    /\ curr = Blank
    /\ peerInput = {}
    /\ sent = <<>>
    /\ keysDown = {}
    /\ events = 0
    /\ heldBefore = {}
    /\ pressed = {}
    /\ heard = {}
    /\ punctual = TRUE

-----------------------------------------------------------------------------
(* The simulation of one tick: KinematicMovementSystem reads the record in *)
(* the slot of the tick for each player, and skips the player whose record *)
(* has another tick.                                                       *)

InputAt(p, t) ==
    LET inputRec == inputTimelines[p][Slot(t)]
    IN  IF inputRec.tick # t THEN NotOfThisTick
        ELSE [held |-> inputRec.held, down |-> inputRec.down]

Inputs(t) == [p \in Players |-> InputAt(p, t)]

Capture(w, t) == [tick |-> t, state |-> states, world |-> w]

-----------------------------------------------------------------------------
(* The beginning of a frame                                                *)

SetNextState ==
    /\ phase = "Frame"
    /\ ~nextState
    /\ states < MaxStates
    /\ tick <= MaxChangeTick
    /\ nextState' = TRUE
    /\ UNCHANGED <<phase, states, tick, latestTick, simLimit, world,
                   inputTimelines, snapshots, inputVars, netVars>>

(* The new state gets a new World; ResetTick counts from 0 and captures    *)
(* that world.  The input timelines stay as they are.                      *)
ChangeState ==
    /\ phase = "Frame"
    /\ nextState
    /\ nextState' = FALSE
    /\ states' = states + 1
    /\ world' = <<>>
    /\ tick' = 0
    /\ snapshots' = [snapshots EXCEPT
           ![Slot(0)] = [tick |-> 0, state |-> states + 1, world |-> <<>>]]
    /\ heard' = {}
    /\ punctual' = TRUE
    /\ events' = 0
    /\ UNCHANGED <<phase, latestTick, simLimit, inputTimelines, prev, curr,
                   keysDown, heldBefore, pressed, peerInput, sent>>

ProcessNetPackets ==
    /\ phase = "Frame"
    /\ ~nextState
    /\ tick < MaxTick
    /\ phase' = "Packets"
    /\ latestTick' = tick
    /\ UNCHANGED <<nextState, states, tick, simLimit, world, inputTimelines,
                   snapshots, inputVars, netVars>>

-----------------------------------------------------------------------------
(* INPUT messages                                                          *)

(* Another player has simulated a tick and sends its input: for each tick  *)
(* once, the ticks in order.  The message could be sent in any phase; it   *)
(* is not seen before the packets are read, so that is when it appears.    *)
PeerSends(p, t, i) ==
    /\ phase = "Packets"
    /\ t < MaxTick
    /\ \A m \in peerInput : m.player = p => m.tick < t
    /\ peerInput' = peerInput \cup
           {[player |-> p, tick |-> t, held |-> i.held, down |-> i.down]}
    /\ UNCHANGED <<phase, engineVars, inputVars, sent, heard, punctual>>

Punctual(m) == tick - MaxLate <= m.tick /\ m.tick <= tick + MaxAhead

(* Mutant: the last message counts, not the oldest tick. *)
SetLatestTickToLast(newTick) == newTick

SetLatestTick(newTick) == IF newTick < latestTick THEN newTick ELSE latestTick

(* Deserialize, Apply, SetInputData and SetLatestTick.  Bound: one message *)
(* of a state at most is not punctual, or the world would grow for ever.   *)
ApplyInput(m) ==
    /\ phase = "Packets"
    /\ punctual \/ Punctual(m)
    /\ inputTimelines' = [inputTimelines EXCEPT ![m.player][Slot(m.tick)] =
           [tick |-> m.tick, held |-> m.held, down |-> m.down]]
    /\ latestTick' = SetLatestTick(m.tick)
    /\ heard' = heard \cup {m}
    /\ punctual' = (punctual /\ Punctual(m))
    /\ UNCHANGED <<phase, nextState, states, tick, simLimit, world, snapshots,
                   inputVars, peerInput, sent>>

(* RollbackManager::Rollback: what the world is after it was asked for the *)
(* world of tick t.  A slot that holds another tick is refused.            *)
Restored(t) ==
    IF snapshots[Slot(t)].tick # t THEN world ELSE snapshots[Slot(t)].world

(* Mutant: the tick of the late input itself is not simulated again. *)
ResimulatedAfter(w, first, last) ==
    w \o [i \in 1 .. last - first |->
              IF i = 1 THEN [p \in Players |-> NotOfThisTick] ELSE Inputs(first + i - 1)]

(* The world after the ticks from first up to last - 1 were simulated.     *)
Resimulated(w, first, last) ==
    w \o [i \in 1 .. last - first |-> Inputs(first + i - 1)]

(* The last tick up to tick that falls in slot s. *)
LatestIn(s) == tick - ((tick - s) % ROLLBACK_WINDOW)

(* Mutant: the ticks are simulated again, and not captured again. *)
RollbackUncaptured ==
    /\ phase = "Packets"
    /\ phase' = "Input"
    /\ world' = IF latestTick < tick
                THEN Resimulated(Restored(latestTick), latestTick, tick) ELSE world
    /\ UNCHANGED <<nextState, states, tick, latestTick, simLimit, snapshots,
                   inputTimelines, inputVars, netVars>>

Rollback ==
    /\ phase = "Packets"
    /\ phase' = "Input"
    /\ IF latestTick < tick
       THEN LET w == Restored(latestTick)
            IN  /\ world' = Resimulated(w, latestTick, tick)
                /\ snapshots' = [s \in Slots |->
                       IF LatestIn(s) > latestTick
                       THEN Capture(Resimulated(w, latestTick, LatestIn(s)), LatestIn(s))
                       ELSE snapshots[s]]
       ELSE UNCHANGED <<world, snapshots>>
    /\ UNCHANGED <<nextState, states, tick, latestTick, simLimit,
                   inputTimelines, inputVars, netVars>>

-----------------------------------------------------------------------------
(* Key events                                                              *)

ConvertKeyGLFW(c) == IF c \in DOMAIN KeyOfCode THEN KeyOfCode[c] ELSE UNKNOWN

(* GLFW_PRESS and GLFW_REPEAT are both PRESS. *)
ConvertActionGLFW(a) == IF a = "GLFW_RELEASE" THEN "RELEASE" ELSE "PRESS"

(* InputIntent::NONE is the intent of the keys that are bound to nothing.  *)
IntentsOfKey(k) == IF k \in DOMAIN KeyIntents THEN {KeyIntents[k]} ELSE {}

(* UpdateInputKey, to which the key signal is connected; UpdateInputMouse  *)
(* does the same for a mouse button.                                       *)
UpdateInputKey(key, action) ==
    LET intents == IntentsOfKey(key)
    IN  curr' = IF action = "RELEASE"
                THEN [curr EXCEPT !.held = @ \ intents]
                ELSE [curr EXCEPT !.down = @ \cup (intents \ prev.held),
                                  !.held = @ \cup intents]

(* A key is pressed when it is up, and repeated or released when it is     *)
(* down.                                                                   *)
OnKeyEvent(c, a) ==
    /\ phase = "Input"
    /\ events < MaxEvents
    /\ (a = "GLFW_PRESS") <=> (c \notin keysDown)
    /\ events' = events + 1
    /\ keysDown' = IF a = "GLFW_RELEASE" THEN keysDown \ {c} ELSE keysDown \cup {c}
    /\ pressed' = IF a = "GLFW_PRESS"
                  THEN pressed \cup IntentsOfKey(ConvertKeyGLFW(c)) ELSE pressed
    /\ UpdateInputKey(ConvertKeyGLFW(c), ConvertActionGLFW(a))
    /\ UNCHANGED <<phase, engineVars, prev, heldBefore, netVars>>

(* The end of ProcessInputEvents, and the number of ticks Simulate finds   *)
(* due.                                                                    *)
RecordInput(n) ==
    /\ phase = "Input"
    /\ phase' = "Simulate"
    /\ inputTimelines' = [inputTimelines EXCEPT ![Me][Slot(tick)] = curr]
    /\ simLimit' = n
    /\ UNCHANGED <<nextState, states, tick, latestTick, world, snapshots,
                   inputVars, netVars>>

-----------------------------------------------------------------------------
(* Simulate                                                                *)

(* InputNetMessage::Build and Serialize: the tick of the engine, with the  *)
(* flags of the record in that tick's slot.                                *)
InputMessage ==
    LET inputRecord == inputTimelines[Me][Slot(tick)]
    IN  [player |-> Me, tick |-> tick,
         held |-> inputRecord.held, down |-> inputRecord.down]

SimulateTick ==
    /\ phase = "Simulate"
    /\ simLimit > 0
    /\ simLimit' = simLimit - 1
    /\ world' = Append(world, Inputs(tick))
    /\ sent' = <<InputMessage>>
    /\ tick' = tick + 1
    /\ snapshots' = [snapshots EXCEPT
           ![Slot(tick + 1)] = Capture(Append(world, Inputs(tick)), tick + 1)]
    /\ UNCHANGED <<phase, nextState, states, latestTick, inputTimelines,
                   inputVars, peerInput, heard, punctual>>

(* The intents of the keys that are down. *)
IntentsDown == UNION {IntentsOfKey(ConvertKeyGLFW(c)) : c \in keysDown}

(* Mutant: every frame begins a new record. *)
ResetInputRecordsAlways ==
    /\ prev' = curr
    /\ curr' = [curr EXCEPT !.tick = tick, !.down = {}]
    /\ heldBefore' = IF curr.tick # tick THEN IntentsDown ELSE heldBefore
    /\ pressed' = IF curr.tick # tick THEN {} ELSE pressed

ResetInputRecords ==
    IF curr.tick # tick
    THEN /\ prev' = curr
         /\ curr' = [curr EXCEPT !.tick = tick, !.down = {}]
         /\ heldBefore' = IntentsDown
         /\ pressed' = {}
    ELSE UNCHANGED <<prev, curr, heldBefore, pressed>>

(* Render, ResetInputRecords and TryStartGame, which changes the state of  *)
(* the network service only.                                               *)
EndFrame ==
    /\ phase = "Simulate"
    /\ simLimit = 0
    /\ phase' = "Frame"
    /\ ResetInputRecords
    /\ sent' = <<>>
    /\ UNCHANGED <<engineVars, keysDown, events, peerInput, heard, punctual>>

-----------------------------------------------------------------------------
Next ==
    \/ SetNextState
    \/ ChangeState
    \/ ProcessNetPackets
    \/ \E p \in Players \ {Me}, t \in 0 .. MaxTick - 1, i \in PeerInputs : PeerSends(p, t, i)
    \/ \E m \in peerInput : ApplyInput(m)
    \/ Rollback
    \/ \E c \in Codes, a \in {"GLFW_PRESS", "GLFW_REPEAT", "GLFW_RELEASE"} : OnKeyEvent(c, a)
    \/ \E n \in 0 .. MAX_SIMULATION_NUM : RecordInput(n)
    \/ SimulateTick
    \/ EndFrame

Spec == Init /\ [][Next]_vars

-----------------------------------------------------------------------------
(* Properties                                                              *)

(* The variables hold values of their types.                               *)
TypeOK ==
    /\ phase \in {"Frame", "Packets", "Input", "Simulate"}
    /\ nextState \in BOOLEAN
    /\ states \in Nat
    /\ tick \in Nat
    /\ latestTick \in Nat
    /\ simLimit \in 0 .. MAX_SIMULATION_NUM
    /\ world \in Seq([Players -> InputOf \cup {NotOfThisTick}])
    /\ inputTimelines \in [Players -> [Slots -> InputRecord]]
    /\ snapshots \in [Slots -> Snapshot]
    /\ prev \in InputRecord
    /\ curr \in InputRecord
    /\ peerInput \subseteq Message
    /\ sent \in Seq(Message) /\ Len(sent) <= 1
    /\ keysDown \subseteq Codes
    /\ events \in 0 .. MaxEvents
    /\ heldBefore \subseteq Intents
    /\ pressed \subseteq Intents
    /\ heard \subseteq peerInput
    /\ punctual \in BOOLEAN

(* The ticks that the rollback window promises to keep. *)
Window == {t \in 0 .. tick : t > tick - ROLLBACK_WINDOW}

(* Whatever arrives, and whatever state of the game was played before, the *)
(* slots of the window hold the captures of their own ticks in the world   *)
(* that is being simulated: RollbackManager::Rollback is never refused in  *)
(* the window, and never restores entities of a world that is gone         *)
(* (Engine::ResetTick, Simulate and Rollback capture every tick).  As long *)
(* as every INPUT was punctual, the capture of a tick is the world as it   *)
(* was simulated up to that tick with the inputs that are known now, also  *)
(* after the ticks were simulated again.                                   *)
SnapshotsCoverWindow ==
    states > 0 /\ ~nextState => \A t \in Window :
        /\ snapshots[Slot(t)].tick = t
        /\ snapshots[Slot(t)].state = states
        /\ punctual => snapshots[Slot(t)].world = SubSeq(world, 1, t)

(* After Rollback the world is the one that the records in the timelines   *)
(* imply: no record that arrived late is left out, and none that was used  *)
(* has been replaced.                                                      *)
WorldFollowsTimelines ==
    states > 0 /\ ~nextState /\ punctual /\ phase # "Packets" =>
        \A t \in 0 .. tick - 1 : t >= tick - MaxLate => world[t + 1] = Inputs(t)

(* What the other players did is what this world shows they did, at the    *)
(* tick they did it, for every INPUT that was received: early, late or     *)
(* repeated, and however the frames of the engines lie to each other.      *)
HeardIsApplied ==
    punctual /\ phase # "Packets" =>
        \A m \in heard : m.tick < tick =>
            world[m.tick + 1][m.player] = [held |-> m.held, down |-> m.down]

(* A key press is not lost: when the recorder forgets which keys went down *)
(* (ResetInputRecords), the world was simulated with them, once, in the    *)
(* tick the record was for; frames without a tick keep them.  This is so   *)
(* in the first state: ChangeState starts counting at 0, and the recorder  *)
(* counts on, so that the first record of a later state is skipped.        *)
PressesReachWorld ==
    [][(states = 1 /\ punctual /\ phase = "Simulate" /\ phase' = "Frame" /\ tick # curr.tick) =>
          world[curr.tick + 1][Me] =
              [held |-> IntentsDown, down |-> pressed \ heldBefore]]_vars

(* The INPUT that is sent for a tick says what this engine itself applied  *)
(* in that tick.  Not so in the second and third tick of a frame: no       *)
(* record was made for them, and the message is built from what an earlier *)
(* tick left in the slot.                                                  *)
SentIsApplied ==
    sent # <<>> /\ punctual =>
        world[sent[1].tick + 1][Me] = [held |-> sent[1].held, down |-> sent[1].down]
===============================================================================
