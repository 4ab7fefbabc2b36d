# engine-tomato: TLA+ specifications

engine-tomato is a game engine with peer-to-peer multiplayer and rollback
(`src/engine`), a match server that brings the peers together
(`src/matchserver`), and an example game (`src/contents`).  This directory holds
TLA+ modules that model its concurrent and distributed core, TLC configurations
that check them on small instances, and proofs, checked by TLAPS, of what
matters most for instances of every size.

The repository has no README, design document or test of its own.  Every
definition here is translated from the code; where a property quotes the
authors, it quotes a comment in the code.

Contents

1. [The system](#1-the-system)
2. [Modules](#2-modules)
3. [Model checking](#3-model-checking)
4. [Proofs](#4-proofs)
5. [Disagreements found](#5-disagreements-found)
6. [Not modelled, and the plan](#6-not-modelled-and-the-plan)

To repeat the checks, in this directory:

    tlc -workers 2 -config MatchManagerPairs.cfg MCMatchManager
    tlapm MatchManagerProofs.tla


## 1. The system

### Who talks to whom

    player's machine                               match server
    +------------------------------+   TCP    +-------------------------------+
    | main thread: Engine::Run     |<-------->| receiving thread:             |
    |   ProcessNetPackets          | requests,|   accept, receive, cut packets|
    |   Rollback                   | intros,  |         | TCPRecvQueue        |
    |   ProcessInputEvents         | time,    |         v                     |
    |   Simulate, Render           | starts   | main thread: MatchServer::Run |
    |   TryStartGame               |          |   NetworkService::Update      |
    |        ^ pendingPackets_     |          |     | MatchRequestQueue  ^    |
    |        | pendingTCPPackets_  |          |     v     NetSendRequestQueue |
    | UDP thread, TCP thread       |          |   MatchManager::Update        |
    +------------------------------+          +-------------------------------+
          ^        UDP: HELLO, WELCOME, INPUT
          +------------------------------------>  the other players

A client asks for a match (`MATCH_REQUEST`).  When enough clients wait, the
server makes a match of them and sends each the addresses of all
(`MATCH_INTRO`).  The clients greet each other over UDP (`HELLO`, `WELCOME`), ask
the server for its time (`TIME_SYNC_REQ`) and report when all peers have answered
(`MATCH_INTRO_SUCCESS`).  When all players of a match have reported, the server
sends `MATCH_START` with a time at which the game begins; when they have not
within a timeout, it gives the match up and asks each player again, up to three
times.

### Components

| component | state | operations | hard because of | must be true |
|---|---|---|---|---|
| **MatchManager, Match** (`matchserver`) | request map, priority heap, matches by id, two command queues | enqueue, cancel, report, create a match, advance a match, retry | map and heap updated in different ways, late reports, timeouts against answers, ids that wrap, bounded queues whose result is ignored | full rosters, nobody lost, no unearned start, priority |
| **SPSCQueue** (`engine/containers`) | two atomic counters, an array of raw cells | emplace, enqueue, dequeue, destroy | no lock, counters that wrap | a bounded FIFO for its two threads |
| **MemoryPool, UDP thread** (`engine`) | free list inside the free chunks, valid bits, count | allocate, deallocate, receive, drain, start, stop | two threads, ownership of a chunk passed by pointer, exhaustion | each chunk one owner, packets intact, none dropped |
| **Session, TCP threads** (both) | a send and a receive buffer per connection, session maps | append, send a part, receive, cut out a packet; accept, disconnect | arbitrary segmentation, maps shared without a lock | the stream stays aligned, packets whole and in order |
| **client NetworkService** (`engine`) | protocol state, peers, clock offset | one handler per packet | UDP loses, repeats, delays; state left over from the last match | the lobby means connected, the start finds its player |
| **Engine, RollbackManager, Timeline** (`engine`) | tick, world, ring of snapshots, rings of inputs per player | frame: apply packets, roll back, record input, simulate, capture; change of state | late, early, repeated and lost inputs, several ticks per frame, window of the ring, a new world under old timelines | the world is the one the known inputs imply, every snapshot in the window is of its tick |
| **InputRecorder, InputService** | key states, the record of this tick and of the last | key event, reset at the end of a frame | several events in a frame, frames without a tick | a press reaches the world exactly once |
| **NetBitWriter, NetBitReader, the packets** | a buffer and a bit position on each side | write and read an integer below a bound; build and handle each packet | the number of bits depends on the value, nothing says where a field ends, two programs repeat the layout | the reader ends each field where the writer did and takes it for the same |
| **movement, TransformSystem, CollisionSystem** | position, jump, matrix, boxes, the list swept | the phases of a tick; rollback of some components | components that are restored and components that are not, boxes that touch, pairs left out on purpose | in the air exactly while jumping, every jump lands, the sweep finds what all pairs would |
| **AtlasManager, TextureAtlas, Font** | a shelf cursor per atlas, the atlases, the cached glyphs | ask for a glyph, add an atlas | exhaustion in the middle of a row, the second try in a new atlas | rectangles disjoint and inside |
| **RenderSystem, TextRenderer** | what the context has bound, what the system believes is bound, the waiting quads | draw the entities, draw the texts, change of state | state of the context that changes behind the members that mirror it, quads of several atlases | everything drawn once and with its own |
| **Mesh** | vertices and indices | one builder per primitive | indices written by hand at the seams | solids closed, faces outwards |
| **SystemManager, SystemRegistry** | systems by phase | register, simulate, render | static registration order | phases in order (part of `Simulation`) |

`Shader`, `Texture` and `AssetRegistry` loading, `WindowService`, `Logger`, the socket
wrappers, the example game and vendored code have no protocol of their own.
`PROJECT.json` lists every component with its files and its status, and, under
`hazards`, what is hard to test in this code, at its line, with the properties
that cover it.


## 2. Modules

| module | models | code it stands for |
|---|---|---|
| `MatchService` | what the match maker promises the sessions that ask for a match | abstract specification |
| `MatchManager` | the match maker, whole; implements `MatchService` | `MatchManager.cpp`, `Match.cpp`, the request packets of `NetworkService.cpp`, `MatchServer::Run` |
| `BoundedFifo` | what a bounded queue promises its two users | abstract specification |
| `SPSCQueue` | the lock-free ring, access by access; implements `BoundedFifo` | `SPSCQueue.h` |
| `UdpReceive` | the pool of packet buffers between the UDP thread and the main thread | `MemoryPool.h`, `NetThreadLoop`, `ProcessQueuedUDPPacket`, `ThreadStart`, `ThreadStop` |
| `TcpFraming` | one TCP connection, from the send buffer to the packet queue | `Session.cpp`, `ProcessSendPacket`, `TCPNetRecvThreadLoop` |
| `Handshake` | all clients, both networks and the server from a request to the game | the handlers of the client's `NetworkService`, `TryStartGame`; the server as `MatchService` |
| `Engine` | one engine's frames, its input records, timelines and snapshots; the other players as INPUT messages | `Engine.cpp`, `RollbackManager.h`, `RingArray.h`, `Timeline.h`, `InputService.cpp`, `InputRecorder.h`, `InputNetMessage.cpp` |
| `BitCodec` | integers of a known range in the bits of a packet | `NetBitWriter`, `NetBitReader`, `RawBuffer` |
| `Packets` | every packet as written and as handled; implements `BitCodec` | the builders and handlers of client and server |
| `Collision` | one sweep over the boxes | `CollisionSystem.cpp`, the layer matrix |
| `Simulation` | a tick's phases and their rollback; implements `Collision` | `SystemManager.cpp`, `KinematicMovementSystem.cpp`, `TransformSystem.cpp`, `RollbackSlice.h` |
| `Mesh` | the primitive meshes | `Mesh.cpp` |
| `Atlas` | the shelves of the atlases and the glyph cache | `AtlasManager.cpp`, `TextureAtlas.cpp`, `Font::GetGlyph` |
| `Rendering` | frames: entities, texts, what is bound; implements `Atlas` | `RenderSystem.cpp`, `TextRenderer.cpp` |
| `MC...` | model values, small worlds, symmetry | - |
| `...Proofs` | theorems and their proofs | - |

`PROJECT.json` maps each definition to the lines it is translated from.

**How they fit together.**  Each module takes for granted what the one below it
shows.  `MatchManager`, `UdpReceive` and `TcpFraming` use a queue as one step per
call, a sequence with a capacity: that this is what the lock-free ring gives
them is `SPSCQueue!ImplementsFifo`, which is proved.  `Handshake` uses TCP as a
sequence of whole packets in each direction: `TcpFraming` says how far that is
true (in order and intact, yes; promptly, no, see section 5).  `Handshake` uses UDP
as a set of packets that only grows, any of which may be handled at any time,
any number of times, or never: that covers loss, duplication, delay and
reordering, and `UdpReceive!NothingDropped` says that the engine itself adds no
loss.  `Engine` takes the INPUT messages of its peers from the same kind of
network.  That a packet means to its handler what it meant to its writer is
`Packets`.

The server and its clients meet in `MatchService`.  `MatchManager` is shown to
implement it (`ImplementsService`), and what the server does in `Handshake` is
`MatchService`: each of its steps is an action of that module together with the
packets that belong to it.  What the clients of `Handshake` meet is therefore
anything that `MatchManager` may do with their requests, and the theorems about
`Handshake` hold of a server with its heap, its retries and its timeouts.  Three
things the relation does not carry over.  `Handshake` sends the intros of a match
when it is made, while `MatchManager` sends them two ticks later (a match that has
not sent them cannot have been reported, and a client that reads an intro late has
it late in `Handshake` as well).  It numbers its matches without wrapping around:
a report that is 2^16 matches late is outside of it.  And its clients do not
cancel: nothing in the engine calls for a MATCH_CANCEL.  The times of the requests
only decide who is drawn, which `MatchService` leaves open; in `Handshake` they are 0.

Three modules are compositions: `Packets` drives the writer and the reader of
`BitCodec` with the packets of the game, `Simulation` calls the update of `Collision`
as the last phase of a tick, and `Rendering` asks the cache of `Atlas` for the
glyphs of its texts.  Each states that it leaves the part's own rules intact
(`ImplementsCodec`, `ImplementsCollision`, `ImplementsAtlas`).  `Engine` and `Simulation`
divide the simulation between them: `Engine` says with which inputs each tick is
simulated and keeps the world as the sequence of those inputs; `Simulation` says
what a tick does with them.

### MatchManager

The main loop runs `NetworkService::Update` and `MatchManager::Update` in turn; the
variable `phase` is its program counter.  `Network`: packets of clients become
commands in `MatchRequestQueue`, and at its end the packets for clients leave.
`Requests`: the commands are handled one per step.  `Fill`: the loop that draws a
match up from the heap, one pop per step.  `Results`: each match is advanced by
one tick, in any order (the order of an `unordered_map`).  `EndTick` moves the
clock.  One step is one call of the corresponding function with everything it
changes.

The heap is a bag, its `top()` any element that no other outranks.  A request is
its session, its address, when it was queued and how often it was retried; its
name is carried along and never looked at.  A first request carries the time 0:
`HandleEnqueue` sets `enqueueTime` to it, so that among first requests the order of
the heap says nothing and any may be picked; retries carry the time their match failed.  `introduced`, `reported` and `seeking`
are history: who has been sent the intro of a live match, who has reported
success for one, and to whom the server owes a match.

`MatchService` has who waits, the bag of requests and the live matches, each with
its players and who has reported.  In the mapping, those that the loop of
`CreateMatchContext` has drawn wait until the match is there (`Drawn`), so that a
match is drawn in the step in which it is added; a command that is still queued has
not been asked; and the phases of a match, its timer and the packets are not seen.
What is left open is which of those who wait are drawn (`PriorityServed` says that)
and when.

### BoundedFifo, SPSCQueue

Every action of `SPSCQueue` makes at most one access to memory the other thread
may write.  The counters are integers modulo `IndexMod`, 2^64 in the code, and
`Full` is the code's unsigned subtraction.  A cell that holds no object holds `Raw`,
so that a use of it is visible.  The code loads the other thread's counter with
`acquire` and its own `relaxed`: an acquire load that returns an old value acts as
if it had been made earlier, and since its thread does nothing else in between,
the interleavings of the model include it.  The refinement mapping takes the
cells between the counters as the queue; an object that has been moved out stays
in it until its cell is released, which is when the producer may see room.

### UdpReceive

`Allocate` and `Deallocate` hold the pool's mutex, so each is one step.  The free list
lives in the first bytes of the free chunks: `content[c] = Link` says that a chunk's
memory holds that link and no packet.  `receive`, `emplace` and `deallocate` are the
steps of the UDP thread between two tests of its flag; the main thread takes one
packet at a time, reads it, and gives its chunk back.

### TcpFraming

A byte is its position in the stream, so that a misplaced byte is visible as
such.  The socket takes any part of `sendBuffer`, a receive returns any part of
what is on the way up to the size of the buffer it is given, and at most one
packet is cut out after a receive.  If ever the receiver read the size field at
a wrong place, `ReadSize` would be any number.

### Handshake

A client is also its address.  Its main thread runs every handler to its end, so
each is one step.  `conn`, `addToId` and `peerConnected` are the maps and the vector of
the code, with `try_emplace` and `resize` doing what they do: keep what is there.
A clock reading is named by the match in which it is taken, which is all that a
stale one can be told by.  `inBuffer` counts the packets that are whole in the client's
`recvBuffer`: a receive brings more of what is on its way, in whole packets or not, and
one packet is cut off after it (`Taken`), so that one which came together with another
stays behind until something else comes.  `heard` and `asked` are history: `asked` is
whether the client has asked for a match that has not begun yet, and whether it asked
for more than one.  The server has `waiting`, `offers` and `live` of `MatchService`;
`matches` remembers those that are over as well, for the properties.  That a queue is
full is left out here: the client's holds more than the packets of a match.

### Engine

`phase` is how far the frame of `Engine::Run` has come.  The messages that have been
sent to this engine are a set that only grows, and `ProcessNetPackets` begins a
phase in which any number of them is applied, in any order, before `Rollback`.
`SimulateTick` is one round of the loop in `Simulate` with its capture; `RecordInput`
chooses how many ticks the clock has made due.  An action of GLFW's callback
changes `curr` through the conversion of keys and the signal that the recorder
listens to.  `heldBefore` and `pressed` are history: what was held when the record
began, and what has gone down since.

The sending and receiving of INPUT is commented out at this commit
(`NetworkService.cpp:72` and `:93` of the engine); both are modelled as
`InputNetMessage.cpp` defines them, and as the comments there would call them.

`PunctualAssumption` names the span in which a message may arrive: at most `MaxLate`
ticks after the tick it is for and `MaxAhead` before, the two together less than the
window.  Messages that come later or earlier are part of the model (`punctual`
then becomes FALSE): the ring is never left inconsistent by them, but what the
world shows of them is what the ring's slot held.  A rollback to a tick that is no
longer stored is refused by the rollback manager, and the engine simulates the
ticks again all the same, on top of the world as it is.

### BitCodec, Packets

One step is one round of a loop of `WriteInt` or `ReadInt`; a byte has `ByteBits` bits and
the shifted mask ends at `Word`.  `Packets` gives each packet as a sequence of
fields with their ranges, as its builder writes them, and the handler as a state
machine (`parse`) that learns from the values it reads how the packet goes on, as
the code does: the count in a MATCH_INTRO, the length of a name.  `Built` is what the builders
make of the names, ports, ids, times, intents and connections they may be called with
(constants), and `Messages` are packets of it: all of them in the instance.  A packet
that outgrows its buffer ends in the phase `cut`; the code drops the bits that do not fit and
goes on with the next field (`NetBitWriter.cpp:33`), which no packet of this commit is long
enough for.

### Collision, Simulation

Coordinates are integers and lengths of time are ticks.  The sort leaves boxes with
the same `x` in any order.  A rotation is a quarter turn or none, which is all that
the box of an oriented collider tells apart here.  The narrow phase is empty in the
source; `found` collects the pairs for which it would run.  All colliders of the
source are in the layer `Default`; one of no layer is in the instance so that the
matrix has something to exclude.  `Simulation` leaves rounding out; the records are
those `Engine` hands to the systems, and a tick without a record of its own for a
player leaves that player alone, in mid-air as well.  What a rollback restores is
the slice that `main.cpp:14` names.

### Mesh, Atlas, Rendering

A vertex is a triple of integers: sines and cosines are tables of one digit, enough
to tell on which side of a triangle a point lies.  A glyph is the rectangle its
bitmap is uploaded to.  `gl` is what the graphics context has bound, and `shown` what
was drawn in this frame with what bound; `curShader`, `curTexture` and `curMesh` are the
members that mirror it.  The worlds are those that `TestState`, `GameState` and
`DefaultState` set up, reduced to meshes, shaders, textures, texts and the camera.
The model has one font, and glyphs that fit an empty atlas (48 pixels against
2048).  The buffer of `TextRenderer` reserves 1000 characters (`TextRenderer.cpp:37`); a
longer batch is outside the model, and so is a character the font cannot load, for which
`Font::LoadGlyph` throws (`Font.cpp:54`).


## 3. Model checking

Twelve runs, all of which finish within three minutes with two workers.

| run | instance | shows |
|---|---|---|
| `mm_pairs` | 2 sessions, matches of 2, timeout 5 ticks, 1 retry, command queue of 1, send queue of 4, instants up to 6 (340,927 states) | `FullRoster`: every match has all its players, once each, though the heap holds entries of cancelled, repeated and retried requests; `LiveRequestsQueued`: whoever is in the map is in the heap; `NobodyForgotten`: no step loses a session; `StartsOnlyReportedMatches`; `PriorityServed`: of the sessions that wait the one that is picked has failed most often and, of those that failed as often, at the earliest tick; `ImplementsService` (refinement): matches start and are given up as `MatchService` says, and who waits again is who has tries left |
| `mm_live` | 1 session in several matches of 1, ids modulo 4 | `NoIdCollision`; `IntroReachesPlayers` with the smallest send queue that suffices; `MatchesResolve` under fairness |
| `spsc_ring` | 4 cells, counters modulo 8, 2 values (11,160 states) | `CellAccessSafe`, `ImplementsFifo` (refinement), and `PublishedIsTaken` under fairness |
| `udp_pool` | 4 chunks, queue of 4, 2 datagrams | `PoolConsistent`, `OneOwner`, `PacketsIntact`, `NothingDropped` |
| `tcp_stream` | 4 packets of 3 or 5 bytes, receives of at most 6, queue of 2 | `StreamAligned`, `PacketsInOrder` |
| `hs_again` | 2 clients that may ask twice at any time, two matches of 2 (1.15 million states) | `StartsAreAwaited`, `OffsetIsFresh`: of a client that has not asked again before its match begins |
| `hs_live` | 2 clients that ask once, two matches of 2, 1 retry (263,877 states) | `WelcomesAreExpected`; `FirstStarts`, which is `EveryoneStarts` of one of the two, under fairness of TCP and of the server, none of UDP |
| `engine_rollback` | 2 players, window of 4, up to 3 ticks per frame, inputs up to 2 ticks late and 1 early or worse, 2 states of 3 ticks, 2 key events per state (2.27 million states) | `SnapshotsCoverWindow`: the ring's slots in the window hold their own ticks of this world, whatever arrives; `WorldFollowsTimelines` and `HeardIsApplied`: after a rollback the world is the one the known inputs imply, and what a peer said it did is what it did; `PressesReachWorld`: no press is lost in frames with no tick or three |
| `packets` | every kind of packet, names of up to 6 characters, numbers at and beside their bounds; a byte of 2 bits, a `uint16_t` of 4 (92,503 states) | `ReaderInStep`, `ValuesSurvive`, `ReadsStayInside`, `HandlersReadTheirParts`, `ImplementsCodec` (refinement) |
| `simulation` | 2 players, 2 colliders more, records missing at will, rollbacks of up to 2 ticks (118,538 states) | `FindsTouchingPairs`: the sweep against all pairs; `AirborneMeansJumping` and `DrawsWhatWasSimulated` also after a rollback; `ImplementsCollision` (refinement); `EveryJumpLands` under fairness |
| `rendering` | atlases of 5 by 5 pixels, 4 characters of four sizes, 18 worlds (10,520 states) | `GlyphsApart`, `DrawnWithTheirOwn`, `FrameIsComplete`, `SolidsAreClosed` |
| `hs_stale` | 3 clients, two matches | violated; see section 5 |

More that TLC has checked with the same modules and is not listed as a run of its
own: the type invariants of `MatchManager`, `SPSCQueue`, `UdpReceive`, `TcpFraming`, `Packets`,
`Simulation` and `Rendering` and the action property `ImplementsAtlas` hold with the
constants of the runs above, and so does `NoHigherThanItsJumps` of `Simulation`;
`AcksAreReported` of `MatchManager` holds in `mm_pairs`.  The properties of `mm_pairs` also hold
with a command queue of 2 and a timeout of 4 (1.43 million states), and
`LobbyMeansConnected`, which `hs_stale` refutes of a second match, holds of the first
(3 clients in one match of 3).  Three configurations can be run by hand and pass:

- `MatchManagerQueueing.cfg`: 3 sessions compete for matches of 2 that all time out, instants up
  to 4; `TypeOK`, `AcksAreReported` and the properties of `mm_pairs` but the refinement
  (479,470 states);
- `HandshakePeers.cfg`: 3 clients that ask once, two matches of 2 with other peers each, 1 retry;
  `TypeOK`, `WelcomesAreExpected`, `StartsAreAwaited`, `OffsetIsFresh` (1.03 million states);
- `EngineRefused.cfg`: a window of 2, so that rollbacks are refused; the properties of
  `engine_rollback` and `TypeOK`.

**Bounds, and why they are enough.**

- `MaxPending` bounds the requests that the heap and the command queue hold when one
  more is taken in, so that the bag is finite; retries come on top of it.  With the 2 of
  `mm_pairs` a session can have a live, a cancelled and a revived entry at once, which are all
  the cases the handlers tell apart.
- `Horizon` is the instant after which the clock stands still.  In `mm_live`, where no
  property compares times, it is 0.  That `enqueueTime` decides needs two matches that
  fail at different ticks and a player of the first that still waits when the
  second fails, because its partner cancelled in between.  With one command per tick
  and a timeout of 5 the earliest such ticks are 5 and 7, which the `Horizon` of 6 in
  `mm_pairs` tells apart; with the times compared the wrong way (the mutant
  `CompareNewest`) TLC finds that state.
- `TimeoutTicks` of 5 in `mm_pairs` is the smallest at which two players can both report,
  with one command per tick, before the match is given up: two ticks pass before
  `WaitPeerReady` and one for the packets to leave.  For the one player of a match in
  `mm_live` it is 4.
- `MatchIdMod` equals `TimeoutTicks`, the smallest the assumption `MatchIdAssumption`
  admits: ids wrap around as soon as they can without meeting.
- `SendQueueCap` is `(RequestQueueCap + 1) * MaxMatchPlayer`: each tick a
  match that was reported sends its starts and a match made earlier its intros.
  With a packet more per tick (the mutant `StartPacketsTwice`) it is too small.
- 4 cells and counters modulo 8 make every index pass both the end of the array
  and the end of the counter's range, at every filling of the queue.
- 4 chunks allow one with each thread and two in the queue.
- Packets of 3 and 5 bytes and receives of up to 6 give receives that end in the
  size field, in the body, at a packet's end, and in the next packet.
- `MaxRequests` of 2 in `hs_again` lets a client ask again while its first match is being
  arranged, while it is in the lobby, and after the start.  There the start of the first
  match can come in the lobby of the second, which is the case the two properties except:
  without the exception TLC refutes both.  That run has no retries by the server and
  `hs_live` no second request; the proofs (section 4) have both.
- `MaxInFlight` bounds only what a client sends when WELCOMEs are repeated.  Two
  matches are the least in which state of the last one can be left over, and the
  least in which a match is retried with other players.
- A window of 4 with inputs 2 late and 1 early is the smallest in which a late
  record, an early one and the one of this tick share the ring; `MAX_SIMULATION_NUM`
  is the code's 3.  `MaxTick`, `MaxChangeTick` and `MaxStates` let the state change in
  every tick while slots of the last world are still filled.
- A byte of 2 bits and ranges of up to 255 keep every relation the codec depends on:
  values that end in a byte, at its end and in the next, ranges that are powers of
  two and that are one less.  A reduction of the bits of a byte reduces the loops,
  not their cases.
- The arena and the layers of `MCSimulation` make boxes touch, cross and pass by each
  other, a jump start on the ground and in the air, and a rollback hit every moment
  of a flight.
- With atlases of 5 by 5 the glyphs fill a shelf, begin the next, and fill an atlas
  within the four characters; a text of two characters has its quads in one atlas
  or two.

**Symmetry** is used for sessions, clients, chunks and datagrams, never in a run with
a liveness property.  `FirstStarts` is stated of one client instead: no definition chooses
among the clients, so what holds of one in every behaviour holds of each.
`CHECK_DEADLOCK FALSE` stands where the system stops: the queue
and the pool after their destruction, a connection whose packets have all been
processed, clients whose requests are used up, an engine at its last tick, a
packet that has been handled.

**Fairness.**

- `MatchManager!FairSpec`: weak fairness of the loop.  `MatchServer::Run` never waits:
  `Select` is called in the receiving thread only, and draining a queue is bounded by
  its capacity.  (A blocking `Send` could stop it; that is the operating system's
  decision and is assumed away here.)  Clients owe nothing.
- `SPSCQueue!RingFairSpec`: weak fairness of the consumer, which in every use in the
  code is a loop that polls each frame.  The producer owes nothing.
- `Handshake!FairSpec`: weak fairness of each client's receiving of TCP packets and of the
  end of each match.  TCP delivers, the receiving thread cuts one packet after each
  receive, and the main loop, which never waits, handles it.  It is not assumed that a
  packet which has come is handled: one that came in the same receive as another stays in
  `recvBuffer` and is handled when the next one comes, if one comes, so `ReceiveTCP` is
  not even enabled for it.  `EveryoneStarts` names that case (`LeftInBuffer`), and without
  the exception TLC refutes it.  That the server starts a match or gives it up is
  `MatchManager!MatchesResolve`.  UDP owes nothing: HELLOs and WELCOMEs may all be lost, and
  then the match is given up.  Nor is any command of a client assumed to be handled by the
  server before that.
- `Simulation!FairSpec`: a tick that has begun is finished and a rollback simulates all
  its ticks, since both are loops without a wait in one function.  Each player's
  record is there in infinitely many ticks (strong fairness): each frame records the
  local player before it simulates, and a peer does the same.  Nothing prevents
  rollbacks from coming again and again in between.

Each property is paired in `PROJECT.json` with a mutant, a plausible slip in the
translated code (a swapped comparison, a forgotten erase, an off-by-one), under
which TLC refutes it.


## 4. Proofs

Eight modules prove, for every value of the constants that satisfies the named
assumptions:

| theorem | property |
|---|---|
| `MatchManagerProofs!TypeCorrect` | `TypeOK` |
| `...!WaitingAreQueued` | `LiveRequestsQueued` |
| `...!MatchesAreFull` | `FullRoster` |
| `...!IdsDoNotCollide` | `NoIdCollision` |
| `...!AcksAreTrue` | `AcksAreReported` |
| `...!StartsAreEarned` | `StartsOnlyReportedMatches` (of every step) |
| `...!PriorityIsServed` | `PriorityServed` (of every step) |
| `...!IntrosReachPlayers` | `IntroReachesPlayers` (if the send queue suffices) |
| `...!NobodyIsForgotten` | `NobodyForgotten` (if the send queue suffices) |
| `...!MatchManagerIsService` | `ImplementsService` (refinement) |
| `QueueProofs!CellsAreSafe` | `CellAccessSafe` |
| `...!RingIsAQueue` | `ImplementsFifo` (refinement) |
| `...!TypeCorrect` | `TypeOK` of `UdpReceive` |
| `...!PoolStaysConsistent` | `PoolConsistent` |
| `...!ChunksHaveOneOwner` | `OneOwner` |
| `...!PacketsStayIntact` | `PacketsIntact` |
| `...!NoDatagramDropped` | `NothingDropped` (of every step) |
| `EngineProofs!TypeCorrect` | `TypeOK` |
| `...!WindowIsCovered` | `SnapshotsCoverWindow` |
| `...!WorldIsOfTimelines` | `WorldFollowsTimelines` |
| `...!HeardInputIsApplied` | `HeardIsApplied` |
| `...!PressesAreApplied` | `PressesReachWorld` (of every step; if no intent has two keys) |
| `SimulationProofs!SweepFindsTouchingPairs` | `FindsTouchingPairs`, of any sweep |
| `...!SystemsUseTheSweep` | `ImplementsCollision` (refinement) |
| `...!TicksFindTouchingPairs` | `FindsTouchingPairs`, of a running simulation |
| `...!AirborneExactlyWhileJumping` | `AirborneMeansJumping` |
| `...!FramesDrawTheLastTick` | `DrawsWhatWasSimulated` |
| `HandshakeProofs!OnlyPeersWelcome` | `WelcomesAreExpected` |
| `...!StartFindsLobby` | `StartsAreAwaited` |
| `...!StartTimeIsFresh` | `OffsetIsFresh` |
| `WireProofs!StreamStaysAligned` | `StreamAligned` |
| `...!PacketsArriveInOrder` | `PacketsInOrder` |
| `...!ReaderStaysInStep` | `ReaderInStep` |
| `...!ValuesAlwaysSurvive` | `ValuesSurvive` |
| `...!ReaderStaysInside` | `ReadsStayInside` |
| `...!PacketsImplementCodec` | `ImplementsCodec` (refinement) |
| `...!HandlersRead` | `HandlersReadTheirParts` |
| `...!PacketsSurvive` | `ReaderInStep`, `ValuesSurvive`, `ReadsStayInside`, of every packet of the game |
| `RenderingProofs!GlyphsNeverOverlap` | `GlyphsApart`, of any requests |
| `...!RenderingImplementsAtlas` | `ImplementsAtlas` (refinement) |
| `...!RenderedGlyphsApart` | `GlyphsApart`, of a running program |
| `...!EverythingDrawnWithItsOwn` | `DrawnWithTheirOwn` |
| `...!FramesAreComplete` | `FrameIsComplete` |

**MatchManager.**  `FullRoster` is not inductive: that the heap yields a player for
every slot depends on how many wait while the roster is filled.  `ContextInv` says
that the sessions that still wait suffice for the slots still open, and
`LiveRequestsQueued` that each of them is in the heap, so the heap cannot run dry.
`NoIdCollision` needs `IdInv`: the age of a match, in ids given out since, is bounded by
its timer, because at most one id is given out per tick, and the timer is
bounded by the timeout; hence the assumption that there are at least as many ids
as ticks in a timeout (2^16 against 60 times the timeout in seconds).
`AcksAreReported` needs `AckInv`: that the connections of a match are its players, and
that every report in the command queue was made.  The two action properties
follow from the invariant and the definition of the step.

`IntroReachesPlayers` and `NobodyForgotten` depend on no packet being dropped: the
result of `Emplace` is ignored.  `SendQueueSuffices`, that the queue of packets has
room for `(RequestQueueCap + 1) * MaxMatchPlayer`, is the condition under which they
are proved.  `BudgetInv` is why it is enough: every match that starts in a tick
became complete by a report that was in the command queue at the beginning of that
tick, so there are at most `RequestQueueCap` of them, and at most one match sends
its intros, because at most one is made per tick (`OneByOne`).  The code's queues
hold 128 commands and 256 packets: 129 fit for the one player per match it ships
with; for two, 258 do not, and a tick in which 128 matches start and one is
introduced would lose packets.

`MatchManagerIsService` needs of these invariants that rosters are full and of
different sessions, that whoever waits is in the heap, and that ids do not collide.
The work is in the bags: the request that is popped for a slot moves from the heap to
`Drawn` and leaves the sum as it is (`BagMove`), which only holds because different
slots have different sessions; the roster is taken out of the bag at once when the
match is added; and a retry puts back one request for each player with tries left.
A pop that throws an entry away is `Forget`: its session does not wait, or has
another request in the bag.  `MatchTimeout` comes after the acknowledgements were
looked at, so a match that is given up was not reported by all.

**SPSCQueue.**  The proof counts cells from the
consumer's index: `Cell(k)` is the `k`-th from there.  Its first part is arithmetic
of remainders: for `k` below `SizeT` these are all cells and different ones, also
when the counters wrap, because the counters' range is a multiple of the number of
cells (`IndexAssumption`; 2^64 and a power of two in the code).  The invariant says
of each of them what it holds: below the distance of the counters an object, except
for the one that has just been moved out; beyond it nothing, except for the one that
has just been constructed.  `CellAccessSafe` follows.  For `ImplementsFifo` the
cells are read as the sequence `Contents`: publishing appends to it, releasing takes
its head, and everything else leaves it as it is.

**UdpReceive.**  The invariant adds to the properties that `free` has no chunk twice and
holds exactly what is not valid (`PoolInv`), and at which points of its loop a
thread owns a chunk (`StageInv`).  `NothingDropped` is the pigeonhole principle: the
packets in the queue own different chunks and the receiving thread owns one
more, so the queue is shorter than the pool, and the pool is assumed to be no
larger than the queue (both are 128 in the code).

**Engine.**  The three properties lean on each other.  `CoverInv` says that the slots
of the window hold their own ticks; `PrefixInv` that a capture is the world up to its
tick; `Settled` names the ticks that have been simulated and that the next rollback
will not redo.  `FollowInv` says that, while all messages were punctual, the world of
the settled ticks that are recent enough for their records to be there still is what
the timelines imply; `HeardInv` that a record that was received keeps its slot as
long as its tick may be simulated again, and that the world shows it afterwards.
That the slot is kept needs `PunctualAssumption`: the latest and the earliest
punctual message are for ticks less than a window apart, so they have different
slots.

`PressesReachWorld` is proved from two more invariants.  `KeysInv` says that the
recorder mirrors the keyboard: its `held` is what is held, its `down` what has gone down
since the record began and was not held before.  `RecordInv` says that in the first
state of the game the record is of the next tick, lies in that tick's slot, and is in
the world once the tick is simulated.  `KeysInv` needs `OneKeyPerIntent`.  That is true
of the keys that `InitKeyActionMap` binds (W, S, A, D and the space bar, to five
intents), but `BindInputIntent` does not enforce it: with two keys for one intent, the
release of one would end what the other still holds.

**Collision, Simulation.**  The sweep has found exactly the touching pairs among the
entities it has passed; an entity that was thrown out of `active` ends before every
later one begins, since the boxes are sorted and `activeMaxX` bounds those that are
left.  `AirborneMeansJumping` is proved together with the same statement about every
snapshot, which is what makes it survive a rollback.  `DrawInv` follows the phases of a
tick: from the phase that writes the matrices to the end of the tick nothing moves,
and a sweep runs only inside the last phase.  `SystemsUseTheSweep` maps each phase to
a step of `Collision` or to none (the entities may be put anywhere while no sweep
runs), which carries what is known of the sweep over to every tick.

**Handshake.**  `WelcomesAreExpected` is an invariant of the addresses: a client sends
`HELLO` only to addresses of its `conn`, all of which are in `addToId`, whose numbers fit
`peerConnected`; nothing is ever taken out of the map.

`StartsAreAwaited` and `OffsetIsFresh` are about the order of two TCP streams and the state
on both their sides.  `OnlyMatchInv` says `OneMatchInv` of each client that has not
asked again before its match began; it starts to hold of a client anew with every match,
however many it asks for in its life.  `Settled` is a client that the server owes nothing: it
waits for no match, every match it is in is over, and no packet is on its way to
it.  `PlaceInv` says that a client has at most one request on its way, and only when it is
settled; so does one that has not asked since its last match began.  `RosterInv` says
that while a match is open for a client (not over, or its start is on its way) the
client does not wait and is in no later match.  `IntroInv` and `ReportInv` say which
packets can be on their way: intros in the order of their matches, reports only of matches in
which the client has come to the lobby.  `StartInv` concludes that a start is the last packet to its
client and that the client is in the lobby of that match; `SyncInv` follows the
request and the answer of the time of the latest match, which TCP keeps in front of
the report and of the start.

Nothing limits how often the server gives a match up and makes another of the same
players, nor what the others do: they may ask as often as they like, and only the one client
the statement is about must not.  `OneMatchInv(c)` is kept by every step of another client
(`Elsewhere`, `ClientElsewhere`, `ServerElsewhere`), and by each of its own, with one lemma
for each action.  A client that asks again leaves the statement (`MoreIsKept`): the intro
for its second request takes it out of the lobby of its first match, and the start of that
one is lost, or comes in the lobby of the second.  Of the server, the steps use six facts
that follow from `MatchService` (`AskEffect` to `GiveUpEffect`): above all that whoever is
drawn did wait and waits no longer, and that nobody waits again but the players of a match
that is given up.

**TcpFraming.**  `StreamAligned` is proved in a form that keeps the buffers apart:
there is a packet `k` with `recvBuffer`, `wire` and `sendBuffer` holding consecutive
bytes from its beginning to the end of the stream (`AlignedAt`).  Then the two bytes that
are read as a size are those of packet `k`, which determines it because no packet is empty; and what
is in the queue or was processed are packets before `k`, in order (`OrderedBefore`), since
each that is cut out is `k` itself.

**BitCodec.**  The loops of writer and reader compute the same function of the bits
(`Advanced`), from the same start, under the same condition (`Continues`), which depends on
nothing that the reader does not have.  `Traced` says so of the writer: from `Start`, each bit of a field leads from the
state before it to the next, and its loop goes on before each and not at the end.  The reader is then at
one of these states (`ReaderAt`) until it has reached the last one.  That values survive is
arithmetic: what the loop has is the remainder of the value by the mask (`Holds`), and when a
further bit would leave the range, nothing but the remainder is left of a value that is inside it
(`WholeValue`).  No power of two is needed, nor anything about the sizes of fields.

**Packets.**  `Expected(p)` is, for each place `p` in a handler, the set of the sequences of
fields that it reads from there to its end.  `EveryPartReads` says that the first field of
each of them is the part the handler asks for, with the range it asks with, and that the rest is
expected at the place it goes to (`After`); the loops over characters and players count on
numbers that were read, which is why these have to keep to their ranges
(`CountsAssumption`).  `BuiltIsExpected` says that what the builders make, with as many characters
and players as you like, is expected at the beginning, behind the size if it is a TCP
packet.  That the size is behind the reader needs a calculation: it is written as the
number 0, and a 0 takes the bits of two bytes because the bound is that of a `uint16_t`
(`SizeBits`, `TwoTo`).  So each step of `Packets` is one of `BitCodec`, and
`PacketsSurvive` carries over what is proved of it.  The assumptions on the
constants are those of the types, and that packets are only made by their builders.

**Atlas, Rendering.**  Every glyph lies behind the cursor of its atlas: above the
shelf or on it to the left.  `DrawnWithTheirOwn` needs to know what is bound: while
entities are drawn the members `curMesh`, `curShader` and `curTexture` tell the
truth about the context; while texts are, only that the program is that of the font
and depth is off.  And the waiting quads all have their glyphs in `currentAtlas`,
which is never left before they are drawn.  `RenderingImplementsAtlas` then carries
`GlyphsNeverOverlap` over to the whole renderer.  `FrameIsComplete` rests on `FrameInv`: what
has been drawn of the entities is the list up to the current one (`EntitiesInv`), and what
has been drawn of the texts, with the quads that still wait behind it, is what the texts
say up to the next character (`TextsInv`), so that a flush moves quads from one to the
other and neither loses nor repeats one.

**SequenceLemmas.**  The texts of a frame and the players of a packet are joined with
`FlattenSeq`, which is defined by recursion, and the library's induction theorems take an
operator as a parameter, which the installed provers cannot instantiate.  The module
does induction with sets of numbers instead: a set of them has a least element
(`LeastExists`), so one that holds 0 and each successor is `Nat` (`EveryNatural`).
From that follows what `FlattenSeq` does at the two ends of a sequence (`FlattenAppend` for
the texts, `FlattenCons` for the players), which is all the proofs need.

**Only model-checked**: liveness (`MatchesResolve`, `PublishedIsTaken`, `EveryoneStarts`,
`EveryJumpLands`), which the installed provers do not reach, and `SolidsAreClosed`, which is
about four concrete meshes of fixed size: there TLC has seen every case.


## 5. Disagreements found

One listed run states what the protocol means, and TLC shows that the code does
otherwise.

- **`hs_stale`.**  A second match begins with the connections of the first counted as
  made (`NetworkService.cpp:272`), and with its addresses (`:294`): a client may report
  success without having heard from any of its peers.

Eleven configurations more can be run by hand and end in a violation as well.  Each
names the one property that fails.

| configuration | property | what happens |
|---|---|---|
| `MatchManagerIntroAddress.cfg` | `IntroCarriesPeerAddress` | `ReQueing` (`MatchManager.cpp:220`) builds the request for the retry without its address: after one timeout every MATCH_INTRO carries 0.0.0.0:0, and the retry can only succeed if the clients still know each other |
| `MatchManagerStaleEntry.cfg` | `ServedRequestIsCurrent` | lazy deletion tests the session, not the entry: cancel, ask again, and the cancelled entry is served (`MatchManager.cpp:113`) |
| `TcpFramingCoalesced.cfg` | `CompletePacketsExtracted` | after a receive at most one packet is cut out of the buffer (`NetworkService.cpp:191` of the server, `:157` of the client): of two that arrive together the second stays until the peer sends more; a MATCH_START behind a TIME_SYNC_RES is found when the next packet comes, if one comes |
| `TcpFramingOverRead.cfg` | `CopyStaysInBuffer` | the copy of a packet reads two bytes too far (`Session.cpp:28`) |
| `UdpReceiveStart.cfg` | `ReceiverRuns` | the thread is created before the flag it tests is set (`NetworkService.cpp:379`) and may be gone at once |
| `HandshakeSolo.cfg` | `HelloMeansPeersMissing` | with `MAX_MATCH_PLAYER` 1, as it stands, nobody sends the WELCOME a client waits for |
| `HandshakeRepeat.cfg` | `PlayingIsKept` | a repeated WELCOME takes a playing client back to the lobby (`NetworkService.cpp:66`) |
| `EngineSent.cfg` | `SentIsApplied` | `InputRecord.h:9` calls a record the per-tick input snapshot used by the simulation; of a frame's ticks only the first is recorded (`Engine.cpp:151`), and the message for the others is built from what an earlier tick left in the slot (`InputNetMessage.cpp:20`) |
| `PacketsBounds.cfg` | `BoundsSurvive` | `NetBitWriter.h:35` takes values in `[0, maxValue)`; its callers pass the greatest value of the type as the bound (`Match.cpp:86`), and that value itself loses its last bit: port 65535 arrives as 32767 |
| `RenderingVertices.cfg` | `VerticesAreOfFaces` | `Mesh.cpp:114` and `:171` resize the vector of vertices and then append: the mesh starts with blank vertices that no triangle uses |
| `RenderingCulled.cfg` | `EntitiesAreCulled` | the constructor enables culling (`RenderSystem.cpp:38`), the texts of the first frame disable it (`:129`), and nothing enables it again (`:152`) |

Seen while modelling, and stated in comments of the modules: the record of the first
frame after a later `ChangeState` is skipped, because the recorder's tick counts on
while the engine's begins at 0 (`PressesReachWorld` is stated of the first state for
that reason); a key that is released and pressed again between two records gives no
`down` (`InputRecord.h:19`); and the first frame after a `ChangeState` may be drawn
before any tick was simulated.  Seen while reading, and outside the models: the
clean-up of a closed connection calls the overload for UDP sessions
(`NetworkService.cpp:245`), so TCP sessions are never removed; `remaining < 0`
(`NetworkService.cpp:352` of the client) compares an unsigned number.


## 6. Not modelled, and the plan

Not modelled, and why:

- The accepting and losing of TCP connections on the server.  `ProcessNewClient` and
  `HandleReceive` replace the vector of readable sockets they are called from a loop
  over (`NetworkService.cpp:248`), and the main thread walks the map that the
  receiving thread inserts into (`SessionManager.cpp:115`).  After either the code
  may do anything, so that nothing can be stated of the sessions that the code,
  rather than the model, would make true.
- Queues of `EventDispatcher` other than the immediate signal the recorder listens to:
  they have no user.  `NetMessageRegistry` is called from comments only.
- `CameraSystem` (matrices), colours and positions on the screen, the loading of
  textures, shaders and fonts, `WindowService`, `Logger` and the socket wrappers: single
  calls of OpenGL, GLFW, the console and the operating system.
- The example game and vendored code.  The worlds the game's states set up are the
  worlds of `MCRendering` and the entities of `MCSimulation`.
- Floating-point rounding in movement and collision.

The plan of this project is done.  What would take it further: the packets of the
server sent when the code sends them (`MatchManager` and `Handshake` in one state
space, with the ticks between the making of a match and its intro), and the
accepting and losing of connections, once the code decides what becomes of them.
