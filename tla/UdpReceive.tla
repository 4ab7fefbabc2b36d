----------------------------- MODULE UdpReceive ------------------------------
(***************************************************************************)
(* How a datagram gets from the socket to the game (engine,                *)
(* NetworkService and MemoryPool): the network thread receives it into a   *)
(* chunk of bufferPool_ and hands the chunk through pendingPackets_ to the *)
(* main thread, which reads it and gives the chunk back.                   *)
(*                                                                         *)
(* MemoryPool takes its mutex in Allocate and in Deallocate, so each is    *)
(* one step.  So is each call on the queue (SPSCQueue!ImplementsFifo).     *)
(* Abstracted: what is in a datagram; its length and its sender, which are *)
(* copied with the pointer.                                                *)
(***************************************************************************)
EXTENDS Integers, Sequences, FiniteSets

CONSTANTS
    Chunks,     \* the chunks of bufferPool_, 128 in the code
    Datagrams,  \* what can be received
    Link,       \* what a free chunk holds: the pointer to the next one
    NullPtr,    \* nullptr
    QueueCap    \* capacity of pendingPackets_, 128 in the code

ASSUME PoolAssumption ==
    /\ IsFiniteSet(Chunks)
    /\ NullPtr \notin Chunks
    /\ Link \notin Datagrams

(* The pool is not larger than the queue: a packet always finds room. *)
ASSUME QueueAssumption == QueueCap \in Nat /\ Cardinality(Chunks) <= QueueCap

VARIABLES
    pool,            \* bufferPool_: its free list, valid bits and usedSize_
    content,         \* chunk -> what its memory holds
    pendingPackets_, \* the packets; datagram is what was received (history)
    running,         \* UDPRecvThreadRunning_
    receiver,        \* where NetThreadLoop is, and its buffer
    main             \* where the main thread is, and its packet

vars == <<pool, content, pendingPackets_, running, receiver, main>>

Packet   == [buffer : Chunks, datagram : Datagrams]
NoPacket == [buffer |-> NullPtr, datagram |-> Link]

-----------------------------------------------------------------------------
(***************************************************************************)
(* MemoryPool.  free is the list that starts at free_; a chunk is valid    *)
(* while its bit in valid_ is on.                                          *)
(***************************************************************************)
Exhausted(p) == p.free = <<>>

Allocate(p) ==
    [free |-> Tail(p.free), valid |-> p.valid \cup {Head(p.free)},
     usedSize |-> p.usedSize + 1]

Deallocatable(p, b) == b \in Chunks /\ b \in p.valid

DeallocateStillValid(p, b) ==
    IF Deallocatable(p, b)
    THEN [p EXCEPT !.free = <<b>> \o p.free, !.usedSize = p.usedSize - 1]
    ELSE p

Deallocate(p, b) ==
    IF Deallocatable(p, b)
    THEN [free |-> <<b>> \o p.free, valid |-> p.valid \ {b}, usedSize |-> p.usedSize - 1]
    ELSE p

(* Freeing a chunk overwrites its first bytes. *)
Free(b) ==
    /\ pool' = Deallocate(pool, b)
    /\ content' = [c \in Chunks |-> IF c = b /\ Deallocatable(pool, b) THEN Link ELSE content[c]]

-----------------------------------------------------------------------------
Init ==
    /\ pool \in [free : [1 .. Cardinality(Chunks) -> Chunks], valid : {{}}, usedSize : {0}]
    /\ \A c \in Chunks : \E k \in DOMAIN pool.free : pool.free[k] = c
    /\ content = [c \in Chunks |-> Link]
    /\ pendingPackets_ = <<>>
    /\ running = FALSE
    /\ receiver = [at |-> "none", buffer |-> NullPtr]
    /\ main = [at |-> "start", packet |-> NoPacket]

(***************************************************************************)
(* ThreadStart creates the thread and then sets its flag; ThreadStop       *)
(* clears the flag and joins.                                              *)
(***************************************************************************)
CreateThread ==
    /\ main.at = "start"
    /\ main' = [main EXCEPT !.at = "flag"]
    /\ receiver' = [receiver EXCEPT !.at = "test"]
    /\ UNCHANGED <<pool, content, pendingPackets_, running>>

SetFlag ==
    /\ main.at = "flag"
    /\ main' = [main EXCEPT !.at = "frame"]
    /\ running' = TRUE
    /\ UNCHANGED <<pool, content, pendingPackets_, receiver>>

ClearFlag ==
    /\ main.at = "frame"
    /\ main' = [main EXCEPT !.at = "join"]
    /\ running' = FALSE
    /\ UNCHANGED <<pool, content, pendingPackets_, receiver>>

Join ==
    /\ main.at = "join"
    /\ receiver.at = "exited"
    /\ main' = [main EXCEPT !.at = "stopped"]
    /\ UNCHANGED <<pool, content, pendingPackets_, running, receiver>>

-----------------------------------------------------------------------------
(***************************************************************************)
(* NetThreadLoop.                                                          *)
(***************************************************************************)
TestFlag ==
    /\ receiver.at = "test"
    /\ receiver' = [receiver EXCEPT !.at = IF running THEN "allocate" ELSE "exited"]
    /\ UNCHANGED <<pool, content, pendingPackets_, running, main>>

AllocateBuffer ==
    /\ receiver.at = "allocate"
    /\ IF Exhausted(pool)
       THEN /\ receiver' = [at |-> "receive", buffer |-> NullPtr]
            /\ UNCHANGED pool
       ELSE /\ receiver' = [at |-> "receive", buffer |-> Head(pool.free)]
            /\ pool' = Allocate(pool)
    /\ UNCHANGED <<content, pendingPackets_, running, main>>

(* A datagram is there.  recvfrom does not write to a null pointer: it fails
   and leaves the datagram in the socket. *)
ReceiveDatagram(d) ==
    /\ receiver.at = "receive"
    /\ receiver.buffer # NullPtr
    /\ content' = [content EXCEPT ![receiver.buffer] = d]
    /\ receiver' = [receiver EXCEPT !.at = "emplace"]
    /\ UNCHANGED <<pool, pendingPackets_, running, main>>

(* The socket does not block: there may be none. *)
ReceiveNothing ==
    /\ receiver.at = "receive"
    /\ receiver' = [receiver EXCEPT !.at = "deallocate"]
    /\ UNCHANGED <<pool, content, pendingPackets_, running, main>>

HasRoomBelow == Len(pendingPackets_) < QueueCap - 1

HasRoom == Len(pendingPackets_) < QueueCap

EmplaceAndDeallocate ==
    /\ receiver.at = "emplace"
    /\ pendingPackets_' =
         Append(pendingPackets_, [buffer |-> receiver.buffer, datagram |-> content[receiver.buffer]])
    /\ receiver' = [at |-> "test", buffer |-> NullPtr]
    /\ Free(receiver.buffer)
    /\ UNCHANGED <<running, main>>

(* The result of Emplace is ignored. *)
EmplacePacket ==
    /\ receiver.at = "emplace"
    /\ pendingPackets_' =
         IF HasRoom
         THEN Append(pendingPackets_,
                     [buffer |-> receiver.buffer, datagram |-> content[receiver.buffer]])
         ELSE pendingPackets_
    /\ receiver' = [at |-> "test", buffer |-> NullPtr]
    /\ UNCHANGED <<pool, content, running, main>>

DeallocateBuffer ==
    /\ receiver.at = "deallocate"
    /\ Free(receiver.buffer)
    /\ receiver' = [at |-> "test", buffer |-> NullPtr]
    /\ UNCHANGED <<pendingPackets_, running, main>>

Receiver ==
    \/ TestFlag \/ AllocateBuffer \/ ReceiveNothing \/ EmplacePacket \/ DeallocateBuffer
    \/ \E d \in Datagrams : ReceiveDatagram(d)

-----------------------------------------------------------------------------
(***************************************************************************)
(* ProcessQueuedUDPPacket, called once a frame.                            *)
(***************************************************************************)
DequeueAndFree ==
    /\ main.at = "frame"
    /\ pendingPackets_ # <<>>
    /\ main' = [at |-> "process", packet |-> Head(pendingPackets_)]
    /\ pendingPackets_' = Tail(pendingPackets_)
    /\ Free(Head(pendingPackets_).buffer)
    /\ UNCHANGED <<running, receiver>>

DequeuePacket ==
    /\ main.at = "frame"
    /\ pendingPackets_ # <<>>
    /\ main' = [at |-> "process", packet |-> Head(pendingPackets_)]
    /\ pendingPackets_' = Tail(pendingPackets_)
    /\ UNCHANGED <<pool, content, running, receiver>>

(* The reader has been through the packet and its handler is done. *)
DeallocatePacket ==
    /\ main.at = "process"
    /\ Free(main.packet.buffer)
    /\ main' = [at |-> "frame", packet |-> NoPacket]
    /\ UNCHANGED <<pendingPackets_, running, receiver>>

Main == CreateThread \/ SetFlag \/ ClearFlag \/ Join \/ DequeuePacket \/ DeallocatePacket

Next == Receiver \/ Main

Spec == Init /\ [][Next]_vars

-----------------------------------------------------------------------------
(* Every variable has its type. *)
TypeOK ==
    /\ pool \in [free : Seq(Chunks), valid : SUBSET Chunks, usedSize : 0 .. Cardinality(Chunks)]
    /\ content \in [Chunks -> Datagrams \cup {Link}]
    /\ pendingPackets_ \in Seq(Packet)
    /\ running \in BOOLEAN
    /\ receiver \in [at : {"none", "test", "allocate", "receive", "emplace", "deallocate", "exited"},
                     buffer : Chunks \cup {NullPtr}]
    /\ main \in [at : {"start", "flag", "frame", "process", "join", "stopped"},
                 packet : Packet \cup {NoPacket}]

(* The free list holds every chunk that is not allocated, once, and
   usedSize_ counts the others, however the two threads' calls interleave. *)
PoolConsistent ==
    /\ \A k, l \in 1 .. Len(pool.free) : pool.free[k] = pool.free[l] => k = l
    /\ {pool.free[k] : k \in 1 .. Len(pool.free)} = Chunks \ pool.valid
    /\ pool.usedSize = Cardinality(pool.valid)

QueuedBuffers == {pendingPackets_[k].buffer : k \in 1 .. Len(pendingPackets_)}

(* An allocated chunk has exactly one owner, the receiving thread, a packet
   in the queue or the main thread: none is leaked and none is shared. *)
OneOwner ==
    /\ \A k, l \in 1 .. Len(pendingPackets_) :
          pendingPackets_[k].buffer = pendingPackets_[l].buffer => k = l
    /\ receiver.buffer \notin QueuedBuffers
    /\ main.packet.buffer \notin QueuedBuffers
    /\ main.packet.buffer = receiver.buffer => receiver.buffer = NullPtr
    /\ pool.valid = (QueuedBuffers \cup {receiver.buffer, main.packet.buffer}) \ {NullPtr}

(* A packet's memory still holds what was received for it until the main
   thread is done with it. *)
PacketsIntact ==
    /\ \A k \in 1 .. Len(pendingPackets_) :
          content[pendingPackets_[k].buffer] = pendingPackets_[k].datagram
    /\ main.at = "process" => content[main.packet.buffer] = main.packet.datagram

(* The ignored result of Emplace is true: nothing received is dropped, though
   the main thread may not drain the queue for any length of time. *)
NothingDropped ==
    [][receiver.at = "emplace" /\ receiver'.at # "emplace" =>
          Len(pendingPackets_') = Len(pendingPackets_) + 1]_vars

(* NetworkService.cpp:17, "use network thread": from the end of ThreadStart
   to ThreadStop there is a thread in NetThreadLoop. *)
ReceiverRuns == main.at \in {"frame", "process"} => receiver.at # "exited"
=============================================================================
