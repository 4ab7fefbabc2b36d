------------------------------ MODULE SPSCQueue ------------------------------
(***************************************************************************)
(* SPSCQueue<T, sizeT> (engine/include/tomato/containers/SPSCQueue.h), the *)
(* lock-free ring between one producing and one consuming thread.          *)
(*                                                                         *)
(* Each action makes at most one access to memory the other thread writes: *)
(* an index is loaded relaxed only by the thread that stores it, so such a *)
(* load belongs to the step that follows it.  An acquire load that returns *)
(* an older value of the other thread's index behaves as if it had been    *)
(* executed earlier; nothing else of its thread lies between, so the       *)
(* interleavings below include it.                                         *)
(***************************************************************************)
EXTENDS Integers, Sequences

CONSTANTS
    Values,    \* the objects put into the queue
    Raw,       \* a cell that holds no object
    SizeT,     \* sizeT, the number of cells
    IndexMod   \* number of values of a size_t index: 2^64 in the code

ASSUME RawAssumption == Raw \notin Values

ASSUME IndexAssumption ==
    /\ SizeT \in Nat /\ SizeT >= 2
    /\ \E k \in 2 .. IndexMod : IndexMod = k * SizeT

VARIABLES
    write_, read_,  \* the two atomic indices
    cells,          \* the cells_ with the object that lives in each
    producer,       \* where the producing thread is, and its item
    consumer,       \* where the consuming thread is, and its out
    accepted,       \* the result of the last Emplace or Enqueue
    taken           \* the object of the last Dequeue, Raw if it failed

ringVars == <<write_, read_, cells, producer, consumer, accepted, taken>>

Cells   == 0 .. SizeT - 1
Indices == 0 .. IndexMod - 1

(* index & mask_ *)
Index(i) == i % SizeT

Advance(i) == (i + 1) % IndexMod

(* write - read, computed in size_t *)
Distance(read, write) == (write - read) % IndexMod

FullSigned(read, write) == write - read = SizeT

Full(read, write) == Distance(read, write) = SizeT

EmptyMasked(read, write) == Index(read) = Index(write)

Empty(read, write) == read = write

-----------------------------------------------------------------------------
RingInit ==
    /\ write_ = 0
    /\ read_ = 0
    /\ cells = [i \in Cells |-> Raw]
    /\ producer = [at |-> "idle", item |-> Raw]
    /\ consumer = [at |-> "idle", out |-> Raw]
    /\ accepted = FALSE
    /\ taken = Raw

(***************************************************************************)
(* The producer, in Emplace and Enqueue alike.                             *)
(***************************************************************************)
Emplace(v) ==
    /\ producer.at = "idle"
    /\ ~Full(read_, write_)
    /\ producer' = [at |-> "construct", item |-> v]
    /\ UNCHANGED <<write_, read_, cells, consumer, accepted, taken>>

EmplaceFull ==
    /\ producer.at = "idle"
    /\ Full(read_, write_)
    /\ accepted' = FALSE
    /\ UNCHANGED <<write_, read_, cells, producer, consumer, taken>>

Construct ==
    /\ producer.at = "construct"
    /\ cells' = [cells EXCEPT ![Index(write_)] = producer.item]
    /\ producer' = [producer EXCEPT !.at = "publish"]
    /\ UNCHANGED <<write_, read_, consumer, accepted, taken>>

Publish ==
    /\ producer.at = "publish"
    /\ write_' = Advance(write_)
    /\ producer' = [at |-> "idle", item |-> Raw]
    /\ accepted' = TRUE
    /\ UNCHANGED <<read_, cells, consumer, taken>>

Producer == (\E v \in Values : Emplace(v)) \/ EmplaceFull \/ Construct \/ Publish

(***************************************************************************)
(* The consumer, in Dequeue.                                               *)
(***************************************************************************)
Dequeue ==
    /\ consumer.at = "idle"
    /\ ~Empty(read_, write_)
    /\ consumer' = [consumer EXCEPT !.at = "move"]
    /\ UNCHANGED <<write_, read_, cells, producer, accepted, taken>>

DequeueEmpty ==
    /\ consumer.at = "idle"
    /\ Empty(read_, write_)
    /\ taken' = Raw
    /\ UNCHANGED <<write_, read_, cells, producer, consumer, accepted>>

(* The object is moved out of its cell and destroyed there. *)
Move ==
    /\ consumer.at = "move"
    /\ consumer' = [at |-> "release", out |-> cells[Index(read_)]]
    /\ cells' = [cells EXCEPT ![Index(read_)] = Raw]
    /\ UNCHANGED <<write_, read_, producer, accepted, taken>>

Release ==
    /\ consumer.at = "release"
    /\ read_' = Advance(read_)
    /\ taken' = consumer.out
    /\ consumer' = [at |-> "idle", out |-> Raw]
    /\ UNCHANGED <<write_, cells, producer, accepted>>

Consumer == Dequeue \/ DequeueEmpty \/ Move \/ Release

(* The cells from read to write, which hold objects while no call runs. *)
Window(read, write) == {Index(read + k) : k \in 0 .. Distance(read, write) - 1}

(***************************************************************************)
(* ~SPSCQueue, after both threads are done.                                *)
(***************************************************************************)
Destroy ==
    /\ producer.at = "idle"
    /\ consumer.at = "idle"
    /\ producer' = [producer EXCEPT !.at = "gone"]
    /\ consumer' = [consumer EXCEPT !.at = "gone"]
    /\ cells' = [i \in Cells |-> IF i \in Window(read_, write_) THEN Raw ELSE cells[i]]
    /\ UNCHANGED <<write_, read_, accepted, taken>>

RingNext == Producer \/ Consumer \/ Destroy

RingSpec == RingInit /\ [][RingNext]_ringVars

(* The consuming thread polls: it drains the queue again and again. *)
RingFairSpec == RingSpec /\ WF_ringVars(Consumer)

-----------------------------------------------------------------------------
(* Every variable has its type. *)
RingTypeOK ==
    /\ write_ \in Indices
    /\ read_ \in Indices
    /\ cells \in [Cells -> Values \cup {Raw}]
    /\ producer \in [at : {"idle", "construct", "publish", "gone"}, item : Values \cup {Raw}]
    /\ consumer \in [at : {"idle", "move", "release", "gone"}, out : Values \cup {Raw}]
    /\ accepted \in BOOLEAN
    /\ taken \in Values \cup {Raw}

(* Placement new never hits a cell with a live object, and what is moved
   from and destroyed is a live object, wherever the other thread is and
   also after the indices wrapped around; and the destructor leaves no object
   alive. *)
CellAccessSafe ==
    /\ producer.at = "construct" => cells[Index(write_)] = Raw
    /\ consumer.at = "move" => cells[Index(read_)] # Raw
    /\ producer.at = "gone" => \A i \in Cells : cells[i] = Raw

(* The objects in the queue, oldest first: the one the consumer has moved out
   stays the first until its cell is released. *)
Contents ==
    [k \in 1 .. (IF producer.at = "gone" THEN 0 ELSE Distance(read_, write_)) |->
        IF k = 1 /\ consumer.at = "release" THEN consumer.out
                                            ELSE cells[Index(read_ + k - 1)]]

Fifo == INSTANCE BoundedFifo WITH
    Capacity <- SizeT, Nothing <- Raw, queue <- Contents, accepted <- accepted, taken <- taken

(* Seen from its two threads the ring is the bounded queue of BoundedFifo: no
   interleaving loses, repeats, reorders or tears an object, and it refuses
   and misses only when it is full and when it is empty. *)
ImplementsFifo == Fifo!Spec

(* What is published is taken: a polling consumer reaches every index. *)
PublishedIsTaken ==
    \A i \in Indices :
        (Distance(read_, i) < Distance(read_, write_) /\ producer.at # "gone") ~>
            (read_ = Advance(i) \/ producer.at = "gone")
=============================================================================
