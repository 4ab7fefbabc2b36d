------------------------------ MODULE QueueProofs ------------------------------
(***************************************************************************)
(* How a datagram gets to the game, for pools, queues and rings of every   *)
(* size: first the ring (SPSCQueue), then the pool and the two threads     *)
(* that pass its chunks through such a ring (UdpReceive).                  *)
(*                                                                         *)
(* The ring is safe and is a bounded queue for every number of cells and   *)
(* every range of the indices that is a multiple of it: CellAccessSafe and *)
(* ImplementsFifo as theorems.                                             *)
(*                                                                         *)
(* The argument counts cells from the consumer's index: Cell(k) is the     *)
(* k-th from there, and for k from 0 to SizeT - 1 these are all cells and  *)
(* different ones, wherever the indices are in their range.  The invariant *)
(* says of each which object it holds.                                     *)
(***************************************************************************)
EXTENDS SPSCQueue, UdpReceive, FiniteSetTheorems, SequenceTheorems, TLAPS

-----------------------------------------------------------------------------
(* Remainders.                                                             *)
LEMMA Division ==
    ASSUME NEW a \in Int, NEW n \in Nat, n > 0
    PROVE  /\ a % n \in 0 .. n - 1
           /\ a \div n \in Int
           /\ a = n * (a \div n) + (a % n)
OBVIOUS

LEMMA OnlyZeroIsNear ==
    ASSUME NEW q \in Int, NEW n \in Nat, n > 0, n * q < n, -n < n * q
    PROVE  q = 0
<1>1. CASE q >= 1
  <2>1. n * q >= n * 1
    BY <1>1
  <2> QED BY <2>1
<1>2. CASE q <= -1
  <2>1. n * q <= n * (-1)
    BY <1>2
  <2> QED BY <2>1
<1> QED BY <1>1, <1>2

LEMMA RemainderIsUnique ==
    ASSUME NEW a \in Int, NEW n \in Nat, n > 0, NEW q \in Int, NEW s \in 0 .. n - 1,
           a = n * q + s
    PROVE  a % n = s
<1> DEFINE d == q - (a \div n)
<1>1. d \in Int /\ n * d = n * q - n * (a \div n) /\ (a % n) \in 0 .. n - 1
  BY Division
<1>2. n * d = (a % n) - s
  BY <1>1, Division
<1>3. d = 0
  <2> HIDE DEF d
  <2> QED BY <1>1, <1>2, OnlyZeroIsNear
<1> QED BY <1>2, <1>3

LEMMA Periodic ==
    ASSUME NEW a \in Int, NEW n \in Nat, n > 0, NEW m \in Int
    PROVE  (a + n * m) % n = a % n
<1> DEFINE s == a % n
           d == a \div n
<1>1. s \in 0 .. n - 1 /\ d \in Int /\ a = n * d + s
  BY Division
<1> HIDE DEF s, d
<1>2. d + m \in Int /\ n * (d + m) = n * d + n * m /\ n * m \in Int
  BY <1>1
<1>3. a + n * m = n * (d + m) + s /\ a + n * m \in Int
  BY <1>1, <1>2
<1>4. (a + n * m) % n = s
  BY <1>1, <1>2, <1>3, RemainderIsUnique
<1> QED BY <1>4 DEF s

LEMMA NearWithSameRemainder ==
    ASSUME NEW a \in Int, NEW b \in Int, NEW n \in Nat, n > 0,
           a % n = b % n, a - b < n, b - a < n
    PROVE  a = b
<1> DEFINE q == (a \div n) - (b \div n)
<1>1. q \in Int /\ n * (a \div n) - n * (b \div n) = n * q
  BY Division
<1>2. n * q = a - b
  BY <1>1, Division
<1>3. q = 0
  <2> HIDE DEF q
  <2> QED BY <1>1, <1>2, OnlyZeroIsNear
<1> QED BY <1>2, <1>3

-----------------------------------------------------------------------------
(* Indices and cells.                                                      *)
LEMMA Sizes ==
    /\ SizeT \in Nat /\ SizeT > 0 /\ IndexMod \in Nat /\ IndexMod > SizeT
    /\ \A m \in Int : \E j \in Int : IndexMod * m = SizeT * j
<1> PICK k \in 2 .. IndexMod : IndexMod = k * SizeT
  BY IndexAssumption
<1>1. SizeT \in Nat /\ SizeT >= 2 /\ k \in Int /\ k >= 2
  BY IndexAssumption
<1>2. k * SizeT >= 2 * SizeT /\ k * SizeT \in Int
  BY <1>1
<1>3. ASSUME NEW m \in Int
      PROVE  \E j \in Int : IndexMod * m = SizeT * j
  <2>1. k * m \in Int /\ (k * SizeT) * m = SizeT * (k * m)
    BY <1>1
  <2> QED BY <2>1
<1> QED BY <1>1, <1>2, <1>3

LEMMA IndexType == \A i \in Int : Index(i) \in Cells
BY Division, Sizes DEF Index, Cells

(* An index that wraps around goes on in the same cell.                    *)
LEMMA IndexWraps ==
    ASSUME NEW i \in Int, NEW m \in Int
    PROVE  Index(i + IndexMod * m) = Index(i)
<1> PICK j \in Int : IndexMod * m = SizeT * j
  BY Sizes
<1>1. (i + SizeT * j) % SizeT = i % SizeT
  BY Sizes, Periodic
<1> QED BY <1>1 DEF Index

LEMMA IndexAdvance ==
    ASSUME NEW r \in Indices, NEW j \in Int
    PROVE  Advance(r) \in Indices /\ Index(Advance(r) + j) = Index(r + 1 + j)
<1> DEFINE q == (r + 1) \div IndexMod
<1>1. r \in Int /\ r + 1 \in Int
  BY DEF Indices
<1>2. /\ Advance(r) \in 0 .. IndexMod - 1 /\ q \in Int
      /\ r + 1 = IndexMod * q + Advance(r)
  BY <1>1, Sizes, Division DEF Advance
<1> HIDE DEF q
<1>3. IndexMod * q \in Int /\ Advance(r) + j \in Int
      /\ r + 1 + j = (Advance(r) + j) + IndexMod * q
  BY <1>1, <1>2, Sizes
<1>4. Index((Advance(r) + j) + IndexMod * q) = Index(Advance(r) + j)
  BY <1>2, <1>3, IndexWraps
<1> QED BY <1>2, <1>3, <1>4 DEF Indices

LEMMA DistanceType ==
    ASSUME NEW r \in Indices, NEW w \in Indices
    PROVE  /\ Distance(r, w) \in 0 .. IndexMod - 1
           /\ \E q \in Int : /\ IndexMod * q \in Int
                             /\ w - r = IndexMod * q + Distance(r, w)
<1> DEFINE q == (w - r) \div IndexMod
<1>1. w - r \in Int
  BY DEF Indices
<1>2. Distance(r, w) \in 0 .. IndexMod - 1 /\ q \in Int /\ w - r = IndexMod * q + Distance(r, w)
  BY <1>1, Sizes, Division DEF Distance
<1> HIDE DEF q
<1>3. IndexMod * q \in Int
  BY <1>2, Sizes
<1> QED BY <1>2, <1>3

(* The producer's index is Distance cells after the consumer's.            *)
LEMMA IndexOfWrite ==
    ASSUME NEW r \in Indices, NEW w \in Indices
    PROVE  Index(w) = Index(r + Distance(r, w))
<1> PICK q \in Int : IndexMod * q \in Int /\ w - r = IndexMod * q + Distance(r, w)
  BY DistanceType
<1>1. r \in Int /\ w \in Int /\ Distance(r, w) \in Int
  BY DistanceType, Sizes DEF Indices
<1>2. w = (r + Distance(r, w)) + IndexMod * q
  BY <1>1
<1> QED BY <1>1, <1>2, IndexWraps

LEMMA EmptyDistance ==
    ASSUME NEW r \in Indices, NEW w \in Indices
    PROVE  Empty(r, w) <=> Distance(r, w) = 0
<1> PICK q \in Int : IndexMod * q \in Int /\ w - r = IndexMod * q + Distance(r, w)
  BY DistanceType
<1>1. r \in 0 .. IndexMod - 1 /\ w \in 0 .. IndexMod - 1
  BY DEF Indices
<1>2. ASSUME r = w PROVE Distance(r, w) = 0
  <2>1. 0 = IndexMod * 0 + 0 /\ w - r = 0
    BY <1>1, <1>2, Sizes
  <2> QED BY <2>1, Sizes, RemainderIsUnique DEF Distance
<1>3. ASSUME Distance(r, w) = 0 PROVE r = w
  <2>1. w - r = IndexMod * q
    BY <1>1, <1>3
  <2>2. IndexMod * q < IndexMod /\ - IndexMod < IndexMod * q
    BY <1>1, <2>1, Sizes
  <2>3. q = 0
    BY <2>2, Sizes, OnlyZeroIsNear
  <2>4. IndexMod * q = 0
    BY <2>3, Sizes
  <2> QED BY <1>1, <2>1, <2>4
<1> QED BY <1>2, <1>3 DEF Empty

LEMMA DistanceGrows ==
    ASSUME NEW r \in Indices, NEW w \in Indices, Distance(r, w) < SizeT
    PROVE  Distance(r, Advance(w)) = Distance(r, w) + 1
<1> DEFINE D == Distance(r, w)
           p == (w + 1) \div IndexMod
<1> PICK q \in Int : IndexMod * q \in Int /\ w - r = IndexMod * q + D
  BY DistanceType
<1>1. r \in Int /\ w \in Int /\ D \in 0 .. IndexMod - 1
  BY DistanceType DEF Indices
<1>2. w + 1 = IndexMod * p + Advance(w) /\ p \in Int /\ Advance(w) \in Int
  BY <1>1, Sizes, Division DEF Advance
<1>0. D < SizeT
  OBVIOUS
<1> HIDE DEF p, D
<1>3. IndexMod * (q - p) = IndexMod * q - IndexMod * p /\ IndexMod * p \in Int /\ q - p \in Int
  BY <1>2, Sizes
<1>4. Advance(w) - r = IndexMod * (q - p) + (D + 1) /\ Advance(w) - r \in Int
  BY <1>1, <1>2, <1>3
<1>5. D + 1 \in 0 .. IndexMod - 1
  BY <1>0, <1>1, Sizes
<1>6. (Advance(w) - r) % IndexMod = D + 1
  <2> DEFINE a == (Advance(w) - r)
             m == q - p
             s == D + 1
  <2>1. a \in Int /\ m \in Int /\ s \in 0 .. IndexMod - 1 /\ a = IndexMod * m + s
    BY <1>3, <1>4, <1>5
  <2> HIDE DEF a, m, s
  <2>2. a % IndexMod = s
    BY <2>1, Sizes, RemainderIsUnique
  <2> QED BY <2>2 DEF a, s
<1> QED BY <1>6 DEF D, Distance

LEMMA DistanceShrinks ==
    ASSUME NEW r \in Indices, NEW w \in Indices, Distance(r, w) >= 1
    PROVE  Distance(Advance(r), w) = Distance(r, w) - 1
<1> DEFINE D == Distance(r, w)
           p == (r + 1) \div IndexMod
<1> PICK q \in Int : IndexMod * q \in Int /\ w - r = IndexMod * q + D
  BY DistanceType
<1>1. r \in Int /\ w \in Int /\ D \in 0 .. IndexMod - 1
  BY DistanceType DEF Indices
<1>2. r + 1 = IndexMod * p + Advance(r) /\ p \in Int /\ Advance(r) \in Int
  BY <1>1, Sizes, Division DEF Advance
<1>0. D >= 1
  OBVIOUS
<1> HIDE DEF p, D
<1>3. IndexMod * (q + p) = IndexMod * q + IndexMod * p /\ IndexMod * p \in Int /\ q + p \in Int
  BY <1>2, Sizes
<1>4. w - Advance(r) = IndexMod * (q + p) + (D - 1) /\ w - Advance(r) \in Int
  BY <1>1, <1>2, <1>3
<1>5. D - 1 \in 0 .. IndexMod - 1
  BY <1>0, <1>1, Sizes
<1>6. (w - Advance(r)) % IndexMod = D - 1
  <2> DEFINE a == (w - Advance(r))
             m == q + p
             s == D - 1
  <2>1. a \in Int /\ m \in Int /\ s \in 0 .. IndexMod - 1 /\ a = IndexMod * m + s
    BY <1>3, <1>4, <1>5
  <2> HIDE DEF a, m, s
  <2>2. a % IndexMod = s
    BY <2>1, Sizes, RemainderIsUnique
  <2> QED BY <2>2 DEF a, s
<1> QED BY <1>6 DEF D, Distance

LEMMA CellsDiffer ==
    ASSUME NEW r \in Int, NEW i \in 0 .. SizeT - 1, NEW j \in 0 .. SizeT - 1, i # j
    PROVE  Index(r + i) # Index(r + j)
<1>1. r + i \in Int /\ r + j \in Int /\ (r + i) - (r + j) < SizeT /\ (r + j) - (r + i) < SizeT
      /\ r + i # r + j
  BY Sizes
<1> QED BY <1>1, Sizes, NearWithSameRemainder DEF Index

LEMMA EveryCellIsReached ==
    ASSUME NEW r \in Int, NEW c \in Cells
    PROVE  \E k \in 0 .. SizeT - 1 : Index(r + k) = c
<1> DEFINE k == (c - r) % SizeT
           q == (c - r) \div SizeT
<1>1. c \in 0 .. SizeT - 1 /\ c \in Int
  BY Sizes DEF Cells
<1>2. k \in 0 .. SizeT - 1 /\ q \in Int /\ c - r = SizeT * q + k
  BY <1>1, Sizes, Division
<1> HIDE DEF k, q
<1>3. SizeT * (- q) = - (SizeT * q) /\ SizeT * q \in Int /\ - q \in Int
  BY <1>2, Sizes
<1>4. r + k = SizeT * (- q) + c /\ r + k \in Int
  BY <1>1, <1>2, <1>3
<1>5. (r + k) % SizeT = c
  BY <1>1, <1>3, <1>4, Sizes, RemainderIsUnique
<1> QED BY <1>2, <1>5 DEF Index

-----------------------------------------------------------------------------
(* The invariant.                                                          *)
Cell(k) == Index(read_ + k)

Filled == Distance(read_, write_)

IndexInv == write_ \in Indices /\ read_ \in Indices

RingStageInv ==
    /\ producer \in [at : {"idle", "construct", "publish", "gone"}, item : Values \cup {Raw}]
    /\ consumer \in [at : {"idle", "move", "release", "gone"}, out : Values \cup {Raw}]
    /\ Filled <= SizeT
    /\ producer.at \in {"construct", "publish"} => Filled < SizeT /\ producer.item \in Values
    /\ consumer.at \in {"move", "release"} => Filled >= 1
    /\ consumer.at = "release" => consumer.out \in Values
    /\ (producer.at = "gone") <=> (consumer.at = "gone")

(* A cell before the producer's index holds an object, if the consumer has *)
(* not just moved it out; one from there on is raw, if the producer has    *)
(* not just constructed an object in it.                                   *)
CellInv(k) ==
    IF k < Filled
    THEN IF k = 0 /\ consumer.at = "release" THEN cells[Cell(k)] = Raw
         ELSE cells[Cell(k)] \in Values
    ELSE IF k = Filled /\ producer.at = "publish" THEN cells[Cell(k)] = producer.item
         ELSE cells[Cell(k)] = Raw

CellsInv ==
    /\ cells \in [Cells -> Values \cup {Raw}]
    /\ producer.at # "gone" => \A k \in 0 .. SizeT - 1 : CellInv(k)
    /\ producer.at = "gone" => \A c \in Cells : cells[c] = Raw

ResultInv == accepted \in BOOLEAN /\ taken \in Values \cup {Raw}

RingInv == IndexInv /\ RingStageInv /\ CellsInv /\ ResultInv

LEMMA FilledType == IndexInv => Filled \in Nat /\ Filled < IndexMod
BY DistanceType, Sizes DEF IndexInv, Filled

LEMMA InitInvariant == RingInit => RingInv
<1> SUFFICES ASSUME RingInit PROVE RingInv
  OBVIOUS
<1>1. IndexInv
  BY Sizes DEF RingInit, IndexInv, Indices
<1>2. Filled = 0
  BY <1>1, EmptyDistance DEF RingInit, IndexInv, Filled, Empty
<1>3. RingStageInv /\ ResultInv
  <2>1. /\ producer = [at |-> "idle", item |-> Raw]
        /\ consumer = [at |-> "idle", out |-> Raw]
        /\ accepted = FALSE /\ taken = Raw
    BY DEF RingInit
  <2>2. RingStageInv
    BY <1>2, <2>1, Sizes DEF RingStageInv
  <2> QED BY <2>1, <2>2 DEF ResultInv
<1>4. CellsInv
  <2>1. cells \in [Cells -> Values \cup {Raw}] /\ \A c \in Cells : cells[c] = Raw
    BY DEF RingInit
  <2>2. \A k \in 0 .. SizeT - 1 : Cell(k) \in Cells
    BY <1>1, IndexType DEF Cell, IndexInv, Indices
  <2> QED BY <1>2, <2>1, <2>2 DEF RingInit, CellsInv, CellInv
<1> QED BY <1>1, <1>3, <1>4 DEF RingInv

-----------------------------------------------------------------------------
(* Where the indices point.                                                *)
LEMMA Ends ==
    ASSUME IndexInv
    PROVE  /\ read_ \in Int /\ Filled \in Nat
           /\ Index(write_) = Cell(Filled)
           /\ Index(read_) = Cell(0)
           /\ \A k \in Nat : Cell(k) \in Cells
           /\ Empty(read_, write_) <=> Filled = 0
           /\ Full(read_, write_) <=> Filled = SizeT
<1>1. read_ \in Int /\ Filled \in Nat /\ read_ + 0 = read_
  BY FilledType DEF IndexInv, Indices
<1>2. Index(write_) = Index(read_ + Filled)
  BY IndexOfWrite DEF IndexInv, Filled
<1>3. \A k \in Nat : Cell(k) \in Cells
  BY <1>1, IndexType DEF Cell
<1>4. Empty(read_, write_) <=> Filled = 0
  BY EmptyDistance DEF IndexInv, Filled
<1> QED BY <1>1, <1>2, <1>3, <1>4 DEF Cell, Full, Filled

(* Writing the j-th cell leaves the others alone.                          *)
LEMMA WriteCell ==
    ASSUME IndexInv, CellsInv, NEW j \in 0 .. SizeT - 1, NEW v \in Values \cup {Raw},
           cells' = [cells EXCEPT ![Cell(j)] = v]
    PROVE  /\ cells' \in [Cells -> Values \cup {Raw}]
           /\ cells'[Cell(j)] = v
           /\ \A k \in 0 .. SizeT - 1 : k # j => cells'[Cell(k)] = cells[Cell(k)]
<1>1. \A k \in 0 .. SizeT - 1 : Cell(k) \in Cells
  BY Ends
<1>2. \A k \in 0 .. SizeT - 1 : k # j => Cell(k) # Cell(j)
  BY Ends, CellsDiffer DEF Cell
<1> QED BY <1>1, <1>2 DEF CellsInv

Same == UNCHANGED <<read_, write_>>

LEMMA SameCells ==
    ASSUME Same
    PROVE  /\ Filled' = Filled
           /\ \A k : Cell(k)' = Cell(k)
BY DEF Same, Filled, Cell

-----------------------------------------------------------------------------
(* The producer.                                                           *)
LEMMA EmplaceKeeps ==
    ASSUME RingInv, NEW v \in Values, Emplace(v)
    PROVE  RingInv'
<1>1. /\ Same /\ producer.at = "idle" /\ producer' = [at |-> "construct", item |-> v]
      /\ UNCHANGED <<cells, consumer, accepted, taken>>
  BY DEF Emplace, Same
<1>2. Filled < SizeT
  <2>1. Filled # SizeT /\ Filled <= SizeT /\ Filled \in Nat
    BY Ends DEF Emplace, RingInv, RingStageInv
  <2> QED BY <2>1, Sizes
<1>3. RingStageInv'
  BY <1>1, <1>2, SameCells DEF RingInv, RingStageInv
<1>4. CellsInv'
  BY <1>1, SameCells DEF RingInv, CellsInv, CellInv
<1> QED BY <1>1, <1>3, <1>4 DEF RingInv, IndexInv, ResultInv, Same

LEMMA ConstructKeeps ==
    ASSUME RingInv, Construct
    PROVE  RingInv'
<1>1. /\ Same /\ producer.at = "construct" /\ producer' = [producer EXCEPT !.at = "publish"]
      /\ UNCHANGED <<consumer, accepted, taken>>
  BY DEF Construct, Same
<1>2. Filled \in 0 .. SizeT - 1 /\ producer.item \in Values
  BY <1>1, Ends, Sizes DEF RingInv, RingStageInv
<1>3. cells' = [cells EXCEPT ![Cell(Filled)] = producer.item]
  BY Ends DEF Construct, RingInv
<1>4. /\ cells' \in [Cells -> Values \cup {Raw}]
      /\ cells'[Cell(Filled)] = producer.item
      /\ \A k \in 0 .. SizeT - 1 : k # Filled => cells'[Cell(k)] = cells[Cell(k)]
  BY <1>2, <1>3, WriteCell DEF RingInv
<1>5. producer'.at = "publish" /\ producer'.item = producer.item
      /\ producer' \in [at : {"idle", "construct", "publish", "gone"}, item : Values \cup {Raw}]
  BY <1>1 DEF RingInv, RingStageInv
<1>6. RingStageInv'
  BY <1>1, <1>2, <1>5, SameCells DEF RingInv, RingStageInv
<1>7. CellsInv'
  <2>1. ASSUME NEW k \in 0 .. SizeT - 1 PROVE CellInv(k)'
    <3>1. CellInv(k)
      BY <1>1 DEF RingInv, CellsInv
    <3>2. Cell(k)' = Cell(k) /\ Filled' = Filled /\ consumer' = consumer
      BY <1>1, SameCells
    <3>3. CASE k = Filled
      BY <1>4, <1>5, <3>2, <3>3 DEF CellInv
    <3>4. CASE k # Filled
      BY <1>1, <1>4, <3>1, <3>2, <3>4 DEF CellInv
    <3> QED BY <3>3, <3>4
  <2> QED BY <1>4, <1>5, <2>1 DEF CellsInv
<1> QED BY <1>1, <1>6, <1>7 DEF RingInv, IndexInv, ResultInv, Same

(* The cell that is published is the first behind those that were filled.  *)
LEMMA PublishKeeps ==
    ASSUME RingInv, Publish
    PROVE  RingInv' /\ Filled' = Filled + 1 /\ \A k : Cell(k)' = Cell(k)
<1>1. /\ producer.at = "publish" /\ producer' = [at |-> "idle", item |-> Raw]
      /\ write_' = Advance(write_) /\ accepted' = TRUE
      /\ UNCHANGED <<read_, cells, consumer, taken>>
  BY DEF Publish
<1>2. Filled < SizeT /\ Filled \in Nat /\ producer.item \in Values
  BY <1>1, Ends DEF RingInv, RingStageInv
<1>3. Filled' = Filled + 1
  BY <1>1, <1>2, DistanceGrows DEF RingInv, IndexInv, Filled
<1>4. IndexInv'
  <2>1. Advance(write_) \in Indices
    BY IndexAdvance DEF RingInv, IndexInv
  <2> QED BY <1>1, <2>1 DEF RingInv, IndexInv
<1>5. \A k : Cell(k)' = Cell(k)
  BY <1>1 DEF Cell
<1>6. RingStageInv'
  BY <1>1, <1>2, <1>3, Sizes DEF RingInv, RingStageInv
<1>7. CellsInv'
  <2>1. ASSUME NEW k \in 0 .. SizeT - 1 PROVE CellInv(k)'
    <3>1. CellInv(k)
      BY <1>1 DEF RingInv, CellsInv
    <3>2. Cell(k)' = Cell(k) /\ cells' = cells /\ consumer' = consumer
      BY <1>1, <1>5
    <3>3. k \in Int /\ producer'.at # "publish"
      BY <1>1
    <3>4. CASE k < Filled
      <4>1. k < Filled'
        BY <1>2, <1>3, <3>3, <3>4
      <4> QED BY <3>1, <3>2, <3>4, <4>1 DEF CellInv
    <3>5. CASE k = Filled
      <4>1. k < Filled' /\ ~ (k < Filled)
        BY <1>2, <1>3, <3>3, <3>5
      <4>2. consumer'.at = "release" => k # 0
        BY <1>2, <3>2, <3>5 DEF RingInv, RingStageInv
      <4>3. cells[Cell(k)] = producer.item
        BY <1>1, <3>1, <3>5, <4>1 DEF CellInv
      <4>4. cells'[Cell(k)'] \in Values
        BY <1>2, <3>2, <4>3
      <4> QED BY <4>1, <4>2, <4>4 DEF CellInv
    <3>6. CASE ~ (k < Filled) /\ k # Filled
      <4>1. ~ (k < Filled')
        BY <1>2, <1>3, <3>3, <3>6
      <4> QED BY <3>1, <3>2, <3>3, <3>6, <4>1 DEF CellInv
    <3> QED BY <3>4, <3>5, <3>6
  <2> QED BY <1>1, <2>1 DEF RingInv, CellsInv
<1> QED BY <1>1, <1>3, <1>4, <1>5, <1>6, <1>7 DEF RingInv, ResultInv

-----------------------------------------------------------------------------
(* The consumer.                                                           *)
LEMMA DequeueKeeps ==
    ASSUME RingInv, Dequeue
    PROVE  RingInv'
<1>1. /\ Same /\ consumer.at = "idle" /\ consumer' = [consumer EXCEPT !.at = "move"]
      /\ UNCHANGED <<cells, producer, accepted, taken>>
  BY DEF Dequeue, Same
<1>2. Filled >= 1
  <2>1. Filled # 0 /\ Filled \in Nat
    BY Ends DEF Dequeue, RingInv
  <2> QED BY <2>1
<1>3. consumer'.at = "move"
      /\ consumer' \in [at : {"idle", "move", "release", "gone"}, out : Values \cup {Raw}]
  BY <1>1 DEF RingInv, RingStageInv
<1>4. RingStageInv'
  BY <1>1, <1>2, <1>3, SameCells DEF RingInv, RingStageInv
<1>5. CellsInv'
  BY <1>1, <1>3, SameCells DEF RingInv, CellsInv, CellInv
<1> QED BY <1>1, <1>4, <1>5 DEF RingInv, IndexInv, ResultInv, Same

LEMMA MoveKeeps ==
    ASSUME RingInv, Move
    PROVE  RingInv' /\ cells[Cell(0)] \in Values /\ consumer'.out = cells[Cell(0)]
           /\ \A k \in 0 .. SizeT - 1 : k # 0 => cells'[Cell(k)] = cells[Cell(k)]
<1>1. /\ Same /\ consumer.at = "move"
      /\ UNCHANGED <<producer, accepted, taken>>
  BY DEF Move, Same
<1>2. 0 \in 0 .. SizeT - 1 /\ Filled >= 1 /\ producer.at # "gone" /\ Filled \in Nat
  BY <1>1, Ends, Sizes DEF RingInv, RingStageInv
<1>3. consumer' = [at |-> "release", out |-> cells[Cell(0)]]
      /\ cells' = [cells EXCEPT ![Cell(0)] = Raw]
  BY Ends DEF Move, RingInv
<1>4. cells[Cell(0)] \in Values
  <2>1. CellInv(0)
    BY <1>2 DEF RingInv, CellsInv
  <2> QED BY <1>1, <1>2, <2>1 DEF CellInv
<1>5. /\ cells' \in [Cells -> Values \cup {Raw}]
      /\ cells'[Cell(0)] = Raw
      /\ \A k \in 0 .. SizeT - 1 : k # 0 => cells'[Cell(k)] = cells[Cell(k)]
  BY <1>2, <1>3, WriteCell DEF RingInv
<1>6. RingStageInv'
  BY <1>1, <1>2, <1>3, <1>4, SameCells DEF RingInv, RingStageInv
<1>7. CellsInv'
  <2>1. ASSUME NEW k \in 0 .. SizeT - 1 PROVE CellInv(k)'
    <3>1. CellInv(k)
      BY <1>2 DEF RingInv, CellsInv
    <3>2. Cell(k)' = Cell(k) /\ Filled' = Filled /\ producer' = producer
          /\ consumer'.at = "release"
      BY <1>1, <1>3, SameCells
    <3>3. CASE k = 0
      BY <1>2, <1>5, <3>2, <3>3 DEF CellInv
    <3>4. CASE k # 0
      BY <1>5, <3>1, <3>2, <3>4 DEF CellInv
    <3> QED BY <3>3, <3>4
  <2> QED BY <1>1, <1>2, <1>5, <2>1 DEF CellsInv
<1> QED BY <1>1, <1>3, <1>4, <1>5, <1>6, <1>7 DEF RingInv, IndexInv, ResultInv, Same

(* Releasing the first cell makes the second the first, and the first the  *)
(* last.                                                                   *)
LEMMA ReleaseKeeps ==
    ASSUME RingInv, Release
    PROVE  RingInv' /\ Filled' = Filled - 1 /\ \A k \in Nat : Cell(k)' = Cell(k + 1)
<1>1. /\ consumer.at = "release" /\ consumer' = [at |-> "idle", out |-> Raw]
      /\ read_' = Advance(read_) /\ taken' = consumer.out
      /\ UNCHANGED <<write_, cells, producer, accepted>>
  BY DEF Release
<1>2. /\ Filled >= 1 /\ Filled \in Nat /\ Filled <= SizeT
      /\ consumer.out \in Values /\ producer.at # "gone" /\ read_ \in Int
  BY <1>1, Ends DEF RingInv, RingStageInv
<1>3. Filled' = Filled - 1
  BY <1>1, <1>2, DistanceShrinks DEF RingInv, IndexInv, Filled
<1>4. IndexInv'
  <2>1. Advance(read_) \in Indices
    BY IndexAdvance DEF RingInv, IndexInv
  <2> QED BY <1>1, <2>1 DEF RingInv, IndexInv
<1>5. \A k \in Nat : Cell(k)' = Cell(k + 1)
  <2> TAKE k \in Nat
  <2>1. Index(Advance(read_) + k) = Index(read_ + 1 + k)
    BY IndexAdvance DEF RingInv, IndexInv
  <2>2. read_ + 1 + k = read_ + (k + 1)
    BY <1>2
  <2> QED BY <1>1, <2>1, <2>2 DEF Cell
<1>6. RingStageInv'
  BY <1>1, <1>2, <1>3, Sizes DEF RingInv, RingStageInv
<1>7. CellsInv'
  <2>1. ASSUME NEW k \in 0 .. SizeT - 1 PROVE CellInv(k)'
    <3>1. Cell(k)' = Cell(k + 1) /\ cells' = cells /\ producer' = producer
          /\ consumer'.at = "idle" /\ k \in Nat
      BY <1>1, <1>5
    <3>2. CASE k + 1 \in 0 .. SizeT - 1
      <4>1. CellInv(k + 1)
        BY <1>2, <3>2 DEF RingInv, CellsInv
      <4>2. k + 1 # 0 /\ (k < Filled' <=> k + 1 < Filled) /\ (k = Filled' <=> k + 1 = Filled)
        BY <1>2, <1>3, <3>1
      <4>3. CASE k + 1 < Filled
        <5>1. cells[Cell(k + 1)] \in Values
          BY <4>1, <4>2, <4>3 DEF CellInv
        <5>2. cells'[Cell(k)'] \in Values
          BY <3>1, <5>1
        <5> QED BY <3>1, <4>2, <4>3, <5>2 DEF CellInv
      <4>4. CASE ~ (k + 1 < Filled)
        <5>1. IF k + 1 = Filled /\ producer.at = "publish" THEN cells[Cell(k + 1)] = producer.item
              ELSE cells[Cell(k + 1)] = Raw
          BY <4>1, <4>4 DEF CellInv
        <5>2. IF k = Filled' /\ producer'.at = "publish" THEN cells'[Cell(k)'] = producer'.item
              ELSE cells'[Cell(k)'] = Raw
          BY <3>1, <4>2, <5>1
        <5> QED BY <4>2, <4>4, <5>2 DEF CellInv
      <4> QED BY <4>3, <4>4
    <3>3. CASE ~ (k + 1 \in 0 .. SizeT - 1)
      <4>1. k + 1 = SizeT
        BY <3>3, Sizes
      <4>2. Cell(SizeT) = Cell(0)
        <5>1. (read_ + SizeT * 1) % SizeT = read_ % SizeT
          BY <1>2, Sizes, Periodic
        <5>2. SizeT * 1 = SizeT /\ read_ + 0 = read_
          BY <1>2, Sizes
        <5> QED BY <5>1, <5>2 DEF Cell, Index
      <4>3. cells[Cell(0)] = Raw
        <5>1. CellInv(0)
          BY <1>2, Sizes DEF RingInv, CellsInv
        <5> QED BY <1>1, <1>2, <5>1 DEF CellInv
      <4>4. producer.at = "publish" => Filled < SizeT
        BY DEF RingInv, RingStageInv
      <4>5. ~ (k < Filled') /\ ~ (k = Filled' /\ producer'.at = "publish")
        BY <1>2, <1>3, <3>1, <4>1, <4>4, Sizes
      <4>6. cells'[Cell(k)'] = Raw
        BY <3>1, <4>1, <4>2, <4>3
      <4> QED BY <4>5, <4>6 DEF CellInv
    <3> QED BY <3>2, <3>3
  <2> QED BY <1>1, <1>2, <2>1 DEF RingInv, CellsInv
<1> QED BY <1>1, <1>2, <1>3, <1>4, <1>5, <1>6, <1>7 DEF RingInv, ResultInv

(* What is not in the window of the destructor holds no object.            *)
LEMMA DestroyKeeps ==
    ASSUME RingInv, Destroy
    PROVE  RingInv' /\ producer'.at = "gone"
<1>1. /\ producer.at = "idle" /\ producer' = [producer EXCEPT !.at = "gone"]
      /\ consumer.at = "idle" /\ consumer' = [consumer EXCEPT !.at = "gone"]
      /\ cells' = [i \in Cells |-> IF i \in Window(read_, write_) THEN Raw ELSE cells[i]]
      /\ Same /\ UNCHANGED <<accepted, taken>>
  BY DEF Destroy, Same
<1>2. producer'.at = "gone" /\ consumer'.at = "gone"
      /\ producer' \in [at : {"idle", "construct", "publish", "gone"}, item : Values \cup {Raw}]
      /\ consumer' \in [at : {"idle", "move", "release", "gone"}, out : Values \cup {Raw}]
  BY <1>1 DEF RingInv, RingStageInv
<1>3. RingStageInv'
  BY <1>1, <1>2, SameCells DEF RingInv, RingStageInv
<1>4. ASSUME NEW c \in Cells, c \notin Window(read_, write_)
      PROVE  cells[c] = Raw
  <2>1. read_ \in Int /\ Filled \in Nat
    BY Ends DEF RingInv
  <2>2. PICK k \in 0 .. SizeT - 1 : Cell(k) = c
    BY <2>1, EveryCellIsReached DEF Cell
  <2>3. ~ (k < Filled)
    BY <1>4, <2>1, <2>2 DEF Window, Filled, Cell
  <2>4. CellInv(k)
    BY <1>1 DEF RingInv, CellsInv
  <2> QED BY <1>1, <2>2, <2>3, <2>4 DEF CellInv
<1>5. cells' \in [Cells -> Values \cup {Raw}] /\ \A c \in Cells : cells'[c] = Raw
  BY <1>1, <1>4 DEF RingInv, CellsInv
<1>6. CellsInv'
  BY <1>2, <1>5 DEF CellsInv
<1> QED BY <1>1, <1>2, <1>3, <1>6 DEF RingInv, IndexInv, ResultInv, Same

LEMMA RefusalsKeep ==
    ASSUME RingInv, EmplaceFull \/ DequeueEmpty \/ UNCHANGED ringVars
    PROVE  RingInv' /\ Same /\ UNCHANGED <<cells, producer, consumer>>
<1>1. Same /\ UNCHANGED <<cells, producer, consumer>>
  BY DEF EmplaceFull, DequeueEmpty, ringVars, Same
<1>2. ResultInv'
  BY DEF RingInv, ResultInv, EmplaceFull, DequeueEmpty, ringVars
<1>3. RingStageInv' /\ CellsInv'
  BY <1>1, SameCells DEF RingInv, RingStageInv, CellsInv, CellInv
<1> QED BY <1>1, <1>2, <1>3 DEF RingInv, IndexInv, Same

LEMMA StepKeepsInvariant == RingInv /\ [RingNext]_ringVars => RingInv'
<1> SUFFICES ASSUME RingInv, [RingNext]_ringVars PROVE RingInv'
  OBVIOUS
<1>1. CASE \E v \in Values : Emplace(v)
  BY <1>1, EmplaceKeeps
<1>2. CASE Construct
  BY <1>2, ConstructKeeps
<1>3. CASE Publish
  BY <1>3, PublishKeeps
<1>4. CASE Dequeue
  BY <1>4, DequeueKeeps
<1>5. CASE Move
  BY <1>5, MoveKeeps
<1>6. CASE Release
  BY <1>6, ReleaseKeeps
<1>7. CASE Destroy
  BY <1>7, DestroyKeeps
<1>8. CASE EmplaceFull \/ DequeueEmpty \/ UNCHANGED ringVars
  BY <1>8, RefusalsKeep
<1> QED BY <1>1, <1>2, <1>3, <1>4, <1>5, <1>6, <1>7, <1>8 DEF RingNext, Producer, Consumer

LEMMA Invariant == RingSpec => []RingInv
BY InitInvariant, StepKeepsInvariant, PTL DEF RingSpec

LEMMA InvariantIsSafe == RingInv => CellAccessSafe
<1> SUFFICES ASSUME RingInv PROVE CellAccessSafe
  OBVIOUS
<1>1. ASSUME producer.at = "construct" PROVE cells[Index(write_)] = Raw
  <2>1. Filled \in 0 .. SizeT - 1 /\ Index(write_) = Cell(Filled)
    BY <1>1, Ends, Sizes DEF RingInv, RingStageInv
  <2>2. CellInv(Filled)
    BY <1>1, <2>1 DEF RingInv, CellsInv
  <2> QED BY <1>1, <2>1, <2>2 DEF CellInv
<1>2. ASSUME consumer.at = "move" PROVE cells[Index(read_)] # Raw
  <2>1. /\ Filled \in Nat /\ Filled >= 1 /\ Index(read_) = Cell(0)
        /\ 0 \in 0 .. SizeT - 1 /\ producer.at # "gone"
    BY <1>2, Ends, Sizes DEF RingInv, RingStageInv
  <2>2. CellInv(0)
    BY <2>1 DEF RingInv, CellsInv
  <2>3. cells[Cell(0)] \in Values
    BY <1>2, <2>1, <2>2 DEF CellInv
  <2> QED BY <2>1, <2>3, RawAssumption
<1>3. producer.at = "gone" => \A c \in Cells : cells[c] = Raw
  BY DEF RingInv, CellsInv
<1> QED BY <1>1, <1>2, <1>3 DEF CellAccessSafe

(* No object is built over another and none is taken that is not there,    *)
(* wherever the two threads are and however often the indices wrapped      *)
(* around.                                                                 *)
THEOREM CellsAreSafe == RingSpec => []CellAccessSafe
BY Invariant, InvariantIsSafe, PTL

-----------------------------------------------------------------------------
(* The ring as a sequence: the elements from the consumer's index on.      *)
Held == IF producer.at = "gone" THEN 0 ELSE Filled

Element(k) == IF k = 0 /\ consumer.at = "release" THEN consumer.out ELSE cells[Cell(k)]

IsContents ==
    /\ Contents \in Seq(Values)
    /\ Held \in Nat /\ Len(Contents) = Held
    /\ \A k \in 1 .. Held : Contents[k] = Element(k - 1)

LEMMA ContentsType == RingInv => IsContents
<1> SUFFICES ASSUME RingInv PROVE IsContents
  OBVIOUS
<1>1. Held \in Nat /\ Held <= SizeT /\ read_ \in Int
  BY Ends, Sizes DEF RingInv, RingStageInv, Held
<1>2. ASSUME NEW k \in 1 .. Held
      PROVE  /\ Element(k - 1) \in Values
             /\ (IF k = 1 /\ consumer.at = "release" THEN consumer.out
                                                    ELSE cells[Index(read_ + k - 1)])
                = Element(k - 1)
  <2>1. k - 1 \in 0 .. SizeT - 1 /\ (k - 1 = 0 <=> k = 1) /\ read_ + k - 1 = read_ + (k - 1)
    BY <1>1, Sizes
  <2>2. producer.at # "gone" /\ k - 1 < Filled
    BY <1>1 DEF Held
  <2>3. CellInv(k - 1)
    BY <2>1, <2>2 DEF RingInv, CellsInv
  <2>4. Element(k - 1) \in Values
    BY <2>1, <2>2, <2>3 DEF RingInv, RingStageInv, CellInv, Element
  <2> QED BY <2>1, <2>4 DEF Element, Cell
<1>3. Contents = [k \in 1 .. Held |-> Element(k - 1)]
  BY <1>2 DEF Contents, Held, Filled
<1> QED BY <1>1, <1>2, <1>3 DEF IsContents

LEMMA SameContents ==
    ASSUME RingInv, RingInv', Held' = Held, \A k \in 0 .. Held - 1 : Element(k)' = Element(k)
    PROVE  Contents' = Contents
<1>1. /\ Contents \in Seq(Values) /\ Held \in Nat /\ Len(Contents) = Held
      /\ \A k \in 1 .. Held : Contents[k] = Element(k - 1)
  BY ContentsType DEF IsContents
<1>2. /\ Contents' \in Seq(Values) /\ Len(Contents') = Held'
      /\ \A k \in 1 .. Held' : Contents'[k] = Element(k - 1)'
  <2>1. IsContents'
    BY ContentsType, PTL
  <2> QED BY <2>1 DEF IsContents
<1>3. \A k \in 1 .. Held : k - 1 \in 0 .. Held - 1
  BY <1>1
<1>4. \A k \in 1 .. Held : Contents'[k] = Contents[k]
  BY <1>1, <1>2, <1>3
<1> QED BY <1>1, <1>2, <1>4, SeqEqual

(* What is published comes behind everything else.                         *)
LEMMA PublishAppends ==
    ASSUME RingInv, Publish
    PROVE  /\ Len(Contents) < SizeT
           /\ producer.item \in Values
           /\ Contents' = Append(Contents, producer.item)
<1> DEFINE v == producer.item
<1>1. /\ producer.at = "publish" /\ producer'.at = "idle" /\ cells' = cells
      /\ consumer' = consumer
  BY DEF Publish
<1>2. RingInv' /\ Filled' = Filled + 1 /\ \A k : Cell(k)' = Cell(k)
  BY PublishKeeps
<1>3. v \in Values /\ Filled < SizeT /\ Filled \in Nat /\ Held = Filled /\ Held' = Held + 1
  BY <1>1, <1>2, Ends DEF RingInv, RingStageInv, Held
<1>4. /\ Contents \in Seq(Values) /\ Len(Contents) = Held
      /\ \A k \in 1 .. Held : Contents[k] = Element(k - 1)
  BY ContentsType DEF IsContents
<1>5. /\ Contents' \in Seq(Values) /\ Len(Contents') = Held + 1
      /\ \A k \in 1 .. Held + 1 : Contents'[k] = Element(k - 1)'
  <2>1. IsContents'
    BY <1>2, ContentsType, PTL
  <2> QED BY <1>3, <2>1 DEF IsContents
<1>6. \A k : Element(k)' = Element(k)
  BY <1>1, <1>2 DEF Element
<1>7. Element(Held) = v
  <2>1. Held \in 0 .. SizeT - 1 /\ CellInv(Held) /\ ~ (Held < Filled)
    BY <1>1, <1>3, Sizes DEF RingInv, CellsInv
  <2>2. ~ (Held = 0 /\ consumer.at = "release")
    BY <1>3 DEF RingInv, RingStageInv
  <2> QED BY <1>1, <1>3, <2>1, <2>2 DEF CellInv, Element
<1> HIDE DEF v
<1>8. \A k \in 1 .. Held + 1 : Contents'[k] = Append(Contents, v)[k]
  <2> TAKE k \in 1 .. Held + 1
  <2>1. CASE k \in 1 .. Held
    BY <1>3, <1>4, <1>5, <1>6, <2>1, AppendProperties
  <2>2. CASE k = Held + 1
    <3>1. k - 1 = Held
      BY <1>3, <2>2
    <3>2. Contents'[k] = v
      BY <1>5, <1>6, <1>7, <3>1
    <3>3. Append(Contents, v)[Len(Contents) + 1] = v
      BY <1>3, <1>4, AppendProperties
    <3>4. Append(Contents, v)[k] = v
      <4>1. Len(Contents) + 1 = k
        BY <1>4, <2>2
      <4> QED BY <3>3, <4>1, Zenon
    <3> QED BY <3>2, <3>4, Zenon
  <2>3. k \in 1 .. Held \/ k = Held + 1
    BY <1>3
  <2> QED BY <2>1, <2>2, <2>3, Zenon
<1>9. Append(Contents, v) \in Seq(Values) /\ Len(Append(Contents, v)) = Held + 1
  BY <1>3, <1>4, AppendProperties
<1>10. Contents' = Append(Contents, v)
  BY <1>5, <1>8, <1>9, SeqEqual
<1> QED BY <1>3, <1>4, <1>10 DEF v

(* What is released was the first.                                         *)
LEMMA ReleaseTakes ==
    ASSUME RingInv, Release
    PROVE  /\ Contents # <<>>
           /\ taken' = Head(Contents)
           /\ Contents' = Tail(Contents)
<1>1. /\ consumer.at = "release" /\ consumer' = [at |-> "idle", out |-> Raw] /\ cells' = cells
      /\ producer' = producer /\ taken' = consumer.out
  BY DEF Release
<1>2. RingInv' /\ Filled' = Filled - 1 /\ \A k \in Nat : Cell(k)' = Cell(k + 1)
  BY ReleaseKeeps
<1>3. Filled >= 1 /\ Filled \in Nat /\ producer.at # "gone" /\ Held = Filled /\ Held' = Held - 1
  BY <1>1, <1>2, Ends DEF RingInv, RingStageInv, Held
<1>4. /\ Contents \in Seq(Values) /\ Len(Contents) = Held
      /\ \A k \in 1 .. Held : Contents[k] = Element(k - 1)
  BY ContentsType DEF IsContents
<1>5. /\ Contents' \in Seq(Values) /\ Len(Contents') = Held - 1
      /\ \A k \in 1 .. Held - 1 : Contents'[k] = Element(k - 1)'
  <2>1. IsContents'
    BY <1>2, ContentsType, PTL
  <2> QED BY <1>3, <2>1 DEF IsContents
<1>6. Contents # <<>>
  BY <1>3, <1>4, EmptySeq
<1>7. Head(Contents) = taken'
  <2>1. Contents[1] = Element(0)
    BY <1>3, <1>4
  <2>2. Head(Contents) = Contents[1]
    BY <1>4, <1>6
  <2> QED BY <1>1, <2>1, <2>2 DEF Element
<1>8. /\ Tail(Contents) \in Seq(Values) /\ Len(Tail(Contents)) = Held - 1
      /\ \A k \in 1 .. Held - 1 : Tail(Contents)[k] = Contents[k + 1]
  BY <1>4, <1>6, HeadTailProperties
<1>9. \A k \in 1 .. Held - 1 : Contents'[k] = Tail(Contents)[k]
  <2> TAKE k \in 1 .. Held - 1
  <2>1. k - 1 \in Nat /\ (k - 1) + 1 = k /\ k # 0 /\ k + 1 \in 1 .. Held /\ (k + 1) - 1 = k
    BY <1>3
  <2>2. Element(k - 1)' = cells[Cell(k)]
    BY <1>1, <1>2, <2>1 DEF Element
  <2>3. Element(k) = cells[Cell(k)]
    BY <2>1 DEF Element
  <2>4. Contents[k + 1] = Element(k)
    BY <1>4, <2>1
  <2> QED BY <1>5, <1>8, <2>2, <2>3, <2>4
<1>10. Contents' = Tail(Contents)
  BY <1>5, <1>8, <1>9, SeqEqual
<1> QED BY <1>6, <1>7, <1>10

(* Every step of the ring is one of the bounded queue or none at all.      *)
LEMMA StepSimulates ==
    ASSUME RingInv, [RingNext]_ringVars
    PROVE  [Fifo!Next]_<<Contents, accepted, taken>>
<1>0. RingInv'
  BY StepKeepsInvariant
<1>1. CASE \E v \in Values : Emplace(v)
  <2>1. Same /\ UNCHANGED <<cells, consumer, accepted, taken>>
        /\ producer.at # "gone" /\ producer'.at # "gone"
    BY <1>1 DEF Emplace, Same
  <2>2. Contents' = Contents
    BY <1>0, <2>1, SameCells, SameContents DEF Held, Element
  <2> QED BY <2>1, <2>2
<1>2. CASE EmplaceFull
  <2>1. Same /\ UNCHANGED <<cells, producer, consumer, taken>> /\ accepted' = FALSE
        /\ producer.at = "idle" /\ Full(read_, write_)
    BY <1>2 DEF EmplaceFull, Same
  <2>2. Contents' = Contents
    BY <1>0, <2>1, SameCells, SameContents DEF Held, Element
  <2>3. Len(Contents) = SizeT
    BY <2>1, Ends, ContentsType DEF RingInv, Held, IsContents
  <2>4. Fifo!Refuse
    BY <2>1, <2>2, <2>3 DEF Fifo!Refuse
  <2> QED BY <2>4 DEF Fifo!Next
<1>3. CASE Construct
  <2>1. Same /\ UNCHANGED <<consumer, accepted, taken>>
        /\ producer.at = "construct" /\ producer'.at = "publish"
        /\ cells' = [cells EXCEPT ![Index(write_)] = producer.item]
    BY <1>3 DEF Construct, Same, RingInv, RingStageInv
  <2>2. Filled \in 0 .. SizeT - 1 /\ producer.item \in Values /\ Index(write_) = Cell(Filled)
    BY <2>1, Ends, Sizes DEF RingInv, RingStageInv
  <2>3. \A k \in 0 .. SizeT - 1 : k # Filled => cells'[Cell(k)] = cells[Cell(k)]
    BY <2>1, <2>2, WriteCell DEF RingInv
  <2>4. Held = Filled /\ Held' = Held
    BY <2>1, SameCells DEF Held
  <2>5. \A k \in 0 .. Held - 1 : k \in 0 .. SizeT - 1 /\ k # Filled
    BY <2>2, <2>4, Sizes
  <2>6. \A k \in 0 .. Held - 1 : Element(k)' = Element(k)
    BY <2>1, <2>3, <2>5, SameCells DEF Element
  <2>7. Contents' = Contents
    BY <1>0, <2>4, <2>6, SameContents
  <2> QED BY <2>1, <2>7
<1>4. CASE Publish
  <2>1. Fifo!Put(producer.item)
    BY <1>4, PublishAppends DEF Publish, Fifo!Put
  <2> QED BY <1>4, <2>1, PublishAppends DEF Fifo!Next
<1>5. CASE Dequeue
  <2>1. Same /\ UNCHANGED <<cells, producer, accepted, taken>>
        /\ consumer.at = "idle" /\ consumer'.at = "move"
    BY <1>5 DEF Dequeue, Same, RingInv, RingStageInv
  <2>2. Contents' = Contents
    BY <1>0, <2>1, SameCells, SameContents DEF Held, Element
  <2> QED BY <2>1, <2>2
<1>6. CASE DequeueEmpty
  <2>1. Same /\ UNCHANGED <<cells, producer, consumer, accepted>> /\ taken' = Raw
        /\ Empty(read_, write_)
    BY <1>6 DEF DequeueEmpty, Same
  <2>2. Contents' = Contents
    BY <1>0, <2>1, SameCells, SameContents DEF Held, Element
  <2>3. Contents \in Seq(Values) /\ Len(Contents) = 0
    BY <2>1, Ends, ContentsType DEF RingInv, Held, IsContents
  <2>4. Contents = <<>>
    BY <2>3, EmptySeq
  <2>5. Fifo!Miss
    BY <2>1, <2>2, <2>4 DEF Fifo!Miss
  <2> QED BY <2>5 DEF Fifo!Next
<1>7. CASE Move
  <2>1. Same /\ UNCHANGED <<producer, accepted, taken>>
        /\ consumer.at = "move" /\ consumer'.at = "release"
    BY <1>7 DEF Move, Same
  <2>2. /\ consumer'.out = cells[Cell(0)]
        /\ \A k \in 0 .. SizeT - 1 : k # 0 => cells'[Cell(k)] = cells[Cell(k)]
    BY <1>7, MoveKeeps
  <2>3. Held' = Held /\ Held \in Nat /\ Held <= SizeT
    BY <2>1, SameCells, Ends, Sizes DEF RingInv, RingStageInv, Held
  <2>4. \A k \in 0 .. Held - 1 : k \in 0 .. SizeT - 1
    BY <2>3, Sizes
  <2>5. \A k \in 0 .. Held - 1 : Element(k)' = Element(k)
    <3> TAKE k \in 0 .. Held - 1
    <3>1. CASE k = 0
      BY <2>1, <2>2, <3>1 DEF Element
    <3>2. CASE k # 0
      BY <2>1, <2>2, <2>4, <3>2, SameCells DEF Element
    <3> QED BY <3>1, <3>2
  <2>6. Contents' = Contents
    BY <1>0, <2>3, <2>5, SameContents
  <2> QED BY <2>1, <2>6
<1>8. CASE Release
  <2>1. Fifo!Take
    BY <1>8, ReleaseTakes DEF Release, Fifo!Take
  <2> QED BY <2>1 DEF Fifo!Next
<1>9. CASE Destroy
  <2>1. Held' = 0 /\ UNCHANGED <<accepted, taken>>
    BY <1>9, DestroyKeeps DEF Held, Destroy
  <2>2. Contents' \in Seq(Values) /\ Len(Contents') = 0
    <3>1. IsContents'
      BY <1>0, ContentsType, PTL
    <3> QED BY <2>1, <3>1 DEF IsContents
  <2>3. Contents' = <<>>
    BY <2>2, EmptySeq
  <2>4. Fifo!Discard
    BY <2>1, <2>3 DEF Fifo!Discard
  <2> QED BY <2>4 DEF Fifo!Next
<1>10. CASE UNCHANGED ringVars
  <2>1. Same /\ UNCHANGED <<cells, producer, consumer, accepted, taken>>
    BY <1>10 DEF ringVars, Same
  <2>2. Contents' = Contents
    BY <1>0, <2>1, SameCells, SameContents DEF Held, Element
  <2> QED BY <2>1, <2>2
<1> QED BY <1>1, <1>2, <1>3, <1>4, <1>5, <1>6, <1>7, <1>8, <1>9, <1>10
        DEF RingNext, Producer, Consumer

LEMMA InitSimulates == RingInit => Fifo!Init
<1> SUFFICES ASSUME RingInit PROVE Fifo!Init
  OBVIOUS
<1>1. RingInv
  BY InitInvariant
<1>2. Held = 0
  BY <1>1, Ends DEF RingInit, RingInv, Held, Empty
<1>3. Contents \in Seq(Values) /\ Len(Contents) = 0
  BY <1>1, <1>2, ContentsType DEF IsContents
<1>4. Contents = <<>>
  BY <1>3, EmptySeq
<1> QED BY <1>4 DEF RingInit, Fifo!Init

(* Seen from its two threads the ring is a bounded queue: nothing is lost, *)
(* repeated, reordered or torn, and it refuses only when full.             *)
THEOREM RingIsAQueue == RingSpec => ImplementsFifo
<1>1. RingInv /\ [RingNext]_ringVars => [Fifo!Next]_<<Contents, accepted, taken>>
  BY StepSimulates
<1> QED BY InitSimulates, <1>1, Invariant, PTL DEF RingSpec, ImplementsFifo, Fifo!Spec

-----------------------------------------------------------------------------
(***************************************************************************)
(* The memory pool.                                                        *)
(***************************************************************************)
FreeSet(p) == {p.free[k] : k \in 1 .. Len(p.free)}

PoolInv(p) ==
    /\ p \in [free : Seq(Chunks), valid : SUBSET Chunks, usedSize : Nat]
    /\ \A k, l \in 1 .. Len(p.free) : p.free[k] = p.free[l] => k = l
    /\ FreeSet(p) = Chunks \ p.valid
    /\ p.usedSize = Cardinality(p.valid)

(* Sets of chunks are finite. *)
LEMMA ChunksFinite ==
    ASSUME NEW S \in SUBSET Chunks
    PROVE  IsFiniteSet(S) /\ Cardinality(S) \in Nat /\ Cardinality(S) <= Cardinality(Chunks)
  <1>1. IsFiniteSet(Chunks)
    BY PoolAssumption
  <1> QED
    BY <1>1, FS_Subset, FS_CardinalityType

(* Allocate takes a free chunk off the list and marks it. *)
LEMMA AllocateKeeps ==
    ASSUME NEW p, PoolInv(p), ~Exhausted(p)
    PROVE  /\ PoolInv(Allocate(p))
           /\ Head(p.free) \in Chunks \ p.valid
           /\ Allocate(p).valid = p.valid \cup {Head(p.free)}
  <1> DEFINE f == p.free
             h == Head(f)
             q == Allocate(p)
  <1>1. f \in Seq(Chunks) /\ f # <<>>
    BY DEF PoolInv, Exhausted
  <1>2. /\ Len(f) \in Nat /\ Len(f) >= 1
        /\ h = f[1]
        /\ Tail(f) \in Seq(Chunks)
        /\ Len(Tail(f)) = Len(f) - 1
        /\ \A k \in 1 .. Len(f) - 1 : Tail(f)[k] = f[k + 1]
    BY <1>1, HeadTailProperties, EmptySeq
  <1>3. h \in FreeSet(p)
    BY <1>2 DEF FreeSet
  <1>4. h \in Chunks \ p.valid
    BY <1>3 DEF PoolInv
  <1>5. q.free = Tail(f) /\ q.valid = p.valid \cup {h} /\ q.usedSize = p.usedSize + 1
    BY DEF Allocate
  <1>6. Cardinality(p.valid \cup {h}) = Cardinality(p.valid) + 1 /\ Cardinality(p.valid) \in Nat
    BY <1>4, ChunksFinite, FS_AddElement DEF PoolInv
  <1>7. q \in [free : Seq(Chunks), valid : SUBSET Chunks, usedSize : Nat]
    BY <1>2, <1>4, <1>6 DEF Allocate, PoolInv
  <1>8. \A k, l \in 1 .. Len(q.free) : q.free[k] = q.free[l] => k = l
    <2> SUFFICES ASSUME NEW k \in 1 .. Len(f) - 1, NEW l \in 1 .. Len(f) - 1, f[k + 1] = f[l + 1]
                 PROVE  k = l
      BY <1>2, <1>5
    <2>1. k + 1 \in 1 .. Len(f) /\ l + 1 \in 1 .. Len(f)
      BY <1>2
    <2> QED
      BY <2>1 DEF PoolInv
  <1>9. FreeSet(q) = FreeSet(p) \ {h}
    <2> DEFINE g == q.free
    <2>1. Len(g) = Len(f) - 1 /\ \A k \in 1 .. Len(f) - 1 : g[k] = f[k + 1]
      BY <1>2, <1>5
    <2>2. \A j, l \in 1 .. Len(f) : f[j] = f[l] => j = l
      BY DEF PoolInv
    <2> HIDE DEF f, h, q, g
    <2>3. ASSUME NEW k \in 1 .. Len(g) PROVE g[k] \in {f[j] : j \in 1 .. Len(f)} \ {h}
      <3>1. k + 1 \in 1 .. Len(f) /\ 1 \in 1 .. Len(f) /\ k + 1 # 1 /\ g[k] = f[k + 1]
        BY <1>2, <2>1
      <3> QED
        BY <1>2, <2>2, <3>1
    <2>4. ASSUME NEW j \in 1 .. Len(f), f[j] # h PROVE f[j] \in {g[k] : k \in 1 .. Len(g)}
      <3>1. j - 1 \in 1 .. Len(g) /\ j = (j - 1) + 1
        BY <1>2, <2>1, <2>4
      <3>2. g[j - 1] = f[j]
        BY <2>1, <3>1
      <3> QED
        BY <3>1, <3>2
    <2>5. {g[k] : k \in 1 .. Len(g)} = {f[j] : j \in 1 .. Len(f)} \ {h}
      BY <2>3, <2>4
    <2> QED
      BY <2>5 DEF FreeSet, g, f
  <1> QED
    BY <1>4, <1>5, <1>6, <1>7, <1>8, <1>9 DEF PoolInv

(* Deallocate puts an allocated chunk at the head of the list and unmarks it;
   it does nothing with any other pointer. *)
LEMMA DeallocateKeeps ==
    ASSUME NEW p, PoolInv(p), NEW b
    PROVE  /\ PoolInv(Deallocate(p, b))
           /\ Deallocate(p, b).valid = p.valid \ {b}
  <1> DEFINE f == p.free
             q == Deallocate(p, b)
  <1>1. CASE ~Deallocatable(p, b)
    BY <1>1 DEF Deallocate, Deallocatable, PoolInv
  <1>2. CASE Deallocatable(p, b)
    <2>1. f \in Seq(Chunks) /\ b \in Chunks /\ b \in p.valid
      BY <1>2 DEF PoolInv, Deallocatable
    <2>2. /\ <<b>> \o f \in Seq(Chunks)
          /\ Len(<<b>> \o f) = Len(f) + 1
          /\ (<<b>> \o f)[1] = b
          /\ \A k \in 2 .. Len(f) + 1 : (<<b>> \o f)[k] = f[k - 1]
          /\ Len(f) \in Nat
      BY <2>1, ConcatProperties, <<b>> \in Seq(Chunks), Len(<<b>>) = 1
    <2>3. q.free = <<b>> \o f /\ q.valid = p.valid \ {b} /\ q.usedSize = p.usedSize - 1
      BY <1>2 DEF Deallocate
    <2>4. Cardinality(p.valid \ {b}) = Cardinality(p.valid) - 1 /\ Cardinality(p.valid \ {b}) \in Nat
      <3>1. p.valid \in SUBSET Chunks /\ p.valid \ {b} \in SUBSET Chunks
        BY DEF PoolInv
      <3> QED
        BY <2>1, <3>1, ChunksFinite, FS_RemoveElement
    <2>5. q \in [free : Seq(Chunks), valid : SUBSET Chunks, usedSize : Nat]
      BY <1>2, <2>2, <2>4 DEF Deallocate, PoolInv
    <2>6. \A k \in 1 .. Len(f) : f[k] # b
      BY <2>1 DEF PoolInv, FreeSet
    <2> DEFINE g == q.free
    <2>a. /\ Len(g) = Len(f) + 1 /\ Len(f) \in Nat
          /\ g[1] = b
          /\ \A k \in 2 .. Len(f) + 1 : g[k] = f[k - 1]
      BY <2>2, <2>3
    <2>b. \A j, l \in 1 .. Len(f) : f[j] = f[l] => j = l
      BY DEF PoolInv
    <2> HIDE DEF f, q, g
    <2>c. ASSUME NEW k \in 1 .. Len(g), k # 1 PROVE k - 1 \in 1 .. Len(f) /\ g[k] = f[k - 1]
      BY <2>a, <2>c
    <2>7. ASSUME NEW k \in 1 .. Len(g), NEW l \in 1 .. Len(g), g[k] = g[l] PROVE k = l
      <3>1. CASE k = 1
        BY <2>a, <2>c, <2>6, <2>7, <3>1
      <3>2. CASE l = 1
        BY <2>a, <2>c, <2>6, <2>7, <3>2
      <3>3. CASE k # 1 /\ l # 1
        <4>1. k - 1 = l - 1
          BY <2>b, <2>c, <2>7, <3>3
        <4> QED
          BY <2>a, <4>1
      <3> QED
        BY <3>1, <3>2, <3>3
    <2>8. FreeSet(q) = FreeSet(p) \cup {b}
      <3>1. ASSUME NEW k \in 1 .. Len(g) PROVE g[k] \in {f[j] : j \in 1 .. Len(f)} \cup {b}
        BY <2>a, <2>c
      <3>2. ASSUME NEW j \in 1 .. Len(f) PROVE f[j] \in {g[k] : k \in 1 .. Len(g)}
        <4>1. j + 1 \in 2 .. Len(f) + 1 /\ j + 1 \in 1 .. Len(g) /\ (j + 1) - 1 = j
          BY <2>a
        <4>2. g[j + 1] = f[j]
          BY <2>a, <4>1
        <4> QED
          BY <4>1, <4>2
      <3>3. 1 \in 1 .. Len(g)
        BY <2>a
      <3>4. {g[k] : k \in 1 .. Len(g)} = {f[j] : j \in 1 .. Len(f)} \cup {b}
        BY <2>a, <3>1, <3>2, <3>3
      <3> QED
        BY <3>4 DEF FreeSet, g, f
    <2>9. FreeSet(p) = Chunks \ p.valid /\ p.usedSize = Cardinality(p.valid)
      BY DEF PoolInv
    <2>10. FreeSet(q) = Chunks \ q.valid
      BY <2>1, <2>3, <2>8, <2>9
    <2>11. q.usedSize = Cardinality(q.valid)
      BY <2>3, <2>4, <2>9
    <2>12. \A k, l \in 1 .. Len(q.free) : q.free[k] = q.free[l] => k = l
      BY <2>7 DEF g
    <2>13. PoolInv(q)
      BY <2>5, <2>10, <2>11, <2>12 DEF PoolInv
    <2> QED
      BY <2>3, <2>13 DEF q
  <1> QED
    BY <1>1, <1>2

-----------------------------------------------------------------------------
(***************************************************************************)
(* The inductive invariant.                                                *)
(***************************************************************************)

(* The threads own a chunk only where they are between taking it and giving
   it away. *)
StageInv ==
    /\ receiver.at \in {"none", "test", "allocate", "exited"} => receiver.buffer = NullPtr
    /\ receiver.at = "emplace" =>
          receiver.buffer \in Chunks /\ content[receiver.buffer] \in Datagrams
    /\ main.at = "process" => main.packet \in Packet
    /\ main.at # "process" => main.packet = NoPacket
    /\ main.at = "start" => receiver.at = "none"

IInv ==
    /\ TypeOK
    /\ PoolInv(pool)
    /\ OneOwner
    /\ PacketsIntact
    /\ StageInv

(* The constructor links every chunk into the free list once. *)
LEMMA InitInv == Init => IInv
  <1> SUFFICES ASSUME Init PROVE IInv
    OBVIOUS
  <1> DEFINE N == Cardinality(Chunks)
             f == pool.free
  <1>1. N \in Nat
    BY ChunksFinite
  <1>2. /\ f \in [1 .. N -> Chunks] /\ pool.valid = {} /\ pool.usedSize = 0
        /\ pool \in [free : [1 .. N -> Chunks], valid : {{}}, usedSize : {0}]
        /\ \A c \in Chunks : \E k \in 1 .. N : f[k] = c
    BY DEF Init
  <1>3. f \in Seq(Chunks) /\ Len(f) = N
    BY <1>1, <1>2
  <1>4. \A k, l \in 1 .. N : f[k] = f[l] => k = l
    <2>1. f \in Surjection(1 .. N, Chunks)
      BY <1>2 DEF Surjection
    <2>2. IsFiniteSet(1 .. N) /\ Cardinality(1 .. N) = N
      BY <1>1, FS_Interval
    <2>3. f \in Injection(1 .. N, Chunks)
      BY <2>1, <2>2, FS_SurjSameCardinalityImpliesInj
    <2> QED
      BY <1>2, <2>3 DEF Injection, IsInjective
  <1>5. Cardinality({}) = 0
    BY FS_EmptySet
  <1>6. PoolInv(pool)
    BY <1>2, <1>3, <1>4, <1>5 DEF PoolInv, FreeSet
  <1>7. TypeOK
    <2>1. pool \in [free : Seq(Chunks), valid : SUBSET Chunks, usedSize : 0 .. N]
      <3>1. 0 \in 0 .. N /\ {} \in SUBSET Chunks
        BY <1>1
      <3> HIDE DEF N
      <3> QED
        BY <1>2, <1>3, <3>1
    <2>2. content \in [Chunks -> Datagrams \cup {Link}] /\ running \in BOOLEAN
      BY DEF Init
    <2>3. pendingPackets_ \in Seq(Packet)
      BY DEF Init
    <2>4. /\ receiver \in [at : {"none", "test", "allocate", "receive", "emplace", "deallocate", "exited"},
                           buffer : Chunks \cup {NullPtr}]
          /\ main \in [at : {"start", "flag", "frame", "process", "join", "stopped"},
                       packet : Packet \cup {NoPacket}]
      BY DEF Init
    <2> QED
      BY <2>1, <2>2, <2>3, <2>4 DEF TypeOK
  <1>8. OneOwner /\ PacketsIntact /\ StageInv
    BY <1>2 DEF Init, OneOwner, QueuedBuffers, PacketsIntact, StageInv, NoPacket
  <1> QED
    BY <1>6, <1>7, <1>8 DEF IInv

(* Freeing an owned chunk takes its valid bit and its content, no other. *)
LEMMA FreeKeeps ==
    ASSUME IInv, NEW b, Free(b)
    PROVE  /\ PoolInv(pool')
           /\ pool'.valid = pool.valid \ {b}
           /\ pool' \in [free : Seq(Chunks), valid : SUBSET Chunks, usedSize : 0 .. Cardinality(Chunks)]
           /\ content' \in [Chunks -> Datagrams \cup {Link}]
           /\ \A c \in Chunks : c # b => content'[c] = content[c]
  <1>1. PoolInv(pool') /\ pool'.valid = pool.valid \ {b}
    BY DeallocateKeeps DEF IInv, Free
  <1>2. pool'.valid \in SUBSET Chunks /\ pool'.usedSize = Cardinality(pool'.valid)
    BY <1>1 DEF PoolInv
  <1>3. pool'.usedSize \in 0 .. Cardinality(Chunks)
    BY <1>2, ChunksFinite
  <1> QED
    BY <1>1, <1>3 DEF IInv, TypeOK, Free, PoolInv

(* Appending a packet adds its buffer to those in the queue, taking the head
   off removes its buffer. *)
LEMMA QueueAppend ==
    ASSUME NEW q \in Seq(Packet), NEW p \in Packet
    PROVE  /\ Append(q, p) \in Seq(Packet)
           /\ Len(Append(q, p)) = Len(q) + 1
           /\ Len(q) \in Nat
           /\ \A k \in 1 .. Len(q) : Append(q, p)[k] = q[k]
           /\ Append(q, p)[Len(q) + 1] = p
           /\ \A k \in 1 .. Len(q) + 1 : k \in 1 .. Len(q) \/ k = Len(q) + 1
  BY AppendProperties

LEMMA QueueTail ==
    ASSUME NEW q \in Seq(Packet), q # <<>>
    PROVE  /\ Tail(q) \in Seq(Packet)
           /\ Len(Tail(q)) = Len(q) - 1
           /\ \A k \in 1 .. Len(Tail(q)) : k + 1 \in 2 .. Len(q) /\ Tail(q)[k] = q[k + 1]
           /\ \A k \in 2 .. Len(q) : k - 1 \in 1 .. Len(Tail(q)) /\ Tail(q)[k - 1] = q[k]
           /\ Head(q) = q[1] /\ 1 \in 1 .. Len(q) /\ q[1] \in Packet
           /\ \A k \in 1 .. Len(q) : k = 1 \/ k \in 2 .. Len(q)
  <1>1. Len(q) \in Nat /\ Len(q) >= 1
    BY EmptySeq
  <1> QED
    BY <1>1, HeadTailProperties, ElementOfSeq

(* As every queued packet has a chunk of its own and the receiving thread has
   one more, the queue is not full when a packet is emplaced. *)
LEMMA RoomForPacket ==
    ASSUME IInv, receiver.at = "emplace"
    PROVE  HasRoom
  <1> DEFINE q == pendingPackets_
             S == 1 .. Len(q)
             T == Chunks \ {receiver.buffer}
             f == [k \in S |-> q[k].buffer]
  <1>1. q \in Seq(Packet) /\ Len(q) \in Nat /\ receiver.buffer \in Chunks
    BY DEF IInv, TypeOK, StageInv
  <1>2. \A k \in S : q[k] \in Packet
    BY <1>1, ElementOfSeq
  <1>3. f \in [S -> T]
    BY <1>2 DEF IInv, OneOwner, QueuedBuffers, Packet
  <1>4. \A k, l \in S : f[k] = f[l] => k = l
    BY DEF IInv, OneOwner
  <1>5. IsFiniteSet(S) /\ Cardinality(S) = Len(q)
    BY <1>1, FS_Interval
  <1>6. IsFiniteSet(T) /\ Cardinality(T) = Cardinality(Chunks) - 1 /\ Cardinality(Chunks) \in Nat
    BY <1>1, PoolAssumption, FS_RemoveElement, FS_CardinalityType
  <1>7. ~(Cardinality(T) < Cardinality(S))
    <2> HIDE DEF S, T, f
    <2> QED
      BY <1>3, <1>4, <1>5, <1>6, FS_PigeonHole
  <1> QED
    BY <1>1, <1>5, <1>6, <1>7, QueueAssumption DEF HasRoom

(* Every step preserves the invariant. *)
LEMMA NextInv == IInv /\ [Next]_vars => IInv'
  <1> SUFFICES ASSUME IInv, [Next]_vars PROVE IInv'
    OBVIOUS
  <1> USE PoolAssumption
  <1>0. TypeOK /\ PoolInv(pool) /\ OneOwner /\ PacketsIntact /\ StageInv
    BY DEF IInv
  <1>q. /\ pendingPackets_ \in Seq(Packet)
        /\ \A k \in 1 .. Len(pendingPackets_) : pendingPackets_[k] \in Packet
        /\ \A k \in 1 .. Len(pendingPackets_) :
              pendingPackets_[k].buffer \in Chunks /\ pendingPackets_[k].buffer \in QueuedBuffers
    <2>1. pendingPackets_ \in Seq(Packet)
      BY <1>0 DEF TypeOK
    <2>2. \A k \in 1 .. Len(pendingPackets_) : pendingPackets_[k] \in Packet
      BY <2>1, ElementOfSeq
    <2> QED
      BY <2>1, <2>2 DEF Packet, QueuedBuffers
  <1>1. CASE CreateThread \/ SetFlag \/ ClearFlag \/ Join \/ TestFlag \/ ReceiveNothing
    <2>1. UNCHANGED <<pool, content, pendingPackets_>> /\ receiver'.buffer = receiver.buffer
          /\ main'.packet = main.packet
      BY <1>0, <1>1 DEF TypeOK, CreateThread, SetFlag, ClearFlag, Join, TestFlag, ReceiveNothing
    <2>2. TypeOK'
      BY <1>0, <1>1, <2>1
      DEF TypeOK, CreateThread, SetFlag, ClearFlag, Join, TestFlag, ReceiveNothing
    <2>3. StageInv'
      <3>1. /\ receiver'.at = "emplace" => receiver.at = "emplace"
            /\ receiver'.at \in {"none", "test", "allocate", "exited"} =>
                  receiver.at \in {"none", "test", "allocate", "exited"}
            /\ main'.at = "start" => main.at = "start" /\ receiver' = receiver
        <4>1. CASE CreateThread
          BY <1>0, <4>1 DEF TypeOK, StageInv, CreateThread
        <4>2. CASE SetFlag \/ ClearFlag \/ Join
          BY <1>0, <4>2 DEF TypeOK, SetFlag, ClearFlag, Join
        <4>3. CASE TestFlag
          BY <1>0, <4>3 DEF TypeOK, StageInv, TestFlag
        <4>4. CASE ReceiveNothing
          BY <1>0, <4>4 DEF TypeOK, StageInv, ReceiveNothing
        <4> QED
          BY <1>1, <4>1, <4>2, <4>3, <4>4
      <3>2. main'.at # "process" => main.at # "process"
        BY <1>0, <1>1
        DEF TypeOK, CreateThread, SetFlag, ClearFlag, Join, TestFlag, ReceiveNothing
      <3>3. main'.at = "process" => main.at = "process"
        BY <1>0, <1>1
        DEF TypeOK, CreateThread, SetFlag, ClearFlag, Join, TestFlag, ReceiveNothing
      <3> QED
        BY <1>0, <2>1, <3>1, <3>2, <3>3 DEF StageInv
    <2>4. PacketsIntact'
      BY <1>0, <1>1, <2>1
      DEF TypeOK, PacketsIntact, CreateThread, SetFlag, ClearFlag, Join, TestFlag, ReceiveNothing
    <2>5. OneOwner'
      BY <1>0, <2>1 DEF OneOwner, QueuedBuffers
    <2> QED
      BY <1>0, <2>1, <2>2, <2>3, <2>4, <2>5 DEF IInv
  <1>2. CASE AllocateBuffer
    <2>1. CASE Exhausted(pool)
      BY <1>0, <1>2, <2>1
      DEF IInv, TypeOK, OneOwner, QueuedBuffers, PacketsIntact, StageInv, AllocateBuffer
    <2>2. CASE ~Exhausted(pool)
      <3> DEFINE h == Head(pool.free)
      <3>1. /\ receiver' = [at |-> "receive", buffer |-> h] /\ pool' = Allocate(pool)
            /\ UNCHANGED <<content, pendingPackets_, running, main>>
            /\ receiver.buffer = NullPtr /\ main.at # "start"
        BY <1>0, <1>2, <2>2 DEF AllocateBuffer, StageInv
      <3>2. /\ PoolInv(pool') /\ h \in Chunks \ pool.valid
            /\ pool'.valid = pool.valid \cup {h}
        BY <1>0, <2>2, <3>1, AllocateKeeps
      <3>3. pool' \in [free : Seq(Chunks), valid : SUBSET Chunks, usedSize : 0 .. Cardinality(Chunks)]
        BY <3>2, ChunksFinite DEF PoolInv
      <3> HIDE DEF h
      <3>4. TypeOK'
        BY <1>0, <3>1, <3>2, <3>3 DEF TypeOK
      <3>5. OneOwner'
        BY <1>0, <3>1, <3>2 DEF OneOwner, QueuedBuffers
      <3> QED
        BY <1>0, <3>1, <3>2, <3>4, <3>5 DEF IInv, PacketsIntact, StageInv
    <2> QED
      BY <2>1, <2>2
  <1>3. ASSUME NEW d \in Datagrams, ReceiveDatagram(d)
        PROVE  IInv'
    <2>1. /\ receiver.buffer \in Chunks
          /\ content' = [content EXCEPT ![receiver.buffer] = d]
          /\ receiver' = [receiver EXCEPT !.at = "emplace"]
          /\ UNCHANGED <<pool, pendingPackets_, running, main>>
      BY <1>0, <1>3 DEF TypeOK, ReceiveDatagram
    <2>2. receiver'.at = "emplace" /\ receiver'.buffer = receiver.buffer
      BY <1>0, <2>1 DEF TypeOK
    <2>3. /\ content'[receiver.buffer] = d
          /\ \A c \in Chunks : c # receiver.buffer => content'[c] = content[c]
      BY <1>0, <2>1 DEF TypeOK
    <2>4. TypeOK'
      BY <1>0, <2>1 DEF TypeOK
    <2>5. OneOwner'
      BY <1>0, <2>1, <2>2 DEF OneOwner, QueuedBuffers
    <2>6. \A k \in 1 .. Len(pendingPackets_) : pendingPackets_[k].buffer # receiver.buffer
      BY <1>0, <1>q DEF OneOwner
    <2>7. main.at = "process" => main.packet.buffer \in Chunks /\ main.packet.buffer # receiver.buffer
      BY <1>0, <2>1 DEF OneOwner, StageInv, Packet
    <2>8. PacketsIntact'
      BY <1>0, <1>q, <2>1, <2>3, <2>6, <2>7 DEF PacketsIntact
    <2>9. StageInv'
      BY <1>0, <2>1, <2>2, <2>3 DEF StageInv
    <2> QED
      BY <1>0, <2>1, <2>4, <2>5, <2>8, <2>9 DEF IInv
  <1>4. CASE EmplacePacket
    <2> DEFINE p == [buffer |-> receiver.buffer, datagram |-> content[receiver.buffer]]
    <2>1. /\ pendingPackets_' = Append(pendingPackets_, p)
          /\ receiver' = [at |-> "test", buffer |-> NullPtr]
          /\ UNCHANGED <<pool, content, running, main>>
      BY <1>4, RoomForPacket DEF EmplacePacket
    <2>2. p \in Packet /\ p.buffer = receiver.buffer /\ p.datagram = content[receiver.buffer]
          /\ receiver.buffer \in Chunks /\ receiver.buffer # NullPtr
      BY <1>0, <1>4 DEF EmplacePacket, StageInv, Packet
    <2> HIDE DEF p
    <2>3. /\ pendingPackets_' \in Seq(Packet)
          /\ Len(pendingPackets_') = Len(pendingPackets_) + 1
          /\ Len(pendingPackets_) \in Nat
          /\ \A k \in 1 .. Len(pendingPackets_) : pendingPackets_'[k] = pendingPackets_[k]
          /\ pendingPackets_'[Len(pendingPackets_) + 1] = p
          /\ \A k \in 1 .. Len(pendingPackets_) + 1 :
                k \in 1 .. Len(pendingPackets_) \/ k = Len(pendingPackets_) + 1
      BY <1>q, <2>1, <2>2, QueueAppend
    <2>4. TypeOK'
      BY <1>0, <2>1, <2>3 DEF TypeOK
    <2>5. QueuedBuffers' = QueuedBuffers \cup {receiver.buffer}
      <3>1. \A k \in 1 .. Len(pendingPackets_') :
               pendingPackets_'[k].buffer \in QueuedBuffers \cup {receiver.buffer}
        BY <1>q, <2>2, <2>3
      <3>2. receiver.buffer \in QueuedBuffers'
        BY <2>2, <2>3 DEF QueuedBuffers
      <3>3. \A k \in 1 .. Len(pendingPackets_) : pendingPackets_[k].buffer \in QueuedBuffers'
        BY <2>3 DEF QueuedBuffers
      <3> QED
        BY <3>1, <3>2, <3>3 DEF QueuedBuffers
    <2>6. \A k, l \in 1 .. Len(pendingPackets_') :
             pendingPackets_'[k].buffer = pendingPackets_'[l].buffer => k = l
      <3>1. \A k \in 1 .. Len(pendingPackets_) : pendingPackets_[k].buffer # p.buffer
        BY <1>0, <1>q, <2>2 DEF OneOwner
      <3>2. \A k, l \in 1 .. Len(pendingPackets_) :
               pendingPackets_[k].buffer = pendingPackets_[l].buffer => k = l
        BY <1>0 DEF OneOwner
      <3> QED
        BY <2>3, <3>1, <3>2
    <2>7. main.packet.buffer # receiver.buffer
      BY <1>0, <2>2 DEF OneOwner
    <2>8. main.packet.buffer \in Chunks \cup {NullPtr}
      BY <1>0 DEF StageInv, NoPacket, Packet, TypeOK
    <2>9. OneOwner'
      <3>1. QueuedBuffers \subseteq Chunks
        BY <1>q DEF QueuedBuffers
      <3> QED
        BY <1>0, <2>1, <2>2, <2>5, <2>6, <2>7, <2>8, <3>1 DEF OneOwner
    <2>10. PacketsIntact'
      BY <1>0, <2>1, <2>2, <2>3 DEF PacketsIntact
    <2>11. StageInv'
      BY <1>0, <1>4, <2>1 DEF StageInv, EmplacePacket
    <2> QED
      BY <1>0, <2>1, <2>4, <2>9, <2>10, <2>11 DEF IInv
  <1>5. CASE DeallocateBuffer
    <2> DEFINE b == receiver.buffer
    <2>1. /\ Free(b) /\ receiver' = [at |-> "test", buffer |-> NullPtr]
          /\ UNCHANGED <<pendingPackets_, running, main>>
      BY <1>5 DEF DeallocateBuffer
    <2>2. /\ PoolInv(pool') /\ pool'.valid = pool.valid \ {b}
          /\ pool' \in [free : Seq(Chunks), valid : SUBSET Chunks, usedSize : 0 .. Cardinality(Chunks)]
          /\ content' \in [Chunks -> Datagrams \cup {Link}]
          /\ \A c \in Chunks : c # b => content'[c] = content[c]
      BY <2>1, FreeKeeps
    <2>3. TypeOK'
      BY <1>0, <2>1, <2>2 DEF TypeOK
    <2>4. OneOwner'
      <3>1. QueuedBuffers \subseteq Chunks /\ QueuedBuffers' = QueuedBuffers
        BY <1>q, <2>1 DEF QueuedBuffers
      <3> QED
        BY <1>0, <2>1, <2>2, <3>1 DEF OneOwner
    <2>5. PacketsIntact'
      <3>1. \A k \in 1 .. Len(pendingPackets_) : pendingPackets_[k].buffer # b
        BY <1>0, <1>q DEF OneOwner
      <3>2. main.at = "process" => main.packet.buffer \in Chunks /\ main.packet.buffer # b
        BY <1>0 DEF OneOwner, StageInv, Packet
      <3> QED
        BY <1>0, <1>q, <2>1, <2>2, <3>1, <3>2 DEF PacketsIntact
    <2>6. StageInv'
      BY <1>0, <1>5, <2>1 DEF StageInv, DeallocateBuffer
    <2> QED
      BY <2>2, <2>3, <2>4, <2>5, <2>6 DEF IInv
  <1>6. CASE DequeuePacket
    <2> DEFINE p == Head(pendingPackets_)
    <2>1. /\ pendingPackets_ # <<>> /\ main.packet = NoPacket
          /\ main' = [at |-> "process", packet |-> p]
          /\ pendingPackets_' = Tail(pendingPackets_)
          /\ UNCHANGED <<pool, content, running, receiver>>
      BY <1>0, <1>6 DEF DequeuePacket, StageInv
    <2>2. /\ pendingPackets_' \in Seq(Packet)
          /\ \A k \in 1 .. Len(pendingPackets_') :
                k + 1 \in 2 .. Len(pendingPackets_) /\ pendingPackets_'[k] = pendingPackets_[k + 1]
          /\ \A k \in 2 .. Len(pendingPackets_) :
                k - 1 \in 1 .. Len(pendingPackets_') /\ pendingPackets_'[k - 1] = pendingPackets_[k]
          /\ p = pendingPackets_[1] /\ 1 \in 1 .. Len(pendingPackets_) /\ p \in Packet
          /\ \A k \in 1 .. Len(pendingPackets_) : k = 1 \/ k \in 2 .. Len(pendingPackets_)
      BY <1>q, <2>1, QueueTail
    <2> HIDE DEF p
    <2>3. TypeOK'
      BY <1>0, <2>1, <2>2 DEF TypeOK
    <2>4. \A k, l \in 1 .. Len(pendingPackets_) :
             pendingPackets_[k].buffer = pendingPackets_[l].buffer => k = l
      BY <1>0 DEF OneOwner
    <2>5. \A k \in 2 .. Len(pendingPackets_) :
             k \in 1 .. Len(pendingPackets_) /\ k # 1 /\ pendingPackets_[k].buffer # p.buffer
      BY <2>2, <2>4
    <2>6. QueuedBuffers' = QueuedBuffers \ {p.buffer} /\ p.buffer \in QueuedBuffers
          /\ p.buffer \in Chunks
      <3>1. \A k \in 1 .. Len(pendingPackets_') :
               pendingPackets_'[k].buffer \in QueuedBuffers \ {p.buffer}
        BY <1>q, <2>2, <2>5
      <3>2. \A k \in 1 .. Len(pendingPackets_) : pendingPackets_[k].buffer # p.buffer =>
               pendingPackets_[k].buffer \in QueuedBuffers'
        BY <2>2, <2>5 DEF QueuedBuffers
      <3>3. QueuedBuffers' \subseteq QueuedBuffers \ {p.buffer}
        BY <3>1 DEF QueuedBuffers
      <3>4. QueuedBuffers \ {p.buffer} \subseteq QueuedBuffers'
        <4> SUFFICES ASSUME NEW c \in QueuedBuffers, c # p.buffer PROVE c \in QueuedBuffers'
          OBVIOUS
        <4>1. PICK k \in 1 .. Len(pendingPackets_) : c = pendingPackets_[k].buffer
          BY DEF QueuedBuffers
        <4> QED
          BY <3>2, <4>1
      <3>5. p.buffer \in QueuedBuffers /\ p.buffer \in Chunks
        BY <1>q, <2>2
      <3> QED
        BY <3>3, <3>4, <3>5
    <2>7. \A k, l \in 1 .. Len(pendingPackets_') :
             pendingPackets_'[k].buffer = pendingPackets_'[l].buffer => k = l
      <3> SUFFICES ASSUME NEW k \in 1 .. Len(pendingPackets_'), NEW l \in 1 .. Len(pendingPackets_'),
                          pendingPackets_'[k].buffer = pendingPackets_'[l].buffer
                   PROVE  k = l
        OBVIOUS
      <3>1. pendingPackets_[k + 1].buffer = pendingPackets_[l + 1].buffer
        BY <2>2
      <3>2. k + 1 \in 1 .. Len(pendingPackets_) /\ l + 1 \in 1 .. Len(pendingPackets_)
        BY <2>2, <2>5
      <3>3. k + 1 = l + 1
        BY <2>4, <3>1, <3>2
      <3> QED
        BY <3>3
    <2>8. OneOwner'
      <3>1. NoPacket.buffer = NullPtr
        BY DEF NoPacket
      <3> QED
        BY <1>0, <2>1, <2>6, <2>7, <3>1 DEF OneOwner
    <2>9. PacketsIntact'
      BY <1>0, <2>1, <2>2, <2>5 DEF PacketsIntact
    <2>10. StageInv'
      BY <1>0, <2>1, <2>2 DEF StageInv
    <2> QED
      BY <1>0, <2>1, <2>3, <2>8, <2>9, <2>10 DEF IInv
  <1>7. CASE DeallocatePacket
    <2> DEFINE b == main.packet.buffer
    <2>1. /\ Free(b) /\ main.at = "process" /\ main.packet \in Packet
          /\ main' = [at |-> "frame", packet |-> NoPacket]
          /\ UNCHANGED <<pendingPackets_, running, receiver>>
      BY <1>0, <1>7 DEF DeallocatePacket, StageInv
    <2>2. /\ PoolInv(pool') /\ pool'.valid = pool.valid \ {b}
          /\ pool' \in [free : Seq(Chunks), valid : SUBSET Chunks, usedSize : 0 .. Cardinality(Chunks)]
          /\ content' \in [Chunks -> Datagrams \cup {Link}]
          /\ \A c \in Chunks : c # b => content'[c] = content[c]
      BY <2>1, FreeKeeps
    <2>3. b \in Chunks /\ NoPacket.buffer = NullPtr
      BY <2>1 DEF Packet, NoPacket
    <2>4. TypeOK'
      BY <1>0, <2>1, <2>2 DEF TypeOK
    <2>5. receiver.buffer # b /\ b \notin QueuedBuffers /\ QueuedBuffers' = QueuedBuffers
          /\ QueuedBuffers \subseteq Chunks
      BY <1>0, <1>q, <2>1, <2>3 DEF OneOwner, QueuedBuffers
    <2>6. OneOwner'
      BY <1>0, <2>1, <2>2, <2>3, <2>5 DEF OneOwner
    <2>7. PacketsIntact'
      BY <1>0, <1>q, <2>1, <2>2, <2>5 DEF PacketsIntact
    <2>8. StageInv'
      <3>1. receiver.at = "emplace" => content'[receiver.buffer] = content[receiver.buffer]
        BY <1>0, <2>2, <2>5 DEF StageInv
      <3> QED
        BY <1>0, <2>1, <3>1 DEF StageInv
    <2> QED
      BY <2>2, <2>4, <2>6, <2>7, <2>8 DEF IInv
  <1>8. CASE UNCHANGED vars
    BY <1>0, <1>8 DEF vars, IInv, TypeOK, OneOwner, QueuedBuffers, PacketsIntact, StageInv
  <1> QED
    BY <1>1, <1>2, <1>3, <1>4, <1>5, <1>6, <1>7, <1>8 DEF Next, Receiver, Main

LEMMA Invariance == Spec => []IInv
  BY InitInv, NextInv, PTL DEF Spec

-----------------------------------------------------------------------------
(***************************************************************************)
(* The theorems.                                                           *)
(***************************************************************************)

(* Every variable keeps its type. *)
THEOREM TypeCorrect == Spec => []TypeOK
  <1>1. IInv => TypeOK
    BY DEF IInv
  <1> QED
    BY Invariance, <1>1, PTL

(* Allocate and Deallocate keep the free list, the valid bits and usedSize_
   in agreement. *)
THEOREM PoolStaysConsistent == Spec => []PoolConsistent
  <1>1. IInv => PoolConsistent
    BY DEF IInv, PoolInv, FreeSet, PoolConsistent
  <1> QED
    BY Invariance, <1>1, PTL

(* No chunk is leaked or owned twice between NetThreadLoop, pendingPackets_
   and ProcessQueuedUDPPacket. *)
THEOREM ChunksHaveOneOwner == Spec => []OneOwner
  <1>1. IInv => OneOwner
    BY DEF IInv
  <1> QED
    BY Invariance, <1>1, PTL

(* No chunk is reused while a packet that points to it is unread. *)
THEOREM PacketsStayIntact == Spec => []PacketsIntact
  <1>1. IInv => PacketsIntact
    BY DEF IInv
  <1> QED
    BY Invariance, <1>1, PTL

(* With a pool no larger than the queue, Emplace in NetThreadLoop never
   fails: no received datagram is dropped. *)
THEOREM NoDatagramDropped == Spec => NothingDropped
  <1> DEFINE A == receiver.at = "emplace" /\ receiver'.at # "emplace" =>
                    Len(pendingPackets_') = Len(pendingPackets_) + 1
  <1>1. IInv /\ [Next]_vars => [A]_vars
    <2> SUFFICES ASSUME IInv, Next, receiver.at = "emplace", receiver'.at # "emplace"
                 PROVE  Len(pendingPackets_') = Len(pendingPackets_) + 1
      BY DEF vars
    <2>1. EmplacePacket
      <3>1. TypeOK /\ StageInv
        BY DEF IInv
      <3> QED
        BY <3>1 DEF Next, Receiver, Main, TypeOK, StageInv, CreateThread, SetFlag, ClearFlag, Join,
           TestFlag, AllocateBuffer, ReceiveDatagram, ReceiveNothing, DeallocateBuffer,
           DequeuePacket, DeallocatePacket
    <2> DEFINE p == [buffer |-> receiver.buffer, datagram |-> content[receiver.buffer]]
    <2>2. pendingPackets_' = Append(pendingPackets_, p)
      BY <2>1, RoomForPacket DEF EmplacePacket
    <2>3. pendingPackets_ \in Seq(Packet) /\ p \in Packet
      BY DEF IInv, TypeOK, StageInv, Packet
    <2> HIDE DEF p
    <2> QED
      BY <2>2, <2>3, QueueAppend
  <1> QED
    BY Invariance, <1>1, PTL DEF Spec, NothingDropped
================================================================================
