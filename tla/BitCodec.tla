------------------------------- MODULE BitCodec -------------------------------
(***************************************************************************)
(* NetBitWriter and NetBitReader (src/engine): integers of a known range   *)
(* [0, max) written one after the other into the bits of a packet, each in *)
(* as few bits as its own value and range allow, and read back by a reader *)
(* that is given the same ranges in the same order.                        *)
(*                                                                         *)
(* One step is one round of a loop.  The bits that a value takes depend on *)
(* the value: the loop ends as soon as a further bit would leave the range *)
(* whatever it is.  Nothing in the packet says where a field ends.         *)
(*                                                                         *)
(* mask is a power of two.  In the code it is a uint32_t that the shift    *)
(* makes 0 after its last bit; here it becomes Word.                       *)
(***************************************************************************)
EXTENDS Integers, Sequences

CONSTANTS
    Word,             \* 2^32, a uint32_t is smaller
    ByteBits,         \* bits of a byte, 8
    MAX_PACKET_SIZE,  \* bytes of a RawBuffer
    Parts,            \* what a field means
    Messages          \* what is written: sequences of fields

Field == [part : Parts, value : 0 .. Word - 1, max : 0 .. Word - 1]

ASSUME WordAssumption == Word \in Nat /\ Word > 1

ASSUME BufferAssumption ==
    /\ ByteBits \in Nat \ {0}
    /\ MAX_PACKET_SIZE \in Nat \ {0}

ASSUME MessagesAssumption == Messages \subseteq Seq(Field) \ {<<>>}

VARIABLES
    phase,    \* "write", "cut" (the packet was too small), "read", "done"
    fields,   \* the integers to be written with their ranges
    index,    \* the field that is being written
    mask,     \* mask, tmp and bitPos_ of NetBitWriter::SerializeInt
    tmp,
    bitPos,
    buffer,   \* the bits of the packet written so far
    rindex,   \* the field that is being read
    rmask,    \* mask, value and bitPos_ of NetBitReader::DeserializeInt
    rvalue,
    rbitPos,
    got,      \* the integers that were read
    \* history
    rounds,   \* for each bit written: the field, and mask and tmp before it
    starts,   \* where each field begins, and where the last one ends
    written   \* mask and tmp when the loop of a field ended

writeVars == <<fields, index, mask, tmp, bitPos, buffer, rounds, starts, written>>
readVars  == <<rindex, rmask, rvalue, rbitPos, got>>
codecVars == <<phase, writeVars, readVars>>

CodecInit ==
    /\ phase = "write"
    /\ fields \in Messages
    /\ index = 1
    /\ mask = 1
    /\ tmp = 0
    /\ bitPos = 0
    /\ buffer = <<>>
    /\ rindex = 0
    /\ rmask = 1
    /\ rvalue = 0
    /\ rbitPos = 0
    /\ got = <<>>
    /\ rounds = <<>>
    /\ starts = <<0>>
    /\ written = <<>>

-----------------------------------------------------------------------------
(* NetBitWriter::SerializeInt                                              *)

(* Mutant: the loops stop a bit early. *)
ContinuesBelowHalf(t, m, max) == 2 * m < max /\ m < Word

(* The condition of both loops: another bit can still be within the range. *)
Continues(t, m, max) == t + m < max /\ m < Word

BitOf(value, m) == (value \div m) % 2

Full(pos) == pos >= MAX_PACKET_SIZE * ByteBits

WriteBit ==
    /\ phase = "write"
    /\ index <= Len(fields)
    /\ LET f == fields[index]
           bit == BitOf(f.value, mask)
       IN  /\ Continues(tmp, mask, f.max)
           /\ ~Full(bitPos)
           /\ buffer' = Append(buffer, bit)
           /\ tmp' = tmp + bit * mask
           /\ mask' = 2 * mask
           /\ bitPos' = bitPos + 1
           /\ rounds' = Append(rounds, [field |-> index, mask |-> mask, tmp |-> tmp])
    /\ UNCHANGED <<phase, fields, index, starts, written, readVars>>

(* The packet is full: "Invalid access", and the rest of the value is lost. *)
WriteCut ==
    /\ phase = "write"
    /\ index <= Len(fields)
    /\ Continues(tmp, mask, fields[index].max)
    /\ Full(bitPos)
    /\ phase' = "cut"
    /\ UNCHANGED <<writeVars, readVars>>

WriteNext ==
    /\ phase = "write"
    /\ index <= Len(fields)
    /\ ~Continues(tmp, mask, fields[index].max)
    /\ index' = index + 1
    /\ mask' = 1
    /\ tmp' = 0
    /\ starts' = Append(starts, bitPos)
    /\ written' = Append(written, [mask |-> mask, tmp |-> tmp])
    /\ UNCHANGED <<phase, fields, bitPos, buffer, rounds, readVars>>

(* NetBitWriter::GetByteSize *)
GetByteSize == (bitPos + ByteBits - 1) \div ByteBits

-----------------------------------------------------------------------------
(* NetBitReader::DeserializeInt, for a field that the caller expects to    *)
(* have the range [0, max)                                                 *)

(* Mutant: the reader starts a byte too far. *)
BeginReadingLate(first, pos) ==
    /\ phase = "write"
    /\ index > Len(fields)
    /\ phase' = "read"
    /\ rindex' = first
    /\ rbitPos' = pos + ByteBits
    /\ UNCHANGED <<writeVars, rmask, rvalue, got>>

(* The reader is given the packet from the first bit of the field first.   *)
BeginReading(first, pos) ==
    /\ phase = "write"
    /\ index > Len(fields)
    /\ phase' = "read"
    /\ rindex' = first
    /\ rbitPos' = pos
    /\ UNCHANGED <<writeVars, rmask, rvalue, got>>

(* Mutant: the number of bits follows from the range alone. *)
ReadBitOfRange(max) ==
    /\ phase = "read"
    /\ rmask < max
    /\ rbitPos < Len(buffer)
    /\ rvalue' = rvalue + buffer[rbitPos + 1] * rmask
    /\ rmask' = 2 * rmask
    /\ rbitPos' = rbitPos + 1
    /\ UNCHANGED <<phase, writeVars, rindex, got>>

ReadBit(max) ==
    /\ phase = "read"
    /\ Continues(rvalue, rmask, max)
    /\ rbitPos < Len(buffer)
    /\ rvalue' = rvalue + buffer[rbitPos + 1] * rmask
    /\ rmask' = 2 * rmask
    /\ rbitPos' = rbitPos + 1
    /\ UNCHANGED <<phase, writeVars, rindex, got>>

ReadNext(max) ==
    /\ phase = "read"
    /\ ~Continues(rvalue, rmask, max)
    /\ got' = Append(got, rvalue)
    /\ rindex' = rindex + 1
    /\ rmask' = 1
    /\ rvalue' = 0
    /\ UNCHANGED <<phase, writeVars, rbitPos>>

EndReading ==
    /\ phase = "read"
    /\ phase' = "done"
    /\ UNCHANGED <<writeVars, readVars>>

-----------------------------------------------------------------------------
(* What the two promise together: a reader that starts at a field and asks *)
(* for the ranges of the fields, in their order, to the last one.          *)
CodecNext ==
    \/ WriteBit
    \/ WriteCut
    \/ WriteNext
    \/ \E first \in 1 .. Len(fields) : BeginReading(first, starts[first])
    \/ rindex <= Len(fields) /\ (ReadBit(fields[rindex].max) \/ ReadNext(fields[rindex].max))
    \/ rindex > Len(fields) /\ EndReading

CodecSpec == CodecInit /\ [][CodecNext]_codecVars

-----------------------------------------------------------------------------
(* Properties                                                              *)

(* The variables hold values of their types.                               *)
CodecTypeOK ==
    /\ phase \in {"write", "cut", "read", "done"}
    /\ fields \in Seq(Field)
    /\ index \in 1 .. Len(fields) + 1
    /\ mask \in Nat \ {0}
    /\ tmp \in Nat
    /\ bitPos \in Nat
    /\ buffer \in Seq({0, 1})
    /\ rindex \in 0 .. Len(fields) + 1
    /\ rmask \in Nat \ {0}
    /\ rvalue \in Nat
    /\ rbitPos \in Nat
    /\ got \in Seq(Nat)
    /\ rounds \in Seq([field : Nat, mask : Nat, tmp : Nat])
    /\ starts \in Seq(Nat)
    /\ written \in Seq([mask : Nat, tmp : Nat])

(* Reader and writer are never out of step, although the number of bits of *)
(* a field is nowhere in the packet: before every bit the reader's mask    *)
(* and value are what the writer's were before that bit, and it ends every *)
(* field where the writer ended it - also when a value was too large for   *)
(* its range (NetBitWriter.cpp:31 and NetBitReader.cpp:32).                *)
ReaderInStep ==
    phase = "read" /\ rindex <= Len(fields) =>
        /\ starts[rindex] <= rbitPos /\ rbitPos <= starts[rindex + 1]
        /\ rbitPos < starts[rindex + 1] =>
              rounds[rbitPos + 1] = [field |-> rindex, mask |-> rmask, tmp |-> rvalue]
        /\ rbitPos = starts[rindex + 1] =>
              written[rindex] = [mask |-> rmask, tmp |-> rvalue]

(* An integer that keeps to its range, as WriteInt demands, is read as it  *)
(* was written, and what is read lies in the range, whatever was written   *)
(* (the note at NetBitReader.h:37).                                        *)
ValuesSurvive ==
    phase \in {"read", "done"} =>
        LET first == rindex - Len(got)
        IN  \A k \in 1 .. Len(got) :
                LET f == fields[first + k - 1]
                IN  /\ f.value < f.max => got[k] = f.value
                    /\ f.max > 0 => got[k] < f.max

(* The reader never needs a bit that the packet does not have: its         *)
(* "Invalid access" is for packets that were cut or come from elsewhere.   *)
(* And the size that is sent covers every bit and fits a packet.           *)
ReadsStayInside ==
    phase = "read" /\ rindex <= Len(fields) =>
        /\ Continues(rvalue, rmask, fields[rindex].max) => rbitPos < Len(buffer)
        /\ Len(buffer) <= GetByteSize * ByteBits
        /\ GetByteSize <= MAX_PACKET_SIZE

(* A value equal to the bound of its range is read as it was written.  It  *)
(* is not: the bit that would tell it from smaller values is not written.  *)
BoundsSurvive ==
    phase \in {"read", "done"} =>
        LET first == rindex - Len(got)
        IN  \A k \in 1 .. Len(got) : got[k] = fields[first + k - 1].value
===============================================================================
