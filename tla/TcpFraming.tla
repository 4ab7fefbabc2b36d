----------------------------- MODULE TcpFraming ------------------------------
(***************************************************************************)
(* How packets travel over one TCP connection, in either direction.  The   *)
(* match server appends them to the sendBuffer of a Session and sends what *)
(* the socket takes; the receiving thread collects what arrives in         *)
(* recvBuffer, cuts packets out of it and queues them for its main thread  *)
(* (Session::ParsePacket on the server, the same lines in                  *)
(* TCPNetRecvThreadLoop on the client).                                    *)
(*                                                                         *)
(* A byte is its position in the stream, so that no two bytes look the     *)
(* same.  What a packet says is left out, but for its first two bytes:     *)
(* they hold its size, themselves included.                                *)
(***************************************************************************)
EXTENDS Integers, Sequences

CONSTANTS
    PacketSizes, \* sizes of packets in bytes
    SegmentSize, \* MAX_PACKET_SIZE, the most that one receive returns
    QueueCap,    \* capacity of the packet queue, 128 and 256 in the code
    MaxPackets,  \* bound: packets sent
    Beyond       \* what memory behind the end of a vector holds

SizeField == 2   \* sizeof(uint16_t)

ASSUME SizesAssumption ==
    /\ SegmentSize \in Nat
    /\ PacketSizes \subseteq SizeField .. SegmentSize

ASSUME BoundsAssumption == QueueCap \in Nat \ {0} /\ MaxPackets \in Nat

VARIABLES
    marks,      \* 0 and the position of the last byte of each packet sent
    sendBuffer, \* Session::sendBuffer
    wire,       \* sent and not yet received
    recvBuffer, \* Session::recvBuffer
    packets,    \* the packet queue, TCPRecvQueue or pendingTCPPackets_
    processed   \* the last packet the main thread took (history)

vars == <<marks, sendBuffer, wire, recvBuffer, packets, processed>>

StreamEnd == marks[Len(marks)]

(* The numbers of the packets that are sent. *)
Sent == 1 .. Len(marks) - 1

Prefix(buffer, n) == SubSeq(buffer, 1, n)
Rest(buffer, n)   == SubSeq(buffer, n + 1, Len(buffer))

-----------------------------------------------------------------------------
Init ==
    /\ marks = <<0>>
    /\ sendBuffer = <<>>
    /\ wire = <<>>
    /\ recvBuffer = <<>>
    /\ packets = <<>>
    /\ processed = <<>>

(* A packet of s bytes is to be sent. *)
AppendSendBuffer(s) ==
    /\ Len(marks) <= MaxPackets
    /\ marks' = Append(marks, StreamEnd + s)
    /\ sendBuffer' = sendBuffer \o [i \in 1 .. s |-> StreamEnd + i]
    /\ UNCHANGED <<wire, recvBuffer, packets, processed>>

(* The socket takes the buffer or a part of it, which is then consumed. *)
ProcessSendPacket ==
    /\ \E sent \in 1 .. Len(sendBuffer) :
          /\ wire' = wire \o Prefix(sendBuffer, sent)
          /\ sendBuffer' = Rest(sendBuffer, sent)
    /\ UNCHANGED <<marks, recvBuffer, packets, processed>>

-----------------------------------------------------------------------------
(***************************************************************************)
(* The receiving thread.                                                   *)
(***************************************************************************)

HasSize(buffer) == Len(buffer) >= SizeField

(* What the first two bytes of the buffer say: the size of the packet that
   begins there, anything at all if none does. *)
ReadSize(buffer) ==
    IF \E k \in Sent : Len(buffer) >= SizeField /\ Head(buffer) = marks[k] + 1
    THEN {marks[k + 1] - marks[k] : k \in {j \in Sent : Head(buffer) = marks[j] + 1}}
    ELSE 0 .. SegmentSize

PayloadWithSize(buffer, size) == Prefix(buffer, size)

(* As many bytes as the packet has, from behind its size: two too many. *)
Payload(buffer, size) ==
    [i \in 1 .. size |-> IF i + SizeField <= Len(buffer) THEN buffer[i + SizeField] ELSE Beyond]

EraseBody(buffer, size) == Rest(buffer, size - SizeField)

Erase(buffer, size) == Rest(buffer, size)

(* A full queue refuses; the result is ignored. *)
Emplace(packet) ==
    IF Len(packets) < QueueCap THEN Append(packets, packet) ELSE packets

(* At most one packet is cut out of what has arrived. *)
Receive ==
    /\ \E n \in 1 .. Len(wire) :
          LET buffer == recvBuffer \o Prefix(wire, n)
          IN  /\ n <= SegmentSize
              /\ wire' = Rest(wire, n)
              /\ \/ /\ ~HasSize(buffer)
                    /\ recvBuffer' = buffer
                    /\ UNCHANGED packets
                 \/ /\ HasSize(buffer)
                    /\ \E size \in ReadSize(buffer) :
                          IF Len(buffer) < size
                          THEN recvBuffer' = buffer /\ UNCHANGED packets
                          ELSE /\ packets' = Emplace(Payload(buffer, size))
                               /\ recvBuffer' = Erase(buffer, size)
    /\ UNCHANGED <<marks, sendBuffer, processed>>

(* The main thread takes the next packet. *)
ProcessQueuedPacket ==
    /\ packets # <<>>
    /\ processed' = Head(packets)
    /\ packets' = Tail(packets)
    /\ UNCHANGED <<marks, sendBuffer, wire, recvBuffer>>

Next ==
    \/ \E s \in PacketSizes : AppendSendBuffer(s)
    \/ ProcessSendPacket
    \/ Receive
    \/ ProcessQueuedPacket

Spec == Init /\ [][Next]_vars

-----------------------------------------------------------------------------
(* Every variable has its type. *)
TypeOK ==
    /\ marks \in Seq(Nat) /\ marks # <<>>
    /\ sendBuffer \in Seq(Nat)
    /\ wire \in Seq(Nat)
    /\ recvBuffer \in Seq(Nat)
    /\ packets \in Seq(Seq(Nat \cup {Beyond})) /\ Len(packets) <= QueueCap
    /\ processed \in Seq(Nat \cup {Beyond})

(* However the stream is cut into sends and receives, what is on its way is
   the stream from the beginning of a packet to its end, no byte missing:
   the receiving thread always reads a size where a size was written. *)
StreamAligned ==
    \E k \in 1 .. Len(marks) :
        recvBuffer \o wire \o sendBuffer = [i \in 1 .. StreamEnd - marks[k] |-> marks[k] + i]

(* The queued packet holds all that the k-th packet says. *)
IsPacket(packet, k) ==
    /\ Len(packet) = marks[k + 1] - marks[k]
    /\ \A i \in 1 .. Len(packet) - SizeField : packet[i] = marks[k] + SizeField + i

(* What the main thread gets are packets that were sent, whole and in the
   order of sending, no packet twice.  A full queue drops some. *)
PacketsInOrder ==
    LET got == (IF processed = <<>> THEN <<>> ELSE <<processed>>) \o packets
    IN  \E number \in [1 .. Len(got) -> Sent] :
            /\ \A i \in 1 .. Len(got) : IsPacket(got[i], number[i])
            /\ \A i, j \in 1 .. Len(got) : i < j => number[i] < number[j]

(* NetworkService.cpp:190 of the match server: "once as much as the size to
   extract has accumulated, it is extracted and emplaced in the queue": after
   a receive no complete packet is left in recvBuffer. *)
CompletePacketsExtracted ==
    \A k \in Sent :
        HasSize(recvBuffer) /\ Head(recvBuffer) = marks[k] + 1 =>
            Len(recvBuffer) < marks[k + 1] - marks[k]

(* tomato_packet_types.h:83, "Total packet size (include header)": so the
   packet ends size bytes behind its beginning, and the copy does not read
   behind the end of recvBuffer. *)
CopyStaysInBuffer == \A i \in 1 .. Len(packets) : Beyond \notin {packets[i][j] : j \in 1 .. Len(packets[i])}
=============================================================================
