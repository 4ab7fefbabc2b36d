------------------------------- MODULE WireProofs -------------------------------
(***************************************************************************)
(* What travels between client and server.                                 *)
(*                                                                         *)
(* TcpFraming: whatever the sizes of the packets and however the stream is *)
(* cut, its packets arrive whole and in order.  The invariant says that    *)
(* the three buffers hold consecutive bytes from the beginning of a packet *)
(* to the end of the stream, and that what was cut out came before it.     *)
(*                                                                         *)
(* BitCodec: whatever the values and ranges, the reader is never out of    *)
(* step with the writer.  The invariant says that the bits of each field   *)
(* lead from the state in which a loop starts to the one in which the      *)
(* writer's ended, by a function that the reader computes as well, and     *)
(* that a loop's value is the remainder of the written one by its mask.    *)
(*                                                                         *)
(* Packets: what client and server write, their handlers read.  For each   *)
(* place in a handler there is a set of sequences of fields that it reads  *)
(* to the end (Expected), and the invariant says that what is left of the  *)
(* packet is one of them.  So a run of Packets is one of BitCodec.         *)
(***************************************************************************)
EXTENDS TcpFraming, Packets, SequenceLemmas

-----------------------------------------------------------------------------
(* The stream.  Bytes(a, n) are the n bytes behind position a.             *)

Bytes(a, n) == [i \in 1 .. n |-> a + i]

LEMMA BytesAreASequence ==
    ASSUME NEW a \in Nat, NEW n \in Nat
    PROVE  /\ Bytes(a, n) \in Seq(Nat)
           /\ Len(Bytes(a, n)) = n
           /\ \A i \in 1 .. n : Bytes(a, n)[i] = a + i
<1>1. Bytes(a, n) \in [1 .. n -> Nat]
  BY DEF Bytes
<1>2. Bytes(a, n) \in Seq(Nat)
  BY <1>1
<1>3. DOMAIN Bytes(a, n) = 1 .. n
  BY DEF Bytes
<1>4. Len(Bytes(a, n)) = n
  BY <1>2, <1>3, LenProperties
<1> QED BY <1>2, <1>4 DEF Bytes

(* A sequence that has these bytes at its places is that sequence.         *)
LEMMA AreBytes ==
    ASSUME NEW a \in Nat, NEW n \in Nat, NEW s \in Seq(Nat), Len(s) = n,
           \A i \in 1 .. n : s[i] = a + i
    PROVE  s = Bytes(a, n)
<1>1. /\ Bytes(a, n) \in Seq(Nat)
      /\ Len(Bytes(a, n)) = n
      /\ \A i \in 1 .. n : Bytes(a, n)[i] = a + i
  BY BytesAreASequence
<1> QED BY <1>1, SeqEqual

LEMMA JoinBytes ==
    ASSUME NEW a \in Nat, NEW m \in Nat, NEW n \in Nat
    PROVE  Bytes(a, m) \o Bytes(a + m, n) = Bytes(a, m + n)
<1> DEFINE s == Bytes(a, m)
           t == Bytes(a + m, n)
<1>1. s \in Seq(Nat) /\ Len(s) = m /\ (\A i \in 1 .. m : s[i] = a + i)
  BY BytesAreASequence
<1>a. a + m \in Nat
  OBVIOUS
<1>b. t \in Seq(Nat) /\ Len(t) = n /\ (\A i \in 1 .. n : t[i] = (a + m) + i)
  BY <1>a, BytesAreASequence
<1> HIDE DEF s, t
<1>2. /\ s \o t \in Seq(Nat)
      /\ Len(s \o t) = m + n
      /\ \A i \in 1 .. m + n : (s \o t)[i] = IF i <= m THEN s[i] ELSE t[i - m]
  BY <1>1, <1>b, ConcatProperties
<1>3. \A i \in 1 .. m + n : (s \o t)[i] = a + i
  <2> TAKE i \in 1 .. m + n
  <2>1. CASE i <= m
    BY <2>1, <1>1, <1>2
  <2>2. CASE i > m
    <3>1. i - m \in 1 .. n
      BY <2>2
    <3>2. t[i - m] = (a + m) + (i - m)
      BY <3>1, <1>b
    <3>3. (s \o t)[i] = t[i - m]
      BY <2>2, <1>2
    <3> QED BY <3>2, <3>3
  <2>3. i <= m \/ i > m
    OBVIOUS
  <2> QED BY <2>1, <2>2, <2>3
<1>4. m + n \in Nat
  OBVIOUS
<1>5. s \o t = Bytes(a, m + n)
  BY <1>2, <1>3, <1>4, AreBytes
<1> QED BY <1>5 DEF s, t

LEMMA CutBytes ==
    ASSUME NEW a \in Nat, NEW n \in Nat, NEW m \in 0 .. n
    PROVE  /\ Prefix(Bytes(a, n), m) = Bytes(a, m)
           /\ Rest(Bytes(a, n), m) = Bytes(a + m, n - m)
<1> DEFINE s == Bytes(a, n)
<1>1. s \in Seq(Nat) /\ Len(s) = n /\ \A i \in 1 .. n : s[i] = a + i
  BY BytesAreASequence
<1> HIDE DEF s
<1>2. Prefix(s, m) = Bytes(a, m)
  <2>1. \A i \in 1 .. m : s[i] \in Nat
    BY <1>1
  <2>2. /\ SubSeq(s, 1, m) \in Seq(Nat)
        /\ Len(SubSeq(s, 1, m)) = m
        /\ \A i \in 1 .. m : SubSeq(s, 1, m)[i] = s[i]
    BY <2>1, SubSeqProperties
  <2>3. \A i \in 1 .. m : s[i] = a + i
    BY <1>1
  <2> DEFINE u == SubSeq(s, 1, m)
  <2>a. u \in Seq(Nat) /\ Len(u) = m /\ \A i \in 1 .. m : u[i] = a + i
    BY <2>2, <2>3
  <2> HIDE DEF u
  <2>4. u = Bytes(a, m)
    BY <2>a, AreBytes
  <2> QED BY <2>4 DEF Prefix, u
<1>3. Rest(s, m) = Bytes(a + m, n - m)
  <2>1. \A i \in m + 1 .. n : s[i] \in Nat
    BY <1>1
  <2>2. /\ SubSeq(s, m + 1, n) \in Seq(Nat)
        /\ Len(SubSeq(s, m + 1, n)) = n - m
        /\ \A i \in 1 .. n - m : SubSeq(s, m + 1, n)[i] = s[m + i]
    BY <2>1, SubSeqProperties
  <2>3. \A i \in 1 .. n - m : s[m + i] = (a + m) + i
    BY <1>1
  <2>4. a + m \in Nat /\ n - m \in Nat
    OBVIOUS
  <2> DEFINE u == SubSeq(s, m + 1, n)
  <2>a. u \in Seq(Nat) /\ Len(u) = n - m /\ \A i \in 1 .. n - m : u[i] = (a + m) + i
    BY <2>2, <2>3
  <2> HIDE DEF u
  <2>5. u = Bytes(a + m, n - m)
    BY <2>a, <2>4, AreBytes
  <2> QED BY <2>5, <1>1 DEF Rest, u
<1> QED BY <1>2, <1>3 DEF s

-----------------------------------------------------------------------------
(* The invariant.                                                          *)

(* Packets follow each other without a gap, none of them empty.            *)
MarksInv ==
    /\ marks \in Seq(Nat)
    /\ Len(marks) >= 1
    /\ \A k \in Sent : marks[k + 1] - marks[k] \in PacketSizes
    /\ \A j, k \in 1 .. Len(marks) : j < k => marks[j] < marks[k]

(* What has not been cut out begins with packet k, and no byte is missing. *)
AlignedAt(k) ==
    /\ recvBuffer = Bytes(marks[k], Len(recvBuffer))
    /\ wire = Bytes(marks[k] + Len(recvBuffer), Len(wire))
    /\ sendBuffer = Bytes(marks[k] + Len(recvBuffer) + Len(wire), Len(sendBuffer))
    /\ marks[k] + Len(recvBuffer) + Len(wire) + Len(sendBuffer) = StreamEnd

(* What was cut out are packets before k, the processed one first.         *)
OrderedBefore(k) ==
    \E last \in 0 .. k - 1 : \E number \in [1 .. Len(packets) -> 1 .. k - 1] :
        /\ processed # <<>> => last > 0 /\ IsPacket(processed, last)
        /\ \A i \in 1 .. Len(packets) : last < number[i] /\ IsPacket(packets[i], number[i])
        /\ \A i, j \in 1 .. Len(packets) : i < j => number[i] < number[j]

IInv ==
    /\ TypeOK
    /\ MarksInv
    /\ \E k \in 1 .. Len(marks) : AlignedAt(k) /\ OrderedBefore(k)


(* The packet at which the bytes begin starts exactly there.               *)
LEMMA MarksAreDifferent ==
    ASSUME MarksInv, NEW j \in 1 .. Len(marks), NEW k \in 1 .. Len(marks), marks[j] = marks[k]
    PROVE  j = k
<1>1. marks[j] \in Nat /\ marks[k] \in Nat
  BY ElementOfSeq DEF MarksInv
<1>2. ~(j < k) /\ ~(k < j)
  BY <1>1 DEF MarksInv
<1> QED BY <1>2

LEMMA SizesAreSmall ==
    ASSUME NEW s \in PacketSizes
    PROVE  s \in Nat /\ s >= 2 /\ s <= SegmentSize
BY SizesAssumption DEF SizeField

LEMMA InitInvariant == Init => IInv
<1> SUFFICES ASSUME Init PROVE IInv
  OBVIOUS
<1>1. marks = <<0>> /\ sendBuffer = <<>> /\ wire = <<>> /\ recvBuffer = <<>>
      /\ packets = <<>> /\ processed = <<>>
  BY DEF Init
<1>2. TypeOK
  BY <1>1, BoundsAssumption DEF TypeOK
<1>3. MarksInv
  BY <1>1 DEF MarksInv, Sent
<1>4. Bytes(0, 0) = <<>> /\ 0 + 0 = 0
  BY BytesAreASequence, EmptySeq
<1>5. AlignedAt(1)
  BY <1>1, <1>4 DEF AlignedAt, StreamEnd
<1>6. OrderedBefore(1)
  <2> DEFINE number == [i \in 1 .. Len(packets) |-> 1]
  <2>1. 1 .. Len(packets) = {}
    BY <1>1
  <2>2. number \in [1 .. Len(packets) -> 1 .. 1 - 1]
    BY <2>1
  <2>3. 0 \in 0 .. 1 - 1
    OBVIOUS
  <2> HIDE DEF number
  <2> QED BY <2>1, <2>2, <2>3, <1>1 DEF OrderedBefore
<1> QED BY <1>1, <1>2, <1>3, <1>5, <1>6 DEF IInv

-----------------------------------------------------------------------------
(* One lemma per action.                                                   *)

(* The numbers of the packets stay what they are when others are sent.     *)
LEMMA AppendKeeps ==
    ASSUME IInv, NEW s \in PacketSizes, AppendSendBuffer(s)
    PROVE  IInv'
<1> DEFINE n == Len(marks)
           e == StreamEnd
<1>1. marks \in Seq(Nat) /\ n \in Nat /\ n >= 1 /\ e \in Nat /\ e = marks[n]
  BY LenProperties, ElementOfSeq DEF IInv, MarksInv, StreamEnd
<1>2. s \in Nat /\ s >= 2
  BY SizesAreSmall
<1>3. /\ marks' = Append(marks, e + s)
      /\ sendBuffer' = sendBuffer \o Bytes(e, s)
      /\ UNCHANGED <<wire, recvBuffer, packets, processed>>
  BY DEF AppendSendBuffer, Bytes
<1> HIDE DEF e, n
<1>4. /\ marks' \in Seq(Nat) /\ Len(marks') = n + 1
      /\ \A i \in 1 .. n : marks'[i] = marks[i]
      /\ marks'[n + 1] = e + s
  BY <1>1, <1>2, <1>3, AppendProperties DEF n
<1>5. StreamEnd' = e + s
  BY <1>1, <1>4 DEF StreamEnd
<1>6. \A i \in 1 .. n : marks[i] \in Nat /\ marks[i] <= e
  <2> TAKE i \in 1 .. n
  <2>1. marks[i] \in Nat
    BY <1>1, ElementOfSeq DEF n
  <2>2. i < n => marks[i] < marks[n]
    BY <1>1 DEF IInv, MarksInv, n
  <2> QED BY <2>1, <2>2, <1>1
<1>7. MarksInv'
  <2>1. \A k \in 1 .. n : marks'[k + 1] - marks'[k] \in PacketSizes
    <3> TAKE k \in 1 .. n
    <3>1. CASE k = n
      BY <3>1, <1>1, <1>2, <1>4
    <3>2. CASE k < n
      <4>1. k \in 1 .. n - 1 /\ k + 1 \in 1 .. n
        BY <3>2, <1>1
      <4>2. marks[k + 1] - marks[k] \in PacketSizes
        BY <4>1 DEF IInv, MarksInv, Sent, n
      <4> QED BY <4>1, <4>2, <1>4
    <3> QED BY <3>1, <3>2, <1>1
  <2>2. \A j, k \in 1 .. n + 1 : j < k => marks'[j] < marks'[k]
    <3> SUFFICES ASSUME NEW j \in 1 .. n + 1, NEW k \in 1 .. n + 1, j < k
                 PROVE  marks'[j] < marks'[k]
      OBVIOUS
    <3>1. j \in 1 .. n /\ marks'[j] = marks[j] /\ marks[j] \in Nat /\ marks[j] <= e
      BY <1>1, <1>4, <1>6
    <3>2. CASE k = n + 1
      BY <3>1, <3>2, <1>1, <1>2, <1>4
    <3>3. CASE k # n + 1
      <4>1. k \in 1 .. n /\ marks'[k] = marks[k]
        BY <3>3, <1>1, <1>4
      <4> QED BY <3>1, <4>1 DEF IInv, MarksInv, n
    <3> QED BY <3>2, <3>3
  <2>3. Sent' = 1 .. n
    BY <1>1, <1>4 DEF Sent
  <2> QED BY <2>1, <2>2, <2>3, <1>1, <1>4 DEF MarksInv
<1>8. PICK k \in 1 .. n : AlignedAt(k) /\ OrderedBefore(k)
  BY DEF IInv, n
<1>9. /\ recvBuffer \in Seq(Nat) /\ wire \in Seq(Nat) /\ sendBuffer \in Seq(Nat)
      /\ Len(recvBuffer) \in Nat /\ Len(wire) \in Nat /\ Len(sendBuffer) \in Nat
  BY LenProperties DEF IInv, TypeOK
<1>10. k \in 1 .. Len(marks') /\ marks'[k] = marks[k] /\ marks[k] \in Nat
  BY <1>1, <1>4, <1>6
<1>11. sendBuffer' = Bytes(marks[k] + Len(recvBuffer) + Len(wire), Len(sendBuffer) + s)
       /\ Len(sendBuffer') = Len(sendBuffer) + s
  <2> DEFINE a == marks[k] + Len(recvBuffer) + Len(wire)
             l == Len(sendBuffer)
  <2>1. a \in Nat /\ l \in Nat /\ e = a + l
    BY <1>8, <1>9, <1>10 DEF AlignedAt, e
  <2>2. sendBuffer = Bytes(a, l)
    BY <1>8 DEF AlignedAt
  <2> HIDE DEF a, l
  <2>3. sendBuffer' = Bytes(a, l) \o Bytes(a + l, s)
    BY <2>1, <2>2, <1>3
  <2>4. sendBuffer' = Bytes(a, l + s)
    BY <2>1, <2>3, <1>2, JoinBytes
  <2>5. l + s \in Nat
    BY <2>1, <1>2
  <2>6. Len(sendBuffer') = l + s
    BY <2>1, <2>4, <2>5, BytesAreASequence
  <2> QED BY <2>4, <2>6 DEF a, l
<1>12. AlignedAt(k)'
  <2>1. /\ recvBuffer = Bytes(marks[k], Len(recvBuffer))
        /\ wire = Bytes(marks[k] + Len(recvBuffer), Len(wire))
        /\ marks[k] + Len(recvBuffer) + Len(wire) + Len(sendBuffer) = e
    BY <1>8 DEF AlignedAt, e
  <2>2. marks[k] + Len(recvBuffer) + Len(wire) + (Len(sendBuffer) + s) = e + s
    <3>1. \A a, b, c, d \in Nat : a + b + c + d = e => a + b + c + (d + s) = e + s
      BY <1>1, <1>2
    <3>2. /\ marks[k] \in Nat
          /\ Len(recvBuffer) \in Nat /\ Len(wire) \in Nat /\ Len(sendBuffer) \in Nat
      BY <1>9, <1>10
    <3>3. marks[k] + Len(recvBuffer) + Len(wire) + Len(sendBuffer) = e
      BY <2>1
    <3> QED BY <3>1, <3>2, <3>3
  <2> QED BY <2>1, <2>2, <1>3, <1>5, <1>10, <1>11 DEF AlignedAt
<1>13. OrderedBefore(k)'
  <2>1. \A p : \A j \in 1 .. k - 1 : IsPacket(p, j) => IsPacket(p, j)'
    <3> SUFFICES ASSUME NEW p, NEW j \in 1 .. k - 1, IsPacket(p, j) PROVE IsPacket(p, j)'
      OBVIOUS
    <3>1. j \in 1 .. n /\ j + 1 \in 1 .. n
      BY <1>1
    <3>2. marks'[j] = marks[j] /\ marks'[j + 1] = marks[j + 1]
      BY <3>1, <1>4
    <3> QED BY <3>2 DEF IsPacket
  <2>2. PICK last \in 0 .. k - 1, number \in [1 .. Len(packets) -> 1 .. k - 1] :
            /\ processed # <<>> => last > 0 /\ IsPacket(processed, last)
            /\ \A i \in 1 .. Len(packets) : last < number[i] /\ IsPacket(packets[i], number[i])
            /\ \A i, j \in 1 .. Len(packets) : i < j => number[i] < number[j]
    BY <1>8 DEF OrderedBefore
  <2>3. processed # <<>> => last > 0 /\ IsPacket(processed, last)'
    BY <2>1, <2>2, <1>3
  <2>4. \A i \in 1 .. Len(packets) : IsPacket(packets[i], number[i])'
    BY <2>1, <2>2, <1>3
  <2> QED BY <2>2, <2>3, <2>4, <1>3 DEF OrderedBefore
<1>14. TypeOK'
  <2>1. Bytes(e, s) \in Seq(Nat)
    BY <1>1, <1>2, BytesAreASequence
  <2>2. sendBuffer' \in Seq(Nat)
    BY <2>1, <1>3, <1>9, ConcatProperties
  <2>3. marks' # <<>>
    BY <1>1, <1>4
  <2> QED BY <2>2, <2>3, <1>3, <1>4 DEF IInv, TypeOK
<1> QED BY <1>7, <1>10, <1>12, <1>13, <1>14 DEF IInv


(* What the aligned buffers are, without k.                                *)
LEMMA BufferLengths ==
    ASSUME IInv, NEW k \in 1 .. Len(marks)
    PROVE  /\ marks[k] \in Nat /\ StreamEnd \in Nat
           /\ Len(recvBuffer) \in Nat /\ Len(wire) \in Nat /\ Len(sendBuffer) \in Nat
<1>1. marks \in Seq(Nat) /\ Len(marks) \in Nat /\ Len(marks) \in 1 .. Len(marks)
  BY LenProperties DEF IInv, MarksInv
<1>2. marks[k] \in Nat /\ marks[Len(marks)] \in Nat
  BY <1>1, ElementOfSeq
<1> QED BY <1>2, LenProperties DEF IInv, TypeOK, StreamEnd

LEMMA OrderStays ==
    ASSUME NEW k \in Int, OrderedBefore(k), UNCHANGED <<marks, packets, processed>>
    PROVE  OrderedBefore(k)'
<1>1. PICK last \in 0 .. k - 1, number \in [1 .. Len(packets) -> 1 .. k - 1] :
          /\ processed # <<>> => last > 0 /\ IsPacket(processed, last)
          /\ \A i \in 1 .. Len(packets) : last < number[i] /\ IsPacket(packets[i], number[i])
          /\ \A i, j \in 1 .. Len(packets) : i < j => number[i] < number[j]
  BY DEF OrderedBefore
<1>2. \A p, j : IsPacket(p, j) => IsPacket(p, j)'
  BY DEF IsPacket
<1>3. processed # <<>> => last > 0 /\ IsPacket(processed, last)'
  BY <1>1, <1>2
<1>4. \A i \in 1 .. Len(packets) : IsPacket(packets[i], number[i])'
  BY <1>1, <1>2
<1> QED BY <1>1, <1>3, <1>4 DEF OrderedBefore

LEMMA ProcessSendKeeps ==
    ASSUME IInv, ProcessSendPacket
    PROVE  IInv'
<1>1. PICK sent \in 1 .. Len(sendBuffer) :
          wire' = wire \o Prefix(sendBuffer, sent) /\ sendBuffer' = Rest(sendBuffer, sent)
  BY DEF ProcessSendPacket
<1>2. UNCHANGED <<marks, recvBuffer, packets, processed>>
  BY DEF ProcessSendPacket
<1>3. PICK k \in 1 .. Len(marks) : AlignedAt(k) /\ OrderedBefore(k)
  BY DEF IInv
<1> DEFINE a == marks[k] + Len(recvBuffer)
           w == Len(wire)
           s == Len(sendBuffer)
<1>4. /\ a \in Nat /\ w \in Nat /\ s \in Nat /\ sent \in 1 .. s
      /\ a + w \in Nat /\ w + sent \in Nat /\ s - sent \in Nat /\ a + w + sent \in Nat
      /\ a + (w + sent) = a + w + sent /\ sent \in Nat /\ sent \in 0 .. s
  BY <1>3, BufferLengths
<1>5. wire = Bytes(a, w) /\ sendBuffer = Bytes(a + w, s) /\ a + w + s = StreamEnd
  BY <1>3 DEF AlignedAt
<1> HIDE DEF a, w, s
<1>6. wire' = Bytes(a, w) \o Bytes(a + w, sent)
  BY <1>1, <1>4, <1>5, CutBytes
<1>7. wire' = Bytes(a, w + sent)
  BY <1>6, <1>4, JoinBytes
<1>8. sendBuffer' = Bytes(a + w + sent, s - sent)
  BY <1>1, <1>4, <1>5, CutBytes
<1>9. /\ wire' \in Seq(Nat) /\ Len(wire') = w + sent
      /\ sendBuffer' \in Seq(Nat) /\ Len(sendBuffer') = s - sent
  BY <1>4, <1>7, <1>8, BytesAreASequence
<1>10. a' = a /\ StreamEnd' = StreamEnd /\ marks'[k] = marks[k]
  BY <1>2 DEF a, StreamEnd
<1>11. AlignedAt(k)'
  <2>1. wire' = Bytes(a, Len(wire')) /\ sendBuffer' = Bytes(a + Len(wire'), Len(sendBuffer'))
    BY <1>7, <1>8, <1>9, <1>4
  <2>2. a + Len(wire') + Len(sendBuffer') = StreamEnd
    BY <1>9, <1>4, <1>5
  <2>3. recvBuffer' = Bytes(marks'[k], Len(recvBuffer'))
    BY <1>2, <1>3 DEF AlignedAt
  <2> QED BY <2>1, <2>2, <2>3, <1>2, <1>10 DEF AlignedAt, a
<1>12. TypeOK' /\ MarksInv'
  BY <1>2, <1>9 DEF IInv, TypeOK, MarksInv, Sent
<1>13. OrderedBefore(k)'
  BY <1>2, <1>3, OrderStays
<1> QED BY <1>2, <1>11, <1>12, <1>13 DEF IInv

(* Bytes behind the beginning of packet k, two at least: they are read as  *)
(* its size.                                                               *)
LEMMA SizeIsReadWhereWritten ==
    ASSUME MarksInv, NEW k \in 1 .. Len(marks), NEW n \in Nat,
           marks[k] + n <= StreamEnd, HasSize(Bytes(marks[k], n)),
           NEW size, size \in ReadSize(Bytes(marks[k], n))
    PROVE  /\ k + 1 \in 1 .. Len(marks)
           /\ size = marks[k + 1] - marks[k]
           /\ size \in Nat /\ size >= 2
<1> DEFINE b == Bytes(marks[k], n)
<1>1. /\ Len(marks) \in Nat /\ marks[k] \in Nat /\ marks[Len(marks)] \in Nat
      /\ \A j \in 1 .. Len(marks) : marks[j] \in Nat
  BY LenProperties, ElementOfSeq DEF MarksInv
<1>2. b \in Seq(Nat) /\ Len(b) = n /\ \A i \in 1 .. n : b[i] = marks[k] + i
  BY <1>1, BytesAreASequence
<1> HIDE DEF b
<1>3. n >= 2 /\ Len(b) >= SizeField
  BY <1>2 DEF HasSize, SizeField, b
<1>4. Head(b) = marks[k] + 1
  <2>1. b # <<>> /\ 1 \in 1 .. n
    BY <1>2, <1>3
  <2>2. Head(b) = b[1]
    BY <1>2, <2>1
  <2> QED BY <1>2, <2>1, <2>2
<1>5. k # Len(marks)
  BY <1>1, <1>3 DEF StreamEnd
<1>6. k \in Sent /\ k + 1 \in 1 .. Len(marks)
  BY <1>1, <1>5 DEF Sent
<1>7. {j \in Sent : Head(b) = marks[j] + 1} = {k}
  <2>1. \A j \in Sent : j \in 1 .. Len(marks)
    BY <1>1 DEF Sent
  <2>2. \A j \in Sent : Head(b) = marks[j] + 1 => j = k
    <3> SUFFICES ASSUME NEW j \in Sent, Head(b) = marks[j] + 1 PROVE j = k
      OBVIOUS
    <3>1. j \in 1 .. Len(marks) /\ marks[j] = marks[k]
      BY <1>1, <1>4, <2>1
    <3> QED BY <3>1, MarksAreDifferent
  <2> QED BY <1>4, <1>6, <2>2
<1>8. ReadSize(b) = {marks[j + 1] - marks[j] : j \in {j \in Sent : Head(b) = marks[j] + 1}}
  BY <1>3, <1>4, <1>6 DEF ReadSize
<1>9. size = marks[k + 1] - marks[k]
  BY <1>7, <1>8 DEF b
<1>10. size \in PacketSizes
  BY <1>6, <1>9 DEF MarksInv
<1> QED BY <1>6, <1>9, <1>10, SizesAreSmall

(* Cut out at the right place, a packet holds all that was sent.           *)
LEMMA PayloadIsPacket ==
    ASSUME NEW k, NEW n \in Nat, marks[k] \in Nat, NEW size \in Nat, size >= 2, n >= size,
           size = marks[k + 1] - marks[k]
    PROVE  LET payload == Payload(Bytes(marks[k], n), size)
           IN  /\ IsPacket(payload, k)
               /\ payload \in Seq(Nat \cup {Beyond})
               /\ payload # <<>>
<1> DEFINE b == Bytes(marks[k], n)
           payload == Payload(b, size)
<1>1. b \in Seq(Nat) /\ Len(b) = n /\ \A i \in 1 .. n : b[i] = marks[k] + i
  BY BytesAreASequence
<1> HIDE DEF b
<1>2. payload = [i \in 1 .. size |-> IF i + 2 <= n THEN b[i + 2] ELSE Beyond]
  BY <1>1 DEF Payload, SizeField
<1>3. payload \in [1 .. size -> Nat \cup {Beyond}]
  <2>1. \A i \in 1 .. size : i + 2 <= n => b[i + 2] \in Nat
    BY <1>1
  <2> QED BY <1>2, <2>1
<1>4. payload \in Seq(Nat \cup {Beyond}) /\ Len(payload) = size
  <2>1. payload \in Seq(Nat \cup {Beyond})
    BY <1>3
  <2>2. DOMAIN payload = 1 .. size
    BY <1>2
  <2> QED BY <2>1, <2>2, LenProperties
<1> HIDE DEF payload
<1>5. \A i \in 1 .. size - 2 : payload[i] = marks[k] + 2 + i
  <2> TAKE i \in 1 .. size - 2
  <2>1. i \in 1 .. size /\ i + 2 <= n /\ i + 2 \in 1 .. n
    OBVIOUS
  <2>2. payload[i] = b[i + 2]
    BY <1>2, <2>1
  <2>3. b[i + 2] = marks[k] + (i + 2)
    BY <1>1, <2>1
  <2> QED BY <2>2, <2>3
<1>6. IsPacket(payload, k)
  BY <1>4, <1>5 DEF IsPacket, SizeField
<1>7. payload # <<>>
  BY <1>4
<1> QED BY <1>4, <1>6, <1>7 DEF payload, b


(* The queue takes one packet more, or stays as it is.                     *)
LEMMA EmplaceKeepsOrder ==
    ASSUME NEW k \in Nat, k >= 1, OrderedBefore(k), packets \in Seq(Seq(Nat \cup {Beyond})),
           NEW packet \in Seq(Nat \cup {Beyond}), IsPacket(packet, k),
           Len(packets) <= QueueCap,
           packets' = Emplace(packet), UNCHANGED <<marks, processed>>
    PROVE  /\ OrderedBefore(k + 1)'
           /\ packets' \in Seq(Seq(Nat \cup {Beyond}))
           /\ Len(packets') <= QueueCap
<1>0. PICK n \in Nat : n = Len(packets)
  BY LenProperties
<1>1. PICK last \in 0 .. k - 1, number \in [1 .. n -> 1 .. k - 1] :
          /\ processed # <<>> => last > 0 /\ IsPacket(processed, last)
          /\ \A i \in 1 .. n : last < number[i] /\ IsPacket(packets[i], number[i])
          /\ \A i, j \in 1 .. n : i < j => number[i] < number[j]
  BY <1>0 DEF OrderedBefore
<1>2. \A p, j : IsPacket(p, j) => IsPacket(p, j)'
  BY DEF IsPacket
<1>3. n \in Nat /\ QueueCap \in Nat
  BY BoundsAssumption
<1>4. CASE n < QueueCap
  <2>1. packets' = Append(packets, packet)
    BY <1>0, <1>4 DEF Emplace
  <2>2. /\ packets' \in Seq(Seq(Nat \cup {Beyond}))
        /\ Len(packets') = n + 1
        /\ \A i \in 1 .. n : packets'[i] = packets[i]
        /\ packets'[n + 1] = packet
    BY <1>0, <2>1, AppendProperties
  <2> DEFINE more == [i \in 1 .. n + 1 |-> IF i = n + 1 THEN k ELSE number[i]]
  <2>3. more \in [1 .. n + 1 -> 1 .. (k + 1) - 1]
    <3> SUFFICES ASSUME NEW i \in 1 .. n + 1 PROVE more[i] \in 1 .. (k + 1) - 1
      OBVIOUS
    <3>1. CASE i = n + 1
      BY <3>1
    <3>2. CASE i # n + 1
      <4>1. i \in 1 .. n /\ number[i] \in 1 .. k - 1
        BY <3>2, <1>3
      <4> QED BY <3>2, <4>1
    <3> QED BY <3>1, <3>2
  <2>4. more[n + 1] = k /\ \A i \in 1 .. n : more[i] = number[i] /\ number[i] \in 1 .. k - 1
    BY <1>3
  <2> HIDE DEF more
  <2>5. \A i \in 1 .. n + 1 : last < more[i] /\ IsPacket(packets[i], more[i])'
    <3> TAKE i \in 1 .. n + 1
    <3>1. CASE i = n + 1
      <4>1. packets'[i] = packet /\ more[i] = k
        BY <3>1, <2>2, <2>4
      <4>2. IsPacket(packet, k)'
        BY <1>2
      <4> QED BY <4>1, <4>2 DEF IsPacket
    <3>2. CASE i # n + 1
      <4>1. i \in 1 .. n
        BY <3>2, <1>3
      <4>2. packets'[i] = packets[i] /\ more[i] = number[i]
        BY <4>1, <2>2, <2>4
      <4>3. last < number[i] /\ IsPacket(packets[i], number[i])
        BY <4>1, <1>1
      <4> QED BY <4>2, <4>3 DEF IsPacket
    <3> QED BY <3>1, <3>2
  <2>6. \A i, j \in 1 .. n + 1 : i < j => more[i] < more[j]
    <3> SUFFICES ASSUME NEW i \in 1 .. n + 1, NEW j \in 1 .. n + 1, i < j PROVE more[i] < more[j]
      OBVIOUS
    <3>1. i \in 1 .. n /\ more[i] = number[i] /\ number[i] \in 1 .. k - 1
      BY <1>3, <2>4
    <3>2. CASE j = n + 1
      BY <3>1, <3>2, <2>4
    <3>3. CASE j # n + 1
      <4>1. j \in 1 .. n /\ more[j] = number[j]
        BY <3>3, <1>3, <2>4
      <4> QED BY <3>1, <4>1, <1>1
    <3> QED BY <3>2, <3>3
  <2>7. last \in 0 .. (k + 1) - 1
    OBVIOUS
  <2>8. processed' # <<>> => last > 0 /\ IsPacket(processed, last)'
    BY <1>1 DEF IsPacket
  <2>9. OrderedBefore(k + 1)'
    <3>1. /\ more \in [1 .. Len(packets') -> 1 .. (k + 1) - 1]
          /\ \A i \in 1 .. Len(packets') : last < more[i] /\ IsPacket(packets[i], more[i])'
          /\ \A i, j \in 1 .. Len(packets') : i < j => more[i] < more[j]
      BY <2>2, <2>3, <2>5, <2>6
    <3> QED BY <3>1, <2>7, <2>8 DEF OrderedBefore
  <2> QED BY <2>2, <2>9, <1>3, <1>4
<1>5. CASE ~(n < QueueCap)
  <2>1. packets' = packets
    BY <1>0, <1>5 DEF Emplace
  <2>2. number \in [1 .. n -> 1 .. (k + 1) - 1] /\ last \in 0 .. (k + 1) - 1
    OBVIOUS
  <2>3. OrderedBefore(k + 1)
    BY <1>0, <1>1, <2>2 DEF OrderedBefore
  <2>4. k + 1 \in Int
    OBVIOUS
  <2>5. OrderedBefore(k + 1)'
    BY <2>1, <2>3, <2>4, OrderStays
  <2> QED BY <2>1, <2>5
<1> QED BY <1>4, <1>5

LEMMA ReceiveKeeps ==
    ASSUME IInv, Receive
    PROVE  IInv'
<1>1. UNCHANGED <<marks, sendBuffer, processed>>
  BY DEF Receive
<1>2. PICK n \in 1 .. Len(wire) :
          LET arrived == recvBuffer \o Prefix(wire, n)
          IN  /\ wire' = Rest(wire, n)
              /\ \/ recvBuffer' = arrived /\ packets' = packets
                 \/ /\ HasSize(arrived)
                    /\ \E size \in ReadSize(arrived) :
                          /\ ~(Len(arrived) < size)
                          /\ packets' = Emplace(Payload(arrived, size))
                          /\ recvBuffer' = Erase(arrived, size)
  BY DEF Receive
<1>3. PICK k \in 1 .. Len(marks) : AlignedAt(k) /\ OrderedBefore(k)
  BY DEF IInv
<1> DEFINE a == marks[k]
           r == Len(recvBuffer)
           w == Len(wire)
           s == Len(sendBuffer)
           m == r + n
<1>4. /\ a \in Nat /\ r \in Nat /\ w \in Nat /\ s \in Nat /\ n \in 1 .. w /\ n \in 0 .. w /\ n \in Nat
      /\ m \in Nat /\ w - n \in Nat /\ a + r \in Nat /\ a + m \in Nat /\ a + r + n = a + m
      /\ (a + m) + (w - n) = a + r + w
      /\ StreamEnd \in Nat
  BY <1>3, BufferLengths
<1>5. /\ recvBuffer = Bytes(a, r) /\ wire = Bytes(a + r, w) /\ sendBuffer = Bytes(a + r + w, s)
      /\ a + r + w + s = StreamEnd
  BY <1>3 DEF AlignedAt
<1> HIDE DEF a, r, w, s, m
<1>6. recvBuffer \o Prefix(wire, n) = Bytes(a, m)
  <2>1. Prefix(wire, n) = Bytes(a + r, n)
    BY <1>4, <1>5, CutBytes
  <2>2. a \in Nat /\ r \in Nat /\ n \in Nat
    BY <1>4
  <2>3. Bytes(a, r) \o Bytes(a + r, n) = Bytes(a, r + n)
    BY <2>2, JoinBytes
  <2> QED BY <2>3, <2>1, <2>2, <1>5 DEF m
<1>7. wire' = Bytes(a + m, w - n) /\ wire' \in Seq(Nat) /\ Len(wire') = w - n
  <2>1. wire' = Bytes(a + r + n, w - n)
    BY <1>2, <1>4, <1>5, CutBytes
  <2>2. wire' = Bytes(a + m, w - n)
    BY <2>1, <1>4
  <2> QED BY <2>2, <1>4, BytesAreASequence
<1>8. MarksInv' /\ Sent' = Sent /\ StreamEnd' = StreamEnd
  BY <1>1 DEF IInv, MarksInv, Sent, StreamEnd
<1>9. Bytes(a, m) \in Seq(Nat) /\ Len(Bytes(a, m)) = m
  BY <1>4, BytesAreASequence
<1>10. CASE recvBuffer' = Bytes(a, m) /\ packets' = packets
  <2>1. Len(recvBuffer') = m /\ recvBuffer' \in Seq(Nat)
    BY <1>9, <1>10
  <2>2. /\ recvBuffer' = Bytes(a, Len(recvBuffer'))
        /\ wire' = Bytes(a + Len(recvBuffer'), Len(wire'))
        /\ sendBuffer' = Bytes(a + Len(recvBuffer') + Len(wire'), Len(sendBuffer'))
        /\ a + Len(recvBuffer') + Len(wire') + Len(sendBuffer') = StreamEnd
    BY <1>1, <1>4, <1>5, <1>7, <1>10, <2>1 DEF s
  <2>3. AlignedAt(k)'
    BY <2>2, <1>1, <1>8 DEF AlignedAt, a
  <2>4. OrderedBefore(k)'
    BY <1>1, <1>3, <1>10, OrderStays
  <2>5. TypeOK'
    BY <1>1, <1>7, <1>10, <2>1 DEF IInv, TypeOK
  <2> QED BY <2>3, <2>4, <2>5, <1>1, <1>8 DEF IInv
<1>11. CASE /\ HasSize(Bytes(a, m))
            /\ \E size \in ReadSize(Bytes(a, m)) :
                  /\ ~(Len(Bytes(a, m)) < size)
                  /\ packets' = Emplace(Payload(Bytes(a, m), size))
                  /\ recvBuffer' = Erase(Bytes(a, m), size)
  <2>1. PICK size \in ReadSize(Bytes(a, m)) :
            /\ ~(m < size)
            /\ packets' = Emplace(Payload(Bytes(a, m), size))
            /\ recvBuffer' = Erase(Bytes(a, m), size)
    BY <1>9, <1>11
  <2>2. a + m <= StreamEnd
    BY <1>4, <1>5
  <2>3. /\ k + 1 \in 1 .. Len(marks)
        /\ size = marks[k + 1] - a
        /\ size \in Nat /\ size >= 2
    BY <1>4, <1>11, <2>2, SizeIsReadWhereWritten DEF IInv, a
  <2> DEFINE b == marks[k + 1]
             payload == Payload(Bytes(a, m), size)
             l == m - size
  <2>4. /\ b = a + size /\ m >= size /\ l \in Nat /\ size \in 0 .. m /\ b \in Nat
        /\ b + l = a + m
    <3>1. b \in Nat
      BY <2>3, ElementOfSeq DEF IInv, MarksInv
    <3>2. a \in Nat /\ m \in Nat /\ size \in Nat /\ size = b - a /\ m >= size
      BY <1>4, <2>1, <2>3
    <3> HIDE DEF b
    <3> QED BY <3>1, <3>2
  <2>5. IsPacket(payload, k) /\ payload \in Seq(Nat \cup {Beyond})
    BY <1>4, <2>3, <2>4, PayloadIsPacket DEF a
  <2>6. recvBuffer' = Bytes(b, l)
    <3>1. Rest(Bytes(a, m), size) = Bytes(a + size, m - size)
      BY <1>4, <2>4, CutBytes
    <3> QED BY <3>1, <2>1, <2>4 DEF Erase
  <2> HIDE DEF b, payload, l
  <2>7. recvBuffer' \in Seq(Nat) /\ Len(recvBuffer') = l
    BY <2>4, <2>6, BytesAreASequence
  <2>8. /\ recvBuffer' = Bytes(b, Len(recvBuffer'))
        /\ wire' = Bytes(b + Len(recvBuffer'), Len(wire'))
        /\ sendBuffer' = Bytes(b + Len(recvBuffer') + Len(wire'), Len(sendBuffer'))
        /\ b + Len(recvBuffer') + Len(wire') + Len(sendBuffer') = StreamEnd
    BY <1>1, <1>4, <1>5, <1>7, <2>4, <2>6, <2>7 DEF s
  <2>9. AlignedAt(k + 1)'
    BY <2>8, <1>1, <1>8 DEF AlignedAt, b
  <2>10. /\ OrderedBefore(k + 1)'
         /\ packets' \in Seq(Seq(Nat \cup {Beyond}))
         /\ Len(packets') <= QueueCap
    <3>1. packets \in Seq(Seq(Nat \cup {Beyond})) /\ Len(packets) <= QueueCap
      BY DEF IInv, TypeOK
    <3>2. k \in Nat /\ k >= 1
      OBVIOUS
    <3>3. packets' = Emplace(payload)
      BY <2>1 DEF payload
    <3> QED BY <3>1, <3>2, <3>3, <2>5, <1>1, <1>3, EmplaceKeepsOrder
  <2>11. TypeOK'
    BY <1>1, <1>7, <2>7, <2>10 DEF IInv, TypeOK
  <2> QED BY <2>3, <2>9, <2>10, <2>11, <1>1, <1>8 DEF IInv
<1> QED BY <1>2, <1>6, <1>10, <1>11

LEMMA ProcessQueuedKeeps ==
    ASSUME IInv, ProcessQueuedPacket
    PROVE  IInv'
<1> DEFINE S == Seq(Nat \cup {Beyond})
<1>0. PICK n \in Nat : n = Len(packets)
  BY LenProperties DEF IInv, TypeOK
<1>1. /\ packets # <<>> /\ processed' = Head(packets) /\ packets' = Tail(packets)
      /\ UNCHANGED <<marks, sendBuffer, wire, recvBuffer>>
  BY DEF ProcessQueuedPacket
<1>2. packets \in Seq(S) /\ n <= QueueCap /\ QueueCap \in Nat
  BY <1>0, BoundsAssumption DEF IInv, TypeOK
<1> HIDE DEF S
<1>3. /\ Head(packets) \in S /\ Tail(packets) \in Seq(S) /\ Len(Tail(packets)) = n - 1
      /\ \A i \in 1 .. n - 1 : Tail(packets)[i] = packets[i + 1]
      /\ n \in Nat /\ n >= 1 /\ Head(packets) = packets[1]
  BY <1>0, <1>1, <1>2, HeadTailProperties, EmptySeq
<1>4. PICK k \in 1 .. Len(marks) : AlignedAt(k) /\ OrderedBefore(k)
  BY DEF IInv
<1>5. PICK last \in 0 .. k - 1, number \in [1 .. n -> 1 .. k - 1] :
          /\ \A i \in 1 .. n : last < number[i] /\ IsPacket(packets[i], number[i])
          /\ \A i, j \in 1 .. n : i < j => number[i] < number[j]
  BY <1>0, <1>4 DEF OrderedBefore
<1>6. \A p, j : IsPacket(p, j) => IsPacket(p, j)'
  BY <1>1 DEF IsPacket
<1> DEFINE rest == [i \in 1 .. n - 1 |-> number[i + 1]]
<1>7. \A i \in 1 .. n - 1 : /\ i + 1 \in 1 .. n /\ rest[i] = number[i + 1]
                            /\ number[i + 1] \in 1 .. k - 1
  BY <1>3
<1>8. rest \in [1 .. n - 1 -> 1 .. k - 1]
  BY <1>7
<1> HIDE DEF rest
<1>9. 1 \in 1 .. n /\ number[1] \in 0 .. k - 1 /\ number[1] > 0
  <2>1. 1 \in 1 .. n
    BY <1>3
  <2>2. number[1] \in 1 .. k - 1
    BY <2>1
  <2> QED BY <2>1, <2>2
<1>10. Len(packets') = n - 1
  BY <1>1, <1>3
<1>11. \A i \in 1 .. n - 1 : number[1] < rest[i] /\ IsPacket(packets[i], rest[i])'
  <2> TAKE i \in 1 .. n - 1
  <2>1. packets'[i] = packets[i + 1] /\ rest[i] = number[i + 1] /\ i + 1 \in 1 .. n /\ 1 < i + 1
    BY <1>1, <1>3, <1>7
  <2>2. number[1] < number[i + 1] /\ IsPacket(packets[i + 1], number[i + 1])
    BY <1>5, <1>9, <2>1
  <2> QED BY <1>1, <2>1, <2>2 DEF IsPacket
<1>12. \A i, j \in 1 .. n - 1 : i < j => rest[i] < rest[j]
  <2> SUFFICES ASSUME NEW i \in 1 .. n - 1, NEW j \in 1 .. n - 1, i < j PROVE rest[i] < rest[j]
    OBVIOUS
  <2>1. i + 1 < j + 1
    OBVIOUS
  <2> QED BY <2>1, <1>5, <1>7
<1>13. processed' # <<>> => number[1] > 0 /\ IsPacket(processed, number[1])'
  BY <1>1, <1>3, <1>5, <1>9 DEF IsPacket
<1>14. OrderedBefore(k)'
  <2>1. /\ rest \in [1 .. Len(packets') -> 1 .. k - 1]
        /\ \A i \in 1 .. Len(packets') : number[1] < rest[i] /\ IsPacket(packets[i], rest[i])'
        /\ \A i, j \in 1 .. Len(packets') : i < j => rest[i] < rest[j]
    BY <1>8, <1>10, <1>11, <1>12
  <2> QED BY <2>1, <1>9, <1>13 DEF OrderedBefore
<1>15. AlignedAt(k)' /\ MarksInv'
  BY <1>1, <1>4 DEF IInv, MarksInv, Sent, AlignedAt, StreamEnd
<1>16. TypeOK'
  BY <1>1, <1>2, <1>3, <1>10 DEF IInv, TypeOK, S
<1> QED BY <1>1, <1>14, <1>15, <1>16 DEF IInv

LEMMA StepKeepsInvariant == IInv /\ [Next]_vars => IInv'
<1> SUFFICES ASSUME IInv, [Next]_vars PROVE IInv'
  OBVIOUS
<1>1. CASE \E s \in PacketSizes : AppendSendBuffer(s)
  BY <1>1, AppendKeeps
<1>2. CASE ProcessSendPacket
  BY <1>2, ProcessSendKeeps
<1>3. CASE Receive
  BY <1>3, ReceiveKeeps
<1>4. CASE ProcessQueuedPacket
  BY <1>4, ProcessQueuedKeeps
<1>5. CASE UNCHANGED vars
  <2>1. UNCHANGED <<marks, sendBuffer, wire, recvBuffer, packets, processed>>
    BY <1>5 DEF vars
  <2>2. PICK k \in 1 .. Len(marks) : AlignedAt(k) /\ OrderedBefore(k)
    BY DEF IInv
  <2>3. AlignedAt(k)' /\ MarksInv' /\ TypeOK'
    BY <2>1, <2>2 DEF IInv, TypeOK, MarksInv, Sent, AlignedAt, StreamEnd
  <2>4. OrderedBefore(k)'
    BY <2>1, <2>2, OrderStays
  <2> QED BY <2>1, <2>3, <2>4 DEF IInv
<1> QED BY <1>1, <1>2, <1>3, <1>4, <1>5 DEF Next


THEOREM InvariantHolds == Spec => []IInv
<1>1. Init => IInv
  BY InitInvariant
<1>2. IInv /\ [Next]_vars => IInv'
  BY StepKeepsInvariant
<1> QED BY <1>1, <1>2, PTL DEF Spec

(* However the stream of packets of any sizes is cut into sends and        *)
(* receives, Session::ParsePacket and its twin on the client read a size   *)
(* where a size was written.                                               *)
THEOREM StreamStaysAligned == Spec => []StreamAligned
<1>1. IInv => StreamAligned
  <2> SUFFICES ASSUME IInv PROVE StreamAligned
    OBVIOUS
  <2>1. PICK k \in 1 .. Len(marks) : AlignedAt(k)
    BY DEF IInv
  <2> DEFINE a == marks[k]
             r == Len(recvBuffer)
             w == Len(wire)
             s == Len(sendBuffer)
  <2>2. /\ a \in Nat /\ r \in Nat /\ w \in Nat /\ s \in Nat /\ a + r \in Nat /\ r + w \in Nat
        /\ a + (r + w) = a + r + w
    BY BufferLengths
  <2>3. /\ recvBuffer = Bytes(a, r) /\ wire = Bytes(a + r, w) /\ sendBuffer = Bytes(a + r + w, s)
        /\ a + r + w + s = StreamEnd
    BY <2>1 DEF AlignedAt
  <2> HIDE DEF a, r, w, s
  <2>4. recvBuffer \o wire = Bytes(a, r + w)
    BY <2>2, <2>3, JoinBytes
  <2>5. Bytes(a, r + w) \o Bytes(a + (r + w), s) = Bytes(a, (r + w) + s)
    BY <2>2, JoinBytes
  <2>6. (r + w) + s = StreamEnd - a
    BY <2>2, <2>3
  <2>7. (recvBuffer \o wire) \o sendBuffer = Bytes(a, StreamEnd - a)
    BY <2>2, <2>3, <2>4, <2>5, <2>6
  <2> QED BY <2>7 DEF StreamAligned, Bytes, a
<1> QED BY <1>1, InvariantHolds, PTL

(* The main threads get whole packets, in the order of sending, and none   *)
(* of them twice, whatever the queue refuses (its result is ignored in     *)
(* Session::ParsePacket).                                                  *)
THEOREM PacketsArriveInOrder == Spec => []PacketsInOrder
<1>1. IInv => PacketsInOrder
  <2> SUFFICES ASSUME IInv PROVE PacketsInOrder
    OBVIOUS
  <2> DEFINE B == Seq(Nat \cup {Beyond})
  <2>1. PICK k \in 1 .. Len(marks) : OrderedBefore(k)
    BY DEF IInv
  <2>2. PICK n \in Nat : n = Len(packets)
    BY LenProperties DEF IInv, TypeOK
  <2>3. PICK last \in 0 .. k - 1, number \in [1 .. n -> 1 .. k - 1] :
            /\ processed # <<>> => last > 0 /\ IsPacket(processed, last)
            /\ \A i \in 1 .. n : last < number[i] /\ IsPacket(packets[i], number[i])
            /\ \A i, j \in 1 .. n : i < j => number[i] < number[j]
    BY <2>1, <2>2 DEF OrderedBefore
  <2>4. packets \in Seq(B) /\ processed \in B
    BY DEF IInv, TypeOK
  <2>5. Len(marks) \in Nat /\ 1 .. k - 1 \subseteq Sent
    BY LenProperties DEF IInv, MarksInv, Sent
  <2> HIDE DEF B
  <2> DEFINE taken == (IF processed = <<>> THEN <<>> ELSE <<processed>>) \o packets
  <2>6. CASE processed = <<>>
    <3>1. taken = packets
      BY <2>4, <2>6, ConcatEmptySeq
    <3>2. number \in [1 .. n -> Sent]
      BY <2>5
    <3> HIDE DEF taken
    <3>3. \E f \in [1 .. Len(taken) -> Sent] :
              /\ \A i \in 1 .. Len(taken) : IsPacket(taken[i], f[i])
              /\ \A i, j \in 1 .. Len(taken) : i < j => f[i] < f[j]
      BY <2>2, <2>3, <3>1, <3>2
    <3> QED BY <3>3 DEF PacketsInOrder, taken
  <2>7. CASE processed # <<>>
    <3>1. <<processed>> \in Seq(B) /\ Len(<<processed>>) = 1 /\ <<processed>>[1] = processed
      BY <2>4
    <3>2. taken = <<processed>> \o packets
      BY <2>7
    <3> HIDE DEF taken
    <3>3. /\ Len(taken) = n + 1
          /\ \A i \in 1 .. n + 1 : taken[i] = IF i <= 1 THEN processed ELSE packets[i - 1]
      BY <2>2, <2>4, <3>1, <3>2, ConcatProperties
    <3> DEFINE f == [i \in 1 .. n + 1 |-> IF i <= 1 THEN last ELSE number[i - 1]]
    <3>4. \A i \in 1 .. n + 1 :
              \/ i = 1 /\ f[i] = last /\ taken[i] = processed
              \/ /\ i > 1 /\ i - 1 \in 1 .. n
                 /\ f[i] = number[i - 1] /\ taken[i] = packets[i - 1]
      BY <3>3
    <3>5. f \in [1 .. n + 1 -> Sent]
      <4>1. last \in 1 .. k - 1
        BY <2>3, <2>7
      <4>2. \A i \in 1 .. n + 1 : f[i] \in 1 .. k - 1
        BY <3>4, <4>1
      <4> QED BY <2>5, <4>2
    <3> HIDE DEF f
    <3>6. \A i \in 1 .. n + 1 : IsPacket(taken[i], f[i])
      BY <2>3, <2>7, <3>4
    <3>7. \A i, j \in 1 .. n + 1 : i < j => f[i] < f[j]
      <4> SUFFICES ASSUME NEW i \in 1 .. n + 1, NEW j \in 1 .. n + 1, i < j PROVE f[i] < f[j]
        OBVIOUS
      <4>1. j > 1 /\ j - 1 \in 1 .. n /\ f[j] = number[j - 1]
        BY <3>4
      <4>2. CASE i = 1
        <5>1. f[i] = last
          BY <3>4, <4>2
        <5> QED BY <2>3, <4>1, <5>1
      <4>3. CASE i > 1
        <5>1. i - 1 \in 1 .. n /\ f[i] = number[i - 1] /\ i - 1 < j - 1
          BY <3>4, <4>3
        <5> QED BY <2>3, <4>1, <5>1
      <4> QED BY <4>2, <4>3
    <3> QED BY <3>3, <3>5, <3>6, <3>7 DEF PacketsInOrder, taken
  <2> QED BY <2>6, <2>7
<1> QED BY <1>1, InvariantHolds, PTL

-----------------------------------------------------------------------------
(* What a loop has done after some bits.  Both loops, the writer's and the *)
(* reader's, are given by the mask and the part of the value they have.    *)

LoopState == [mask : Nat \ {0}, tmp : Nat]

Now == [mask |-> mask, tmp |-> tmp]

Start == [mask |-> 1, tmp |-> 0]

Advanced(state, bit) == [mask |-> 2 * state.mask, tmp |-> state.tmp + bit * state.mask]

GoesOn(state, k) == Continues(state.tmp, state.mask, fields[k].max)

(* The state before position p of a field that ends at e in state last.    *)
Before(p, e, last) ==
    IF p < e THEN [mask |-> rounds[p + 1].mask, tmp |-> rounds[p + 1].tmp] ELSE last

(* The bits from s to e are those of field k: from the state in which a    *)
(* loop starts, each of them leads to the state before the next one, and   *)
(* the loop went on before each.                                           *)
Traced(k, s, e, last) ==
    /\ s \in 0 .. e /\ e \in 0 .. bitPos
    /\ Before(s, e, last) = Start
    /\ \A p \in s .. e - 1 :
          /\ rounds[p + 1].field = k
          /\ GoesOn(Before(p, e, last), k)
          /\ Before(p + 1, e, last) = Advanced(Before(p, e, last), buffer[p + 1])

(* The state says the value as far as its bits are written.                *)
Holds(state, k) ==
    /\ state \in LoopState
    /\ state.tmp = fields[k].value % state.mask
    /\ fields[k].max > 0 => state.tmp < fields[k].max

WriterTypes ==
    /\ phase \in {"write", "cut", "read", "done"}
    /\ fields \in Seq(Field) /\ fields # <<>>
    /\ index \in 1 .. Len(fields) + 1
    /\ mask \in Nat \ {0} /\ tmp \in Nat
    /\ bitPos \in 0 .. MAX_PACKET_SIZE * ByteBits
    /\ buffer \in Seq({0, 1}) /\ Len(buffer) = bitPos
    /\ rounds \in Seq([field : Nat, mask : Nat, tmp : Nat]) /\ Len(rounds) = bitPos
    /\ starts \in Seq(Nat) /\ Len(starts) = index
    /\ written \in Seq(LoopState) /\ Len(written) = index - 1

Finished(k) ==
    /\ Traced(k, starts[k], starts[k + 1], written[k])
    /\ Holds(written[k], k)
    /\ ~GoesOn(written[k], k)

Unfinished == Traced(index, starts[index], bitPos, Now) /\ Holds(Now, index)

WriterInv ==
    /\ WriterTypes
    /\ \A k \in 1 .. index - 1 : Finished(k)
    /\ index <= Len(fields) => Unfinished

(* Until it reads, the reader's variables are what they were.              *)
ReaderRests == rindex = 0 /\ rmask = 1 /\ rvalue = 0 /\ got = <<>>

ReaderAt(k) ==
    /\ rbitPos \in starts[k] .. starts[k + 1]
    /\ [mask |-> rmask, tmp |-> rvalue] = Before(rbitPos, starts[k + 1], written[k])

(* What has been read is what the writer's loops had at their ends.        *)
ReaderInv ==
    /\ rmask \in Nat \ {0} /\ rvalue \in Nat /\ rbitPos \in Nat /\ got \in Seq(Nat)
    /\ phase \in {"write", "cut"} => ReaderRests
    /\ phase \in {"read", "done"} =>
          /\ index = Len(fields) + 1
          /\ rindex \in 1 .. Len(fields) + 1
          /\ Len(got) < rindex
          /\ \A k \in 1 .. Len(got) : got[k] = written[rindex - Len(got) + k - 1].tmp
    /\ phase = "read" /\ rindex <= Len(fields) => ReaderAt(rindex)

CodecInv == WriterInv /\ ReaderInv


-----------------------------------------------------------------------------
(* Remainders.                                                             *)

LEMMA DivisionOfNats ==
    ASSUME NEW v \in Nat, NEW m \in Nat \ {0}
    PROVE  /\ v \div m \in Nat
           /\ v % m \in 0 .. m - 1
           /\ v = m * (v \div m) + (v % m)
<1>1. v % m \in 0 .. m - 1 /\ v = m * (v \div m) + (v % m) /\ v \div m \in Int
  OBVIOUS
<1>2. v \div m >= 0
  <2> SUFFICES ASSUME v \div m <= -1 PROVE FALSE
    BY <1>1
  <2>1. \A q \in Int : q <= -1 => m * q <= m * (-1)
    OBVIOUS
  <2> QED BY <1>1, <2>1
<1> QED BY <1>1, <1>2

(* A quotient and a remainder that fit are the quotient and the remainder. *)
LEMMA RemainderFits ==
    ASSUME NEW v \in Nat, NEW m \in Nat \ {0}, NEW q \in Nat, NEW r \in 0 .. m - 1, v = m * q + r
    PROVE  v % m = r
<1> DEFINE p == v \div m
           s == v % m
<1>1. p \in Nat /\ s \in 0 .. m - 1 /\ v = m * p + s
  BY DivisionOfNats
<1> HIDE DEF p, s
<1>2. \A a, b \in Nat : a > b => m * a >= m * b + m
  <2> SUFFICES ASSUME NEW a \in Nat, NEW b \in Nat, a > b PROVE m * a >= m * b + m
    OBVIOUS
  <2>1. m * (a - b) >= m * 1
    OBVIOUS
  <2> QED BY <2>1
<1>3. p = q
  BY <1>1, <1>2
<1> QED BY <1>1, <1>3 DEF s

(* One more bit of a value is one more bit of its remainder.               *)
LEMMA BitOfRemainder ==
    ASSUME NEW v \in Nat, NEW m \in Nat \ {0}
    PROVE  /\ BitOf(v, m) \in {0, 1}
           /\ v % (2 * m) = (v % m) + BitOf(v, m) * m
<1> DEFINE q == v \div m
           r == v % m
           h == q \div 2
           b == q % 2
<1>1. q \in Nat /\ r \in 0 .. m - 1 /\ v = m * q + r
  BY DivisionOfNats
<1>2. h \in Nat /\ b \in {0, 1} /\ q = 2 * h + b
  BY <1>1, DivisionOfNats
<1>3. BitOf(v, m) = b
  BY DEF BitOf
<1> HIDE DEF q, r, h, b
<1>4. v = (2 * m) * h + (r + b * m)
  BY <1>1, <1>2
<1>5. r + b * m \in 0 .. 2 * m - 1
  <2>1. CASE b = 0
    BY <2>1, <1>1
  <2>2. CASE b = 1
    BY <2>2, <1>1
  <2> QED BY <2>1, <2>2, <1>2
<1>6. 2 * m \in Nat \ {0}
  OBVIOUS
<1>7. v % (2 * m) = r + b * m
  BY <1>2, <1>4, <1>5, <1>6, RemainderFits
<1> QED BY <1>2, <1>3, <1>7 DEF r

(* When a loop ends, nothing of a value that keeps to its range is left:   *)
(* a further bit would take it out of the range.                           *)
LEMMA WholeValue ==
    ASSUME NEW v \in 0 .. Word - 1, NEW m \in Nat \ {0}, NEW max \in Nat,
           ~Continues(v % m, m, max), v < max
    PROVE  v % m = v
<1> DEFINE q == v \div m
           r == v % m
<1>1. v \in Nat /\ Word \in Nat
  BY WordAssumption
<1>2. q \in Nat /\ r \in 0 .. m - 1 /\ v = m * q + r
  BY <1>1, DivisionOfNats
<1>3. r + m >= max \/ m >= Word
  BY <1>1, <1>2 DEF Continues
<1> HIDE DEF q, r
<1>4. q >= 1 => m * q >= m
  <2>1. q >= 1 => m * q >= m * 1
    BY <1>2
  <2> QED BY <2>1
<1>5. ~(q >= 1)
  BY <1>1, <1>2, <1>3, <1>4
<1> QED BY <1>2, <1>5 DEF r


-----------------------------------------------------------------------------
(* The writer.                                                             *)

LEMMA FieldHasType ==
    ASSUME fields \in Seq(Field), NEW k \in 1 .. Len(fields)
    PROVE  fields[k].value \in 0 .. Word - 1 /\ fields[k].value \in Nat /\ fields[k].max \in Nat
<1>1. fields[k] \in Field
  BY ElementOfSeq
<1> QED BY <1>1, WordAssumption DEF Field

(* No bit of the field is written: its loop starts.                        *)
LEMMA StartIsTraced ==
    ASSUME NEW k \in 1 .. Len(fields), NEW s \in 0 .. bitPos, bitPos \in Nat,
           fields \in Seq(Field)
    PROVE  Traced(k, s, s, Start) /\ Holds(Start, k)
<1>1. Before(s, s, Start) = Start
  BY DEF Before
<1>2. Traced(k, s, s, Start)
  BY <1>1 DEF Traced
<1>3. fields[k].value \in Nat /\ fields[k].max \in Nat
  BY FieldHasType
<1>4. 0 = fields[k].value % 1
  BY <1>3
<1>5. Holds(Start, k)
  BY <1>3, <1>4 DEF Holds, Start, LoopState
<1> QED BY <1>2, <1>5

LEMMA InitCodec == CodecInit => CodecInv
<1> SUFFICES ASSUME CodecInit PROVE CodecInv
  OBVIOUS
<1>1. /\ phase = "write" /\ fields \in Messages /\ index = 1 /\ mask = 1 /\ tmp = 0
      /\ bitPos = 0 /\ buffer = <<>> /\ rounds = <<>> /\ starts = <<0>> /\ written = <<>>
      /\ rindex = 0 /\ rmask = 1 /\ rvalue = 0 /\ rbitPos = 0 /\ got = <<>>
  BY DEF CodecInit
<1>2. fields \in Seq(Field) /\ fields # <<>>
  BY <1>1, MessagesAssumption
<1>3. Len(fields) \in Nat /\ Len(fields) >= 1
  BY <1>2, EmptySeq
<1>4. MAX_PACKET_SIZE * ByteBits \in Nat
  BY BufferAssumption
<1>5. WriterTypes
  BY <1>1, <1>2, <1>3, <1>4 DEF WriterTypes
<1>6. Traced(1, 0, 0, Start) /\ Holds(Start, 1)
  BY <1>1, <1>2, <1>3, StartIsTraced
<1>7. Now = Start /\ starts[1] = 0
  BY <1>1 DEF Now, Start
<1>8. WriterInv
  BY <1>1, <1>5, <1>6, <1>7 DEF WriterInv, Unfinished
<1>9. ReaderInv
  BY <1>1 DEF ReaderInv, ReaderRests
<1> QED BY <1>8, <1>9 DEF CodecInv

(* What is written behind a field does not change it.                      *)
LEMMA TraceStays ==
    ASSUME NEW k \in 1 .. Len(fields), NEW s, NEW e, NEW last,
           Traced(k, s, e, last), bitPos \in Nat, bitPos' \in Nat, bitPos' >= bitPos,
           UNCHANGED fields,
           \A p \in 1 .. bitPos : rounds'[p] = rounds[p] /\ buffer'[p] = buffer[p]
    PROVE  Traced(k, s, e, last)'
<1>1. s \in 0 .. e /\ e \in 0 .. bitPos
  BY DEF Traced
<1>2. e \in 0 .. bitPos'
  BY <1>1
<1>3. \A p \in 0 .. e : Before(p, e, last)' = Before(p, e, last)
  <2> TAKE p \in 0 .. e
  <2>1. p < e => p + 1 \in 1 .. bitPos
    BY <1>1
  <2> QED BY <2>1 DEF Before
<1>4. Before(s, e, last)' = Start
  BY <1>1, <1>3 DEF Traced, Start
<1>5. ASSUME NEW p \in s .. e - 1
      PROVE  /\ rounds'[p + 1].field = k
             /\ GoesOn(Before(p, e, last), k)'
             /\ Before(p + 1, e, last)' = Advanced(Before(p, e, last)', buffer'[p + 1])
  <2>1. p \in 0 .. e /\ p + 1 \in 0 .. e /\ p + 1 \in 1 .. bitPos
    BY <1>1
  <2>2. rounds'[p + 1] = rounds[p + 1] /\ buffer'[p + 1] = buffer[p + 1]
    BY <2>1
  <2>3. /\ rounds[p + 1].field = k
        /\ GoesOn(Before(p, e, last), k)
        /\ Before(p + 1, e, last) = Advanced(Before(p, e, last), buffer[p + 1])
    BY DEF Traced
  <2>4. Before(p, e, last)' = Before(p, e, last) /\ Before(p + 1, e, last)' = Before(p + 1, e, last)
    BY <1>3, <2>1
  <2> QED BY <2>2, <2>3, <2>4 DEF GoesOn, Continues
<1> QED BY <1>1, <1>2, <1>4, <1>5 DEF Traced, Advanced, Start

(* The loop of the writer has written one bit more.                        *)

LEMMA FinishedStays ==
    ASSUME WriterInv, NEW k \in 1 .. index - 1, UNCHANGED fields,
           bitPos' \in Nat, bitPos' >= bitPos,
           \A p \in 1 .. bitPos : rounds'[p] = rounds[p] /\ buffer'[p] = buffer[p],
           starts'[k] = starts[k], starts'[k + 1] = starts[k + 1], written'[k] = written[k]
    PROVE  Finished(k)'
<1>1. PICK s, e, last : s = starts[k] /\ e = starts[k + 1] /\ last = written[k]
  OBVIOUS
<1>2. Traced(k, s, e, last) /\ Holds(last, k) /\ ~GoesOn(last, k)
  BY <1>1 DEF WriterInv, Finished
<1>3. k \in 1 .. Len(fields) /\ bitPos \in Nat
  BY BufferAssumption DEF WriterInv, WriterTypes
<1>4. Traced(k, s, e, last)'
  BY <1>2, <1>3, TraceStays
<1>5. Holds(last, k)' /\ ~GoesOn(last, k)'
  BY <1>2 DEF Holds, GoesOn, Continues
<1> QED BY <1>1, <1>4, <1>5 DEF Finished, Traced, Holds, GoesOn, Continues, Before, Advanced, Start

(* The loop of the writer has written one bit more.                        *)
LEMMA WriteBitTraces ==
    ASSUME NEW k \in 1 .. Len(fields), NEW s, NEW e \in Nat, NEW state \in LoopState, NEW bit,
           Traced(k, s, e, state), GoesOn(state, k),
           UNCHANGED fields, bitPos = e, bitPos' = e + 1,
           \A p \in 1 .. e : rounds'[p] = rounds[p] /\ buffer'[p] = buffer[p],
           rounds'[e + 1] = [field |-> k, mask |-> state.mask, tmp |-> state.tmp],
           buffer'[e + 1] = bit
    PROVE  Traced(k, s, e + 1, Advanced(state, bit))'
<1>1. PICK next : next = Advanced(state, bit)
  OBVIOUS
<1>2. s \in 0 .. e
  BY DEF Traced
<1>3. \A p \in 0 .. e : Before(p, e + 1, next)' = Before(p, e, state)
  <2> TAKE p \in 0 .. e
  <2>1. CASE p = e
    <3>1. state = [mask |-> state.mask, tmp |-> state.tmp]
      BY DEF LoopState
    <3> QED BY <2>1, <3>1 DEF Before
  <2>2. CASE p < e
    <3>1. p + 1 \in 1 .. e
      BY <2>2
    <3> QED BY <2>2, <3>1 DEF Before
  <2> QED BY <2>1, <2>2
<1>4. Before(e + 1, e + 1, next)' = next /\ Before(e, e, state) = state
  BY DEF Before
<1>5. Before(s, e + 1, next)' = Start
  BY <1>2, <1>3 DEF Traced, Start
<1>6. ASSUME NEW p \in s .. (e + 1) - 1
      PROVE  /\ rounds'[p + 1].field = k
             /\ GoesOn(Before(p, e + 1, next), k)'
             /\ Before(p + 1, e + 1, next)' = Advanced(Before(p, e + 1, next)', buffer'[p + 1])
  <2>1. CASE p = e
    <3>1. Before(p, e + 1, next)' = state /\ Before(p + 1, e + 1, next)' = next
      BY <1>3, <1>4, <2>1
    <3>2. rounds'[p + 1].field = k /\ buffer'[p + 1] = bit
      BY <2>1
    <3>3. GoesOn(Before(p, e + 1, next), k)'
      BY <3>1 DEF GoesOn, Continues
    <3> QED BY <1>1, <3>1, <3>2, <3>3
  <2>2. CASE p < e
    <3>1. p \in s .. e - 1 /\ p + 1 \in 1 .. e /\ p \in 0 .. e /\ p + 1 \in 0 .. e
      BY <1>2, <2>2
    <3>2. rounds'[p + 1] = rounds[p + 1] /\ buffer'[p + 1] = buffer[p + 1]
      BY <3>1
    <3>3. /\ rounds[p + 1].field = k
          /\ GoesOn(Before(p, e, state), k)
          /\ Before(p + 1, e, state) = Advanced(Before(p, e, state), buffer[p + 1])
      BY <3>1 DEF Traced
    <3>4. /\ Before(p, e + 1, next)' = Before(p, e, state)
          /\ Before(p + 1, e + 1, next)' = Before(p + 1, e, state)
      BY <1>3, <3>1
    <3> QED BY <3>2, <3>3, <3>4 DEF GoesOn, Continues
  <2> QED BY <1>2, <2>1, <2>2
<1>7. Traced(k, s, e + 1, next)'
  BY <1>2, <1>5, <1>6 DEF Traced, Advanced, Start
<1> QED BY <1>1, <1>7

(* What a bit adds to the remainder.                                       *)
LEMMA BitHolds ==
    ASSUME fields \in Seq(Field), NEW k \in 1 .. Len(fields), NEW state,
           Holds(state, k), GoesOn(state, k)
    PROVE  Holds(Advanced(state, BitOf(fields[k].value, state.mask)), k)
<1> DEFINE f == fields[k]
           m == state.mask
           t == state.tmp
           bit == BitOf(f.value, m)
<1>1. f.value \in Nat /\ f.max \in Nat /\ m \in Nat \ {0} /\ t \in Nat /\ t = f.value % m
  BY FieldHasType DEF Holds, LoopState
<1>2. t + m < f.max
  BY DEF GoesOn, Continues
<1> HIDE DEF f, m, t
<1>3. bit \in {0, 1} /\ f.value % (2 * m) = t + bit * m
  BY <1>1, BitOfRemainder
<1> HIDE DEF bit
<1>4. 2 * m \in Nat \ {0} /\ t + bit * m \in Nat /\ t + bit * m < f.max
  <2>1. f.max \in Nat /\ m \in Nat \ {0} /\ t \in Nat
    BY <1>1
  <2>2. CASE bit = 0
    <3>1. bit * m = 0
      BY <2>1, <2>2
    <3> QED BY <2>1, <3>1, <1>2
  <2>3. CASE bit = 1
    <3>1. bit * m = m
      BY <2>1, <2>3
    <3> QED BY <2>1, <3>1, <1>2
  <2> QED BY <1>3, <2>2, <2>3
<1>5. Advanced(state, bit) = [mask |-> 2 * m, tmp |-> t + bit * m]
  BY DEF Advanced, m, t
<1>6. Holds(Advanced(state, bit), k)
  BY <1>3, <1>4, <1>5 DEF Holds, LoopState, f
<1> QED BY <1>6 DEF bit, m, f

LEMMA WriteBitKeeps ==
    ASSUME WriterInv, WriteBit
    PROVE  WriterInv'
<1>1. PICK k \in Nat, e \in Nat, state \in LoopState : k = index /\ e = bitPos /\ state = Now
  <2>1. WriterTypes /\ MAX_PACKET_SIZE * ByteBits \in Nat
    BY BufferAssumption DEF WriterInv
  <2>2. index \in Nat /\ bitPos \in Nat /\ Now \in LoopState
    BY <2>1 DEF WriterTypes, Now, LoopState
  <2> QED BY <2>2
<1> DEFINE bit == BitOf(fields[k].value, state.mask)
<1>2. PICK b : b = bit
  OBVIOUS
<1>3. k \in 1 .. Len(fields) /\ state \in LoopState /\ Traced(k, starts[k], e, state) /\ Holds(state, k)
  BY <1>1 DEF WriterInv, WriterTypes, Unfinished, WriteBit, Holds
<1>4. /\ GoesOn(state, k)
      /\ ~Full(e)
      /\ buffer' = Append(buffer, b)
      /\ Now' = Advanced(state, b)
      /\ bitPos' = e + 1
      /\ rounds' = Append(rounds, [field |-> k, mask |-> state.mask, tmp |-> state.tmp])
      /\ UNCHANGED <<phase, fields, index, starts, written>>
  BY <1>1, <1>2 DEF WriteBit, GoesOn, Now, Advanced
<1>5. WriterTypes
  BY DEF WriterInv
<1>6. b \in {0, 1}
  <2>1. fields[k].value \in Nat
    BY <1>3, <1>5, FieldHasType DEF WriterTypes
  <2> QED BY <1>2, <1>3, <2>1, BitOfRemainder DEF LoopState
<1>7. /\ buffer' \in Seq({0, 1}) /\ Len(buffer') = e + 1
      /\ \A p \in 1 .. e : buffer'[p] = buffer[p]
      /\ buffer'[e + 1] = b
  <2>1. buffer \in Seq({0, 1}) /\ Len(buffer) = e /\ buffer' = Append(buffer, b)
    BY <1>1, <1>4, <1>5 DEF WriterTypes
  <2> QED BY <2>1, <1>6, AppendProperties
<1>8. /\ rounds' \in Seq([field : Nat, mask : Nat, tmp : Nat]) /\ Len(rounds') = e + 1
      /\ \A p \in 1 .. e : rounds'[p] = rounds[p]
      /\ rounds'[e + 1] = [field |-> k, mask |-> state.mask, tmp |-> state.tmp]
  <2>1. [field |-> k, mask |-> state.mask, tmp |-> state.tmp] \in [field : Nat, mask : Nat, tmp : Nat]
    BY <1>3 DEF LoopState
  <2>2. rounds \in Seq([field : Nat, mask : Nat, tmp : Nat]) /\ Len(rounds) = e
    BY <1>1, <1>5 DEF WriterTypes
  <2>3. rounds' = Append(rounds, [field |-> k, mask |-> state.mask, tmp |-> state.tmp])
    BY <1>4
  <2> QED BY <2>1, <2>2, <2>3, AppendProperties
<1>9. Holds(Advanced(state, b), k)
  BY <1>2, <1>3, <1>4, <1>5, BitHolds DEF WriterTypes
<1>10. PICK s, next : s = starts[k] /\ next = Advanced(state, b)
  OBVIOUS
<1>11. Traced(k, s, e + 1, next)'
  BY <1>1, <1>3, <1>4, <1>7, <1>8, <1>10, WriteBitTraces
<1>12. index' = k /\ starts'[k] = s /\ bitPos' = e + 1 /\ Now' = next /\ fields' = fields
  BY <1>1, <1>4, <1>10
<1>13. Holds(next, k)'
  BY <1>9, <1>10, <1>12 DEF Holds
<1>14. Unfinished'
  BY <1>11, <1>12, <1>13 DEF Unfinished, Traced, Holds, Before, GoesOn, Advanced, Start
<1>15. WriterTypes'
  <2>1. mask' \in Nat \ {0} /\ tmp' \in Nat
    BY <1>9, <1>10, <1>12 DEF Holds, LoopState, Now
  <2>2. MAX_PACKET_SIZE * ByteBits \in Nat
    BY BufferAssumption
  <2>3. e + 1 \in 0 .. MAX_PACKET_SIZE * ByteBits
    BY <1>1, <1>4, <2>2 DEF Full
  <2> QED BY <1>4, <1>5, <1>7, <1>8, <2>1, <2>3 DEF WriterTypes
<1>16. \A j \in 1 .. index - 1 : Finished(j)'
  <2>1. bitPos' \in Nat /\ bitPos' >= bitPos
    BY <1>1, <1>4
  <2>2. \A p \in 1 .. bitPos : rounds'[p] = rounds[p] /\ buffer'[p] = buffer[p]
    BY <1>1, <1>7, <1>8
  <2> QED BY <2>1, <2>2, <1>4, FinishedStays
<1> QED BY <1>4, <1>14, <1>15, <1>16 DEF WriterInv

LEMMA WriteNextKeeps ==
    ASSUME WriterInv, WriteNext
    PROVE  WriterInv'
<1>1. PICK k \in Nat, e \in Nat, state \in LoopState : k = index /\ e = bitPos /\ state = Now
  <2>1. WriterTypes /\ MAX_PACKET_SIZE * ByteBits \in Nat
    BY BufferAssumption DEF WriterInv
  <2>2. index \in Nat /\ bitPos \in Nat /\ Now \in LoopState
    BY <2>1 DEF WriterTypes, Now, LoopState
  <2> QED BY <2>2
<1>2. WriterTypes
  BY DEF WriterInv
<1>3. /\ k \in 1 .. Len(fields) /\ Len(fields) \in Nat
      /\ state \in LoopState /\ Traced(k, starts[k], e, state) /\ Holds(state, k)
  BY <1>1, LenProperties DEF WriterInv, WriterTypes, Unfinished, WriteNext, Holds
<1>4. /\ ~GoesOn(state, k)
      /\ index' = k + 1
      /\ Now' = Start
      /\ starts' = Append(starts, e)
      /\ written' = Append(written, state)
      /\ UNCHANGED <<phase, fields, bitPos, buffer, rounds>>
  BY <1>1 DEF WriteNext, GoesOn, Now, Start
<1>5. /\ starts' \in Seq(Nat) /\ Len(starts') = k + 1
      /\ \A j \in 1 .. k : starts'[j] = starts[j]
      /\ starts'[k + 1] = e
  BY <1>1, <1>2, <1>4, AppendProperties DEF WriterTypes
<1>6. /\ written' \in Seq(LoopState) /\ Len(written') = k
      /\ \A j \in 1 .. k - 1 : written'[j] = written[j]
      /\ written'[k] = state
  BY <1>1, <1>2, <1>3, <1>4, AppendProperties DEF WriterTypes
<1>7. \A j \in 1 .. k : Finished(j)'
  <2> TAKE j \in 1 .. k
  <2>1. CASE j < k
    <3>1. j \in 1 .. index - 1 /\ j \in 1 .. k /\ j + 1 \in 1 .. k /\ j \in 1 .. k - 1
      BY <1>1, <2>1
    <3>2. bitPos' \in Nat /\ bitPos' >= bitPos
      BY <1>1, <1>4
    <3>3. \A p \in 1 .. bitPos : rounds'[p] = rounds[p] /\ buffer'[p] = buffer[p]
      BY <1>4
    <3>4. starts'[j] = starts[j] /\ starts'[j + 1] = starts[j + 1] /\ written'[j] = written[j]
      BY <3>1, <1>5, <1>6
    <3> QED BY <3>1, <3>2, <3>3, <3>4, <1>4, FinishedStays
  <2>2. CASE j = k
    <3>1. PICK s : s = starts[k]
      OBVIOUS
    <3>2. Traced(k, s, e, state)'
      BY <1>1, <1>3, <1>4, <3>1, TraceStays
    <3>3. Holds(state, k)' /\ ~GoesOn(state, k)'
      BY <1>3, <1>4 DEF Holds, GoesOn, Continues
    <3>4. starts'[k] = s /\ starts'[k + 1] = e /\ written'[k] = state
      BY <1>3, <1>5, <1>6, <3>1
    <3> QED BY <2>2, <3>2, <3>3, <3>4 DEF Finished, Traced, Holds, GoesOn, Continues, Before, Advanced, Start
  <2> QED BY <2>1, <2>2
<1>8. k + 1 <= Len(fields) => Unfinished'
  <2> SUFFICES ASSUME k + 1 \in 1 .. Len(fields) PROVE Unfinished'
    BY <1>3
  <2>1. Traced(k + 1, e, e, Start) /\ Holds(Start, k + 1)
    BY <1>1, <1>2, StartIsTraced DEF WriterTypes
  <2>2. PICK start : start = Start
    OBVIOUS
  <2>3. Traced(k + 1, e, e, start)'
    BY <1>1, <1>4, <2>1, <2>2, TraceStays
  <2>4. Holds(start, k + 1)'
    BY <1>4, <2>1, <2>2 DEF Holds
  <2> QED BY <1>4, <1>5, <1>1, <2>2, <2>3, <2>4
          DEF Unfinished, Traced, Holds, GoesOn, Continues, Before, Advanced, Start
<1>9. WriterTypes'
  <2>1. mask' = 1 /\ tmp' = 0
    BY DEF WriteNext
  <2> QED BY <1>2, <1>3, <1>4, <1>5, <1>6, <2>1 DEF WriterTypes
<1> QED BY <1>4, <1>7, <1>8, <1>9, <1>3 DEF WriterInv

(* All other steps leave the writer alone, but for the phase.              *)
LEMMA WriterRests ==
    ASSUME WriterInv, UNCHANGED writeVars, phase' \in {"write", "cut", "read", "done"}
    PROVE  WriterInv'
<1>1. UNCHANGED <<fields, index, mask, tmp, bitPos, buffer, rounds, starts, written>>
  BY DEF writeVars
<1>2. WriterTypes'
  BY <1>1 DEF WriterInv, WriterTypes
<1>3. bitPos \in Nat
  BY BufferAssumption DEF WriterInv, WriterTypes
<1>4. \A k \in 1 .. index - 1 : Finished(k)'
  BY <1>1, <1>3, FinishedStays
<1>5. ASSUME index <= Len(fields) PROVE Unfinished'
  <2>1. PICK k, s, e, state : k = index /\ s = starts[k] /\ e = bitPos /\ state = Now
    OBVIOUS
  <2>2. k \in 1 .. Len(fields)
    BY <2>1, <1>5 DEF WriterInv, WriterTypes
  <2>3. Traced(k, s, e, state) /\ Holds(state, k)
    BY <2>1, <1>5 DEF WriterInv, Unfinished
  <2>4. Traced(k, s, e, state)'
    BY <2>2, <2>3, <1>1, <1>3, TraceStays
  <2>5. Holds(state, k)'
    BY <2>3, <1>1 DEF Holds
  <2>6. index' = k /\ starts'[k] = s /\ bitPos' = e /\ Now' = state
    BY <2>1, <1>1 DEF Now
  <2> QED BY <2>4, <2>5, <2>6 DEF Unfinished, Traced, Holds, GoesOn, Continues, Before, Advanced, Start
<1> QED BY <1>1, <1>2, <1>4, <1>5 DEF WriterInv


-----------------------------------------------------------------------------
(* The reader.                                                             *)

LEMMA WrittenAndRead ==
    ASSUME CodecInv, phase = "read"
    PROVE  /\ \A k \in 1 .. Len(fields) : Finished(k)
           /\ Len(starts) = Len(fields) + 1 /\ Len(written) = Len(fields)
           /\ Len(fields) \in Nat /\ rindex \in 1 .. Len(fields) + 1
           /\ bitPos \in Nat /\ Len(buffer) = bitPos
<1>1. index = Len(fields) + 1 /\ rindex \in 1 .. Len(fields) + 1
  BY DEF CodecInv, ReaderInv
<1>2. Len(fields) \in Nat
  BY LenProperties DEF CodecInv, WriterInv, WriterTypes
<1>3. \A k \in 1 .. Len(fields) : k \in 1 .. index - 1
  BY <1>1, <1>2
<1> QED BY <1>1, <1>2, <1>3, BufferAssumption DEF CodecInv, WriterInv, WriterTypes

(* Where a field begins, both loops start.                                 *)
LEMMA FieldsStart ==
    ASSUME NEW k, Finished(k)
    PROVE  /\ starts[k] \in 0 .. starts[k + 1] /\ starts[k + 1] \in 0 .. bitPos
           /\ Before(starts[k], starts[k + 1], written[k]) = Start
BY DEF Finished, Traced

LEMMA BeginReadingKeeps ==
    ASSUME CodecInv, NEW first \in 1 .. Len(fields), BeginReading(first, starts[first])
    PROVE  ReaderInv'
<1>1. /\ phase = "write" /\ index > Len(fields) /\ phase' = "read"
      /\ rindex' = first /\ rbitPos' = starts[first]
      /\ UNCHANGED <<fields, index, starts, written, rounds, buffer, rmask, rvalue, got>>
  BY DEF BeginReading, writeVars
<1>2. Len(fields) \in Nat /\ index \in 1 .. Len(fields) + 1
  BY LenProperties DEF CodecInv, WriterInv, WriterTypes
<1>3. index = Len(fields) + 1 /\ first \in 1 .. index - 1
  BY <1>1, <1>2
<1>4. Finished(first) /\ bitPos \in Nat
  BY <1>3, BufferAssumption DEF CodecInv, WriterInv, WriterTypes
<1>5. rmask = 1 /\ rvalue = 0 /\ got = <<>>
  BY <1>1 DEF CodecInv, ReaderInv, ReaderRests
<1>6. /\ starts[first] \in 0 .. starts[first + 1] /\ starts[first + 1] \in 0 .. bitPos
      /\ Before(starts[first], starts[first + 1], written[first]) = Start
  BY <1>4, FieldsStart
<1>7. rbitPos' \in starts'[first] .. starts'[first + 1] /\ rbitPos' \in Nat
  BY <1>1, <1>4, <1>6
<1>8. [mask |-> rmask', tmp |-> rvalue'] = Start
  BY <1>1, <1>5 DEF Start
<1>9. ReaderAt(first)'
  BY <1>1, <1>6, <1>7, <1>8 DEF ReaderAt, Before
<1>10. ReaderAt(rindex)'
  BY <1>1, <1>9 DEF ReaderAt, Before
<1>11. got' = <<>> /\ Len(got') = 0 /\ rindex' \in 1 .. Len(fields') + 1
  BY <1>1, <1>2, <1>5
<1> QED BY <1>1, <1>3, <1>5, <1>7, <1>10, <1>11 DEF ReaderInv

(* The reader goes on exactly where the writer went on.                    *)
LEMMA ReaderFollows ==
    ASSUME CodecInv, phase = "read", rindex <= Len(fields)
    PROVE  /\ starts[rindex] \in 0 .. starts[rindex + 1] /\ starts[rindex + 1] \in 0 .. bitPos
           /\ rbitPos \in starts[rindex] .. starts[rindex + 1]
           /\ Continues(rvalue, rmask, fields[rindex].max) <=> rbitPos < starts[rindex + 1]
           /\ rbitPos < starts[rindex + 1] =>
                 /\ rounds[rbitPos + 1] = [field |-> rindex, mask |-> rmask, tmp |-> rvalue]
                 /\ [mask |-> 2 * rmask, tmp |-> rvalue + buffer[rbitPos + 1] * rmask]
                        = Before(rbitPos + 1, starts[rindex + 1], written[rindex])
           /\ rbitPos = starts[rindex + 1] => written[rindex] = [mask |-> rmask, tmp |-> rvalue]
<1> DEFINE k == rindex
           s == starts[k]
           e == starts[k + 1]
           last == written[k]
           here == [mask |-> rmask, tmp |-> rvalue]
<1>1. k \in 1 .. Len(fields) /\ bitPos \in Nat
  BY WrittenAndRead
<1>2. Traced(k, s, e, last) /\ ~GoesOn(last, k)
  BY <1>1, WrittenAndRead DEF Finished
<1>3. rbitPos \in s .. e /\ here = Before(rbitPos, e, last)
  BY DEF CodecInv, ReaderInv, ReaderAt
<1>4. here.mask = rmask /\ here.tmp = rvalue
  OBVIOUS
<1> HIDE DEF here
<1>5. GoesOn(here, k) <=> Continues(rvalue, rmask, fields[k].max)
  BY <1>4 DEF GoesOn
<1>6. s \in 0 .. e /\ e \in 0 .. bitPos
  BY <1>2 DEF Traced
<1> HIDE DEF s, e, last
<1>7. CASE rbitPos < e
  <2>1. rbitPos \in s .. e - 1 /\ rbitPos + 1 \in 1 .. bitPos
    BY <1>1, <1>3, <1>6, <1>7
  <2>2. /\ rounds[rbitPos + 1].field = k
        /\ GoesOn(here, k)
        /\ Before(rbitPos + 1, e, last) = Advanced(here, buffer[rbitPos + 1])
    BY <1>2, <1>3, <2>1 DEF Traced
  <2>3. here = [mask |-> rounds[rbitPos + 1].mask, tmp |-> rounds[rbitPos + 1].tmp]
    BY <1>3, <1>7 DEF Before
  <2>4. rounds[rbitPos + 1] \in [field : Nat, mask : Nat, tmp : Nat]
    BY <2>1, ElementOfSeq DEF CodecInv, WriterInv, WriterTypes
  <2>5. rounds[rbitPos + 1] = [field |-> k, mask |-> rmask, tmp |-> rvalue]
    BY <1>4, <2>2, <2>3, <2>4
  <2>6. Advanced(here, buffer[rbitPos + 1])
            = [mask |-> 2 * rmask, tmp |-> rvalue + buffer[rbitPos + 1] * rmask]
    BY <1>4 DEF Advanced
  <2> QED BY <1>3, <1>5, <1>6, <1>7, <2>1, <2>2, <2>5, <2>6 DEF s, e, last
<1>8. CASE ~(rbitPos < e)
  <2>1. rbitPos = e
    BY <1>1, <1>3, <1>6, <1>8
  <2>2. here = last
    BY <1>3, <1>8 DEF Before
  <2>3. ~Continues(rvalue, rmask, fields[k].max)
    BY <1>2, <1>5, <2>2
  <2> QED BY <1>3, <1>6, <1>8, <2>2, <2>3 DEF s, e, last, here
<1> QED BY <1>7, <1>8

LEMMA ReadBitKeeps ==
    ASSUME CodecInv, rindex <= Len(fields), ReadBit(fields[rindex].max)
    PROVE  ReaderInv'
<1>1. PICK k : k = rindex
  OBVIOUS
<1>2. /\ phase = "read" /\ phase' = phase
      /\ Continues(rvalue, rmask, fields[k].max)
      /\ rvalue' = rvalue + buffer[rbitPos + 1] * rmask
      /\ rmask' = 2 * rmask
      /\ rbitPos' = rbitPos + 1
      /\ UNCHANGED <<fields, index, starts, written, rounds, buffer, rindex, got>>
  BY <1>1 DEF ReadBit, writeVars
<1>3. /\ starts[k] \in 0 .. starts[k + 1] /\ starts[k + 1] \in 0 .. bitPos
      /\ rbitPos \in starts[k] .. starts[k + 1]
      /\ rbitPos < starts[k + 1]
      /\ [mask |-> rmask', tmp |-> rvalue'] = Before(rbitPos + 1, starts[k + 1], written[k])
  BY <1>1, <1>2, ReaderFollows
<1>4. rbitPos' \in starts'[k] .. starts'[k + 1] /\ bitPos \in Nat /\ rbitPos' \in Nat
  BY <1>2, <1>3, WrittenAndRead
<1>5. ReaderAt(k)'
  BY <1>2, <1>3, <1>4 DEF ReaderAt, Before
<1>6. ReaderAt(rindex)'
  BY <1>1, <1>2, <1>5 DEF ReaderAt, Before
<1>7. rmask' \in Nat \ {0} /\ rvalue' \in Nat
  <2>1. rmask \in Nat \ {0} /\ rvalue \in Nat
    BY DEF CodecInv, ReaderInv
  <2>a. bitPos \in Nat /\ Len(buffer) = bitPos
    BY <1>2, WrittenAndRead
  <2>b. rbitPos + 1 \in 1 .. bitPos
    BY <1>3, <2>a
  <2>2. rbitPos + 1 \in 1 .. Len(buffer) /\ buffer \in Seq({0, 1})
    BY <2>a, <2>b DEF CodecInv, WriterInv, WriterTypes
  <2>3. buffer[rbitPos + 1] \in {0, 1}
    BY <2>2, ElementOfSeq
  <2>4. buffer[rbitPos + 1] * rmask \in Nat
    BY <2>1, <2>3
  <2> QED BY <1>2, <2>1, <2>4
<1> QED BY <1>2, <1>4, <1>6, <1>7 DEF CodecInv, ReaderInv

LEMMA ReadNextKeeps ==
    ASSUME CodecInv, rindex <= Len(fields), ReadNext(fields[rindex].max)
    PROVE  ReaderInv'
<1>1. PICK k \in Nat : k = rindex
  BY WrittenAndRead DEF ReadNext
<1>2. /\ phase = "read" /\ phase' = phase
      /\ ~Continues(rvalue, rmask, fields[k].max)
      /\ got' = Append(got, rvalue)
      /\ rindex' = k + 1 /\ rmask' = 1 /\ rvalue' = 0
      /\ UNCHANGED <<fields, index, starts, written, rounds, buffer, rbitPos>>
  BY <1>1 DEF ReadNext, writeVars
<1>3. /\ starts[k] \in 0 .. starts[k + 1] /\ starts[k + 1] \in 0 .. bitPos /\ bitPos \in Nat
      /\ rbitPos \in starts[k] .. starts[k + 1]
      /\ ~(rbitPos < starts[k + 1])
      /\ rbitPos = starts[k + 1] => written[k] = [mask |-> rmask, tmp |-> rvalue]
  BY <1>1, <1>2, ReaderFollows, WrittenAndRead
<1>4. rbitPos = starts[k + 1] /\ rvalue = written[k].tmp
  <2>1. rbitPos = starts[k + 1]
    BY <1>3
  <2> QED BY <1>3, <2>1
<1>5. /\ rmask \in Nat \ {0} /\ rvalue \in Nat /\ rbitPos \in Nat /\ got \in Seq(Nat)
      /\ index = Len(fields) + 1 /\ k \in 1 .. Len(fields) + 1 /\ Len(got) < k
      /\ \A j \in 1 .. Len(got) : got[j] = written[k - Len(got) + j - 1].tmp
  BY <1>1, <1>2 DEF CodecInv, ReaderInv
<1>6. PICK n \in Nat : n = Len(got)
  BY <1>5, LenProperties
<1>7. /\ got' \in Seq(Nat) /\ Len(got') = n + 1
      /\ \A j \in 1 .. n : got'[j] = got[j]
      /\ got'[n + 1] = rvalue
  BY <1>2, <1>5, <1>6, AppendProperties
<1>8. \A j \in 1 .. n + 1 : got'[j] = written[(k + 1) - (n + 1) + j - 1].tmp
  <2> TAKE j \in 1 .. n + 1
  <2>1. CASE j = n + 1
    <3>1. (k + 1) - (n + 1) + j - 1 = k
      BY <2>1
    <3> QED BY <1>4, <1>7, <2>1, <3>1
  <2>2. CASE j # n + 1
    <3>1. j \in 1 .. n /\ (k + 1) - (n + 1) + j - 1 = k - n + j - 1
      BY <2>2
    <3> QED BY <1>5, <1>6, <1>7, <3>1
  <2> QED BY <2>1, <2>2
<1>9. Len(fields) \in Nat /\ k + 1 \in 1 .. Len(fields) + 1
  BY <1>1, <1>2, WrittenAndRead
<1>10. ASSUME k + 1 <= Len(fields) PROVE ReaderAt(rindex)'
  <2>1. Finished(k + 1)
    BY <1>2, <1>9, <1>10, WrittenAndRead
  <2>2. /\ starts[k + 1] \in 0 .. starts[(k + 1) + 1] /\ starts[(k + 1) + 1] \in 0 .. bitPos
        /\ Before(starts[k + 1], starts[(k + 1) + 1], written[k + 1]) = Start
    BY <2>1, FieldsStart
  <2>3. rbitPos \in starts[k + 1] .. starts[(k + 1) + 1]
    BY <1>3, <1>4, <2>2
  <2>4. [mask |-> rmask', tmp |-> rvalue'] = Start
    BY <1>2 DEF Start
  <2>5. Before(rbitPos, starts[(k + 1) + 1], written[k + 1]) = Start
    BY <1>4, <2>2
  <2> QED BY <1>2, <2>3, <2>4, <2>5 DEF ReaderAt, Before
<1>11. Len(got') < rindex'
  BY <1>2, <1>5, <1>6, <1>7
<1>12. \A j \in 1 .. Len(got') : got'[j] = written'[rindex' - Len(got') + j - 1].tmp
  BY <1>2, <1>7, <1>8
<1>13. rindex' \in 1 .. Len(fields') + 1 /\ index' = Len(fields') + 1
  BY <1>2, <1>5, <1>9
<1>14. rmask' \in Nat \ {0} /\ rvalue' \in Nat /\ rbitPos' \in Nat
  BY <1>2, <1>5
<1> QED BY <1>2, <1>7, <1>10, <1>11, <1>12, <1>13, <1>14 DEF ReaderInv

(* While the writer works nothing of the reader changes.                   *)
LEMMA ReaderWaits ==
    ASSUME CodecInv, phase = "write", phase' \in {"write", "cut"}, UNCHANGED readVars
    PROVE  ReaderInv'
BY DEF CodecInv, ReaderInv, ReaderRests, readVars

LEMMA StepKeepsCodec == CodecInv /\ [CodecNext]_codecVars => CodecInv'
<1> SUFFICES ASSUME CodecInv, [CodecNext]_codecVars PROVE CodecInv'
  OBVIOUS
<1>0. WriterInv /\ ReaderInv
  BY DEF CodecInv
<1>1. CASE WriteBit
  <2>1. phase = "write" /\ phase' = phase /\ UNCHANGED readVars
    BY <1>1 DEF WriteBit
  <2> QED BY <1>0, <1>1, <2>1, WriteBitKeeps, ReaderWaits DEF CodecInv
<1>2. CASE WriteCut
  <2>1. phase = "write" /\ phase' = "cut" /\ UNCHANGED readVars /\ UNCHANGED writeVars
    BY <1>2 DEF WriteCut
  <2> QED BY <1>0, <2>1, WriterRests, ReaderWaits DEF CodecInv
<1>3. CASE WriteNext
  <2>1. phase = "write" /\ phase' = phase /\ UNCHANGED readVars
    BY <1>3 DEF WriteNext
  <2> QED BY <1>0, <1>3, <2>1, WriteNextKeeps, ReaderWaits DEF CodecInv
<1>4. CASE \E first \in 1 .. Len(fields) : BeginReading(first, starts[first])
  <2>1. phase' = "read" /\ UNCHANGED writeVars
    BY <1>4 DEF BeginReading
  <2>2. ReaderInv'
    BY <1>4, BeginReadingKeeps
  <2> QED BY <1>0, <2>1, <2>2, WriterRests DEF CodecInv
<1>5. CASE rindex <= Len(fields) /\ ReadBit(fields[rindex].max)
  <2>1. phase = "read" /\ phase' = phase /\ UNCHANGED writeVars
    BY <1>5 DEF ReadBit
  <2> QED BY <1>0, <1>5, <2>1, WriterRests, ReadBitKeeps DEF CodecInv
<1>6. CASE rindex <= Len(fields) /\ ReadNext(fields[rindex].max)
  <2>1. phase = "read" /\ phase' = phase /\ UNCHANGED writeVars
    BY <1>6 DEF ReadNext
  <2> QED BY <1>0, <1>6, <2>1, WriterRests, ReadNextKeeps DEF CodecInv
<1>7. CASE EndReading
  <2>1. phase = "read" /\ phase' = "done" /\ UNCHANGED writeVars /\ UNCHANGED readVars
    BY <1>7 DEF EndReading
  <2>2. ReaderInv'
    BY <1>0, <2>1 DEF ReaderInv, writeVars, readVars
  <2> QED BY <1>0, <2>1, <2>2, WriterRests DEF CodecInv
<1>8. CASE UNCHANGED codecVars
  <2>1. phase' = phase /\ UNCHANGED writeVars /\ UNCHANGED readVars
    BY <1>8 DEF codecVars
  <2>2. phase' \in {"write", "cut", "read", "done"}
    BY <1>0, <2>1 DEF WriterInv, WriterTypes
  <2>3. ReaderInv'
    BY <1>0, <2>1 DEF ReaderInv, ReaderRests, ReaderAt, Before, writeVars, readVars
  <2> QED BY <1>0, <2>1, <2>2, <2>3, WriterRests DEF CodecInv
<1> QED BY <1>1, <1>2, <1>3, <1>4, <1>5, <1>6, <1>7, <1>8 DEF CodecNext

THEOREM CodecInvariant == CodecSpec => []CodecInv
<1>1. CodecInit => CodecInv
  BY InitCodec
<1>2. CodecInv /\ [CodecNext]_codecVars => CodecInv'
  BY StepKeepsCodec
<1> QED BY <1>1, <1>2, PTL DEF CodecSpec


(* What NetBitReader::DeserializeInt reads with the ranges of the writer,  *)
(* it reads as NetBitWriter::SerializeInt wrote it, bit by bit.            *)
THEOREM ReaderStaysInStep == CodecSpec => []ReaderInStep
<1>1. CodecInv => ReaderInStep
  <2> SUFFICES ASSUME CodecInv, phase = "read", rindex <= Len(fields)
               PROVE  /\ starts[rindex] <= rbitPos /\ rbitPos <= starts[rindex + 1]
                      /\ rbitPos < starts[rindex + 1] =>
                            rounds[rbitPos + 1] = [field |-> rindex, mask |-> rmask, tmp |-> rvalue]
                      /\ rbitPos = starts[rindex + 1] =>
                            written[rindex] = [mask |-> rmask, tmp |-> rvalue]
    BY DEF ReaderInStep
  <2> QED BY ReaderFollows
<1> QED BY <1>1, CodecInvariant, PTL

(* Values within their range survive, and none leaves its range.           *)
THEOREM ValuesAlwaysSurvive == CodecSpec => []ValuesSurvive
<1>1. CodecInv => ValuesSurvive
  <2> SUFFICES ASSUME CodecInv, phase \in {"read", "done"}, NEW k \in 1 .. Len(got)
               PROVE  LET f == fields[rindex - Len(got) + k - 1]
                      IN  /\ f.value < f.max => got[k] = f.value
                          /\ f.max > 0 => got[k] < f.max
    BY DEF ValuesSurvive
  <2>1. PICK j \in Int : j = rindex - Len(got) + k - 1
    BY LenProperties DEF CodecInv, ReaderInv
  <2>2. /\ index = Len(fields) + 1 /\ rindex \in 1 .. Len(fields) + 1
        /\ Len(got) < rindex /\ got[k] = written[j].tmp /\ Len(got) \in Nat
    BY <2>1, LenProperties DEF CodecInv, ReaderInv
  <2>3. Len(fields) \in Nat /\ fields \in Seq(Field)
    BY LenProperties DEF CodecInv, WriterInv, WriterTypes
  <2>4. j \in 1 .. Len(fields) /\ j \in 1 .. index - 1
    BY <2>1, <2>2, <2>3
  <2>5. Holds(written[j], j) /\ ~GoesOn(written[j], j)
    BY <2>4 DEF CodecInv, WriterInv, Finished
  <2>6. fields[j].value \in 0 .. Word - 1 /\ fields[j].max \in Nat
    BY <2>3, <2>4, FieldHasType
  <2>7. /\ written[j].mask \in Nat \ {0}
        /\ written[j].tmp = fields[j].value % written[j].mask
        /\ fields[j].max > 0 => written[j].tmp < fields[j].max
        /\ ~Continues(written[j].tmp, written[j].mask, fields[j].max)
    BY <2>5 DEF Holds, LoopState, GoesOn
  <2>8. fields[j].value < fields[j].max => written[j].tmp = fields[j].value
    BY <2>6, <2>7, WholeValue
  <2> QED BY <2>1, <2>2, <2>7, <2>8
<1> QED BY <1>1, CodecInvariant, PTL

(* The size in bytes covers the bits and is that of a packet at most.      *)
LEMMA BytesCoverBits ==
    ASSUME NEW n \in Nat, NEW b \in Nat \ {0}, NEW m \in Nat, n <= m * b
    PROVE  LET size == (n + b - 1) \div b
           IN  n <= size * b /\ size <= m
<1> DEFINE size == (n + b - 1) \div b
           r == (n + b - 1) % b
<1>0. n + b - 1 \in Nat
  OBVIOUS
<1>1. size \in Nat /\ r \in 0 .. b - 1 /\ n + b - 1 = b * size + r
  BY <1>0, DivisionOfNats
<1> HIDE DEF size, r
<1>2. n <= b * size
  BY <1>1
<1>3. size <= m
  <2> SUFFICES ASSUME size >= m + 1 PROVE FALSE
    BY <1>1
  <2>1. b * size >= b * (m + 1)
    BY <1>1
  <2>2. b * (m + 1) = m * b + b
    OBVIOUS
  <2>3. b * size \in Nat /\ m * b \in Nat
    BY <1>1
  <2> QED BY <1>1, <2>1, <2>2, <2>3
<1>4. b * size = size * b
  BY <1>1
<1> QED BY <1>2, <1>3, <1>4 DEF size

(* A reader with the ranges of the writer never asks for a bit that the    *)
(* packet does not have, whose size is that of all its bits.               *)
THEOREM ReaderStaysInside == CodecSpec => []ReadsStayInside
<1>1. CodecInv => ReadsStayInside
  <2> SUFFICES ASSUME CodecInv, phase = "read", rindex <= Len(fields)
               PROVE  /\ Continues(rvalue, rmask, fields[rindex].max) => rbitPos < Len(buffer)
                      /\ Len(buffer) <= GetByteSize * ByteBits
                      /\ GetByteSize <= MAX_PACKET_SIZE
    BY DEF ReadsStayInside
  <2>1. bitPos \in Nat /\ Len(buffer) = bitPos
    BY WrittenAndRead
  <2>2. /\ starts[rindex + 1] \in 0 .. bitPos
        /\ rbitPos \in starts[rindex] .. starts[rindex + 1]
        /\ starts[rindex] \in 0 .. starts[rindex + 1]
        /\ Continues(rvalue, rmask, fields[rindex].max) => rbitPos < starts[rindex + 1]
    BY ReaderFollows
  <2>3. Continues(rvalue, rmask, fields[rindex].max) => rbitPos < Len(buffer)
    BY <2>1, <2>2
  <2>4. bitPos <= MAX_PACKET_SIZE * ByteBits
    BY <2>1, BufferAssumption DEF CodecInv, WriterInv, WriterTypes
  <2>5. Len(buffer) <= GetByteSize * ByteBits /\ GetByteSize <= MAX_PACKET_SIZE
    BY <2>1, <2>4, BufferAssumption, BytesCoverBits DEF GetByteSize
  <2> QED BY <2>3, <2>5
<1> QED BY <1>1, CodecInvariant, PTL

-----------------------------------------------------------------------------
(* The packets.  What a handler has not read yet is a sequence of fields;  *)
(* for each place in a handler the set of those that it reads to the end.  *)

PartNames == {"size", "type", "nameSize", "char", "port", "matchId", "playerId", "addr",
              "playerNum", "myId", "time", "tick", "down", "held", "end"}

AnyField == [part : PartNames, value : Nat, max : Nat]

Fields == Seq(AnyField)

(* A field in front of a rest.                                             *)
Then(F, L) == {Cons(f, q) : f \in F, q \in L}

Nothing == {<<>>}

(* Whoever names a part names its range.                                   *)
RangeOf(part) ==
    CASE part \in {"matchId", "nameSize", "port"} -> U16
      [] part \in {"playerNum", "playerId", "char", "myId"} -> U8
      [] part \in {"addr", "time", "tick"} -> U32
      [] OTHER -> IntentCount

One(part) == {f \in AnyField : f.part = part /\ f.max = RangeOf(part)}

(* A number that is read as it was written.                                *)
Exactly(part, n) == {f \in One(part) : f.value = n /\ f.value < f.max}

Chars(n) == {s \in Fields : Len(s) = n /\ \A i \in 1 .. n : s[i] \in One("char")}

CharsAnd(n, L) == {Joined(cs, q) : cs \in Chars(n), q \in L}

NameAnd(L) == UNION {Then(Exactly("nameSize", n), CharsAnd(n, L)) : n \in Nat}

(* One player of a MATCH_INTRO, and n of them before the id of the player  *)
(* that it is for.                                                         *)
OnePlayer(L) == Then(One("playerId"), NameAnd(Then(One("addr"), Then(One("port"), L))))

MyId == Then(One("myId"), Nothing)

Players(n) == {Joined(FlattenSeq(ps), q) : ps \in [1 .. n -> OnePlayer(Nothing)], q \in MyId}

AfterText(p) ==
    IF p.kind = "MATCH_INTRO" THEN Then(One("addr"), Then(One("port"), Players(p.players - 1)))
    ELSE Then(One("port"), Nothing)

Body(kind) ==
    CASE kind = "MATCH_REQUEST" -> NameAnd(Then(One("port"), Nothing))
      [] kind \in {"MATCH_CANCEL", "MATCH_INTRO_SUCCESS", "MATCH_INTRO_FAILED"} ->
            Then(One("matchId"), Nothing)
      [] kind = "MATCH_INTRO" ->
            Then(One("matchId"), UNION {Then(Exactly("playerNum", n), Players(n)) : n \in Nat})
      [] kind \in {"TIME_SYNC_RES", "MATCH_START"} -> Then(One("time"), Nothing)
      [] kind = "INPUT" -> Then(One("tick"), Then(One("down"), Then(One("held"), Nothing)))
      [] OTHER -> Nothing

(* The field with the type of the n-th kind.                               *)
TypeField(transport, n) ==
    {f \in AnyField : f.part = "type" /\ f.max = TypeCount(transport) /\ f.value = n}

Typed(transport) ==
    UNION {Then(TypeField(transport, n), Body(Types(transport)[n + 1])) :
             n \in 0 .. Len(Types(transport)) - 1}

(* What the handler can read from where it is.                             *)
Expected(p) ==
    CASE p.part = "type" -> Typed(p.transport)
      [] p.part = "nameSize" -> NameAnd(AfterText(p))
      [] p.part = "char" -> CharsAnd(p.chars, AfterText(p))
      [] p.part = "matchId" ->
            IF p.kind = "MATCH_INTRO" THEN Body("MATCH_INTRO") ELSE Then(One("matchId"), Nothing)
      [] p.part = "playerNum" -> UNION {Then(Exactly("playerNum", n), Players(n)) : n \in Nat}
      [] p.part = "playerId" -> OnePlayer(Players(p.players - 1))
      [] p.part = "addr" -> AfterText(p)
      [] p.part = "port" ->
            Then(One("port"), IF p.kind = "MATCH_INTRO" THEN Players(p.players - 1) ELSE Nothing)
      [] p.part = "myId" -> MyId
      [] p.part = "time" -> Then(One("time"), Nothing)
      [] p.part = "tick" -> Body("INPUT")
      [] p.part = "down" -> Then(One("down"), Then(One("held"), Nothing))
      [] p.part = "held" -> Then(One("held"), Nothing)
      [] p.part = "end" -> Nothing

IntroParts == {"matchId", "playerNum", "playerId", "nameSize", "char", "addr", "port", "myId"}

OtherParts == {"type", "nameSize", "char", "port", "matchId", "time", "tick", "down", "held"}

Kinds == {"", "MATCH_REQUEST", "MATCH_CANCEL", "MATCH_INTRO", "TIME_SYNC_REQ", "TIME_SYNC_RES",
          "MATCH_INTRO_SUCCESS", "MATCH_INTRO_FAILED", "MATCH_START", "HELLO", "WELCOME", "INPUT"}

ParseType ==
    [transport : {"TCP", "UDP"}, kind : Kinds, part : PartNames, chars : Nat, players : Nat]

(* Where a handler can be.                                                 *)
ParseInv(p) ==
    /\ p \in ParseType
    /\ p.part \in IF p.kind = "MATCH_INTRO" THEN IntroParts \cup {"end"} ELSE OtherParts \cup {"end"}
    /\ p.part = "char" => p.chars > 0
    /\ p.kind = "MATCH_INTRO" /\ p.part \in {"playerId", "nameSize", "char", "addr", "port"} => p.players > 0

-----------------------------------------------------------------------------
(* Fields in front of others.                                              *)

LEMMA ConsIsSeq ==
    ASSUME NEW V, NEW f \in V, NEW q \in Seq(V)
    PROVE  /\ Cons(f, q) \in Seq(V) /\ Len(Cons(f, q)) = Len(q) + 1
           /\ Cons(f, q) # <<>> /\ Cons(f, q)[1] = f /\ Tail(Cons(f, q)) = q
<1> DEFINE r == Cons(f, q)
<1>1. <<f>> \in Seq(V) /\ Len(<<f>>) = 1 /\ <<f>>[1] = f /\ r = <<f>> \o q /\ Len(q) \in Nat
  BY LenProperties DEF Cons
<1> HIDE DEF r
<1>2. /\ r \in Seq(V) /\ Len(r) = Len(q) + 1
      /\ \A i \in 1 .. Len(q) + 1 : r[i] = IF i <= 1 THEN <<f>>[i] ELSE q[i - 1]
  BY <1>1, ConcatProperties
<1>3. r[1] = f
  BY <1>1, <1>2
<1>4. r # <<>>
  BY <1>1, <1>2
<1>5. Tail(r) = q
  <2>1. /\ Tail(r) \in Seq(V) /\ Len(Tail(r)) = Len(q)
        /\ \A i \in 1 .. Len(q) : Tail(r)[i] = r[i + 1]
    BY <1>1, <1>2, <1>4, HeadTailProperties
  <2>2. \A i \in 1 .. Len(q) : Tail(r)[i] = q[i]
    BY <1>1, <1>2, <2>1
  <2> DEFINE t == Tail(r)
  <2>3. t \in Seq(V) /\ Len(t) = Len(q) /\ \A i \in 1 .. Len(q) : t[i] = q[i]
    BY <2>1, <2>2
  <2> HIDE DEF t
  <2>4. t = q
    BY <2>3, SeqEqual
  <2> QED BY <2>4 DEF t
<1> QED BY <1>2, <1>3, <1>4, <1>5 DEF r

LEMMA ConsAssociative ==
    ASSUME NEW V, NEW f \in V, NEW q \in Seq(V), NEW r \in Seq(V)
    PROVE  Joined(Cons(f, q), r) = Cons(f, Joined(q, r))
<1>1. <<f>> \in Seq(V)
  OBVIOUS
<1>2. (<<f>> \o q) \o r = <<f>> \o (q \o r)
  BY <1>1, ConcatAssociative
<1> QED BY <1>2 DEF Cons, Joined

LEMMA ThenReads ==
    ASSUME NEW F \in SUBSET AnyField, NEW L \in SUBSET Fields, NEW r \in Then(F, L)
    PROVE  r \in Fields /\ r # <<>> /\ r[1] \in F /\ Tail(r) \in L
<1>1. PICK f \in F, q \in L : r = Cons(f, q)
  BY DEF Then
<1>2. f \in AnyField /\ q \in Seq(AnyField)
  BY DEF Fields
<1> QED BY <1>1, <1>2, ConsIsSeq DEF Fields

LEMMA NothingIsFields == Nothing \in SUBSET Fields
BY DEF Nothing, Fields

LEMMA ThenIsFields ==
    ASSUME NEW F \in SUBSET AnyField, NEW L \in SUBSET Fields
    PROVE  Then(F, L) \in SUBSET Fields
BY ThenReads

LEMMA OneIsField == \A part : One(part) \in SUBSET AnyField
BY DEF One

LEMMA ExactlyIsField == \A part, n : Exactly(part, n) \in SUBSET AnyField
BY OneIsField DEF Exactly

LEMMA CharsAndIsFields ==
    ASSUME NEW L \in SUBSET Fields, NEW n
    PROVE  CharsAnd(n, L) \in SUBSET Fields
<1> SUFFICES ASSUME NEW r \in CharsAnd(n, L) PROVE r \in Fields
  OBVIOUS
<1>1. PICK cs \in Chars(n), q \in L : r = Joined(cs, q)
  BY DEF CharsAnd
<1>2. cs \in Seq(AnyField) /\ q \in Seq(AnyField)
  BY DEF Chars, Fields
<1> QED BY <1>1, <1>2, ConcatProperties DEF Fields, Joined

(* A name is its length and as many characters.                            *)
LEMMA NameReads ==
    ASSUME NEW L \in SUBSET Fields, NEW r \in NameAnd(L)
    PROVE  /\ r \in Fields /\ r # <<>>
           /\ \E n \in Nat : r[1] \in Exactly("nameSize", n) /\ Tail(r) \in CharsAnd(n, L)
<1>1. PICK n \in Nat : r \in Then(Exactly("nameSize", n), CharsAnd(n, L))
  BY DEF NameAnd
<1> QED BY <1>1, ThenReads, ExactlyIsField, CharsAndIsFields

LEMMA NameAndIsFields ==
    ASSUME NEW L \in SUBSET Fields
    PROVE  NameAnd(L) \in SUBSET Fields
BY NameReads

LEMMA CharsEnd ==
    ASSUME NEW L \in SUBSET Fields, NEW r \in CharsAnd(0, L)
    PROVE  r \in L
<1>1. PICK cs \in Chars(0), q \in L : r = Joined(cs, q)
  BY DEF CharsAnd
<1>2. cs \in Seq(AnyField) /\ Len(cs) = 0 /\ q \in Seq(AnyField)
  BY DEF Chars, Fields
<1>3. cs = <<>>
  BY <1>2, EmptySeq
<1> QED BY <1>1, <1>2, <1>3, ConcatEmptySeq DEF Joined

LEMMA CharsRead ==
    ASSUME NEW L \in SUBSET Fields, NEW n \in Nat \ {0}, NEW r \in CharsAnd(n, L)
    PROVE  r \in Fields /\ r # <<>> /\ r[1] \in One("char") /\ Tail(r) \in CharsAnd(n - 1, L)
<1>1. PICK cs \in Chars(n), q \in L : r = Joined(cs, q)
  BY DEF CharsAnd
<1>2. cs \in Seq(AnyField) /\ Len(cs) = n /\ q \in Seq(AnyField) /\ \A i \in 1 .. n : cs[i] \in One("char")
  BY <1>1 DEF Chars, Fields
<1>3. cs # <<>> /\ 1 \in 1 .. n
  BY <1>2
<1> DEFINE c == cs[1]
           t == Tail(cs)
<1>4. c \in AnyField /\ c \in One("char")
  BY <1>2, <1>3, OneIsField
<1>5. t \in Seq(AnyField) /\ Len(t) = n - 1 /\ \A i \in 1 .. n - 1 : t[i] = cs[i + 1]
  BY <1>2, <1>3, HeadTailProperties
<1>6. t \in Chars(n - 1)
  <2> HIDE DEF t
  <2>1. \A i \in 1 .. n - 1 : i + 1 \in 1 .. n
    OBVIOUS
  <2>2. \A i \in 1 .. n - 1 : t[i] \in One("char")
    BY <1>2, <1>5, <2>1
  <2> QED BY <1>5, <2>2 DEF Chars, Fields
<1>7. cs = Cons(c, t)
  <2>1. Head(cs) = c
    BY <1>2, <1>3
  <2>2. cs = <<Head(cs)>> \o Tail(cs)
    BY <1>2, <1>3
  <2> QED BY <2>1, <2>2 DEF Cons
<1> HIDE DEF c, t
<1>8. r = Cons(c, Joined(t, q))
  BY <1>1, <1>2, <1>4, <1>5, <1>7, ConsAssociative
<1>9. Joined(t, q) \in CharsAnd(n - 1, L)
  BY <1>6 DEF CharsAnd
<1>10. Joined(t, q) \in Seq(AnyField)
  BY <1>2, <1>5, ConcatProperties DEF Joined
<1>11. /\ Cons(c, Joined(t, q)) \in Seq(AnyField) /\ Cons(c, Joined(t, q)) # <<>>
       /\ Cons(c, Joined(t, q))[1] = c /\ Tail(Cons(c, Joined(t, q))) = Joined(t, q)
  BY <1>4, <1>10, ConsIsSeq
<1> QED BY <1>4, <1>8, <1>9, <1>11 DEF Fields

(* A player in front of the rest of the players.                           *)
LEMMA TextIsFields ==
    ASSUME NEW L \in SUBSET Fields, NEW part
    PROVE  Then(One(part), L) \in SUBSET Fields
BY OneIsField, ThenIsFields

LEMMA OnePlayerIsFields ==
    ASSUME NEW L \in SUBSET Fields
    PROVE  /\ Then(One("addr"), Then(One("port"), L)) \in SUBSET Fields
           /\ NameAnd(Then(One("addr"), Then(One("port"), L))) \in SUBSET Fields
           /\ OnePlayer(L) \in SUBSET Fields
<1>1. Then(One("port"), L) \in SUBSET Fields
  BY TextIsFields
<1>2. Then(One("addr"), Then(One("port"), L)) \in SUBSET Fields
  BY <1>1, TextIsFields
<1>3. NameAnd(Then(One("addr"), Then(One("port"), L))) \in SUBSET Fields
  BY <1>2, NameAndIsFields
<1>4. OnePlayer(L) \in SUBSET Fields
  BY <1>3, TextIsFields DEF OnePlayer
<1> QED BY <1>2, <1>3, <1>4

(* What goes before q: if s is one of L, s joined with q is one of M.      *)
Continued(L, M, q) == \A s \in L : Joined(s, q) \in M

LEMMA ThenContinued ==
    ASSUME NEW F \in SUBSET AnyField, NEW L \in SUBSET Fields, NEW M, NEW q \in Fields,
           Continued(L, M, q)
    PROVE  Continued(Then(F, L), Then(F, M), q)
<1> SUFFICES ASSUME NEW s \in Then(F, L) PROVE Joined(s, q) \in Then(F, M)
  BY DEF Continued
<1>1. PICK f \in F, t \in L : s = Cons(f, t)
  BY DEF Then
<1>2. f \in AnyField /\ t \in Seq(AnyField) /\ q \in Seq(AnyField)
  BY DEF Fields
<1>3. Joined(Cons(f, t), q) = Cons(f, Joined(t, q))
  BY <1>2, ConsAssociative
<1>4. Joined(t, q) \in M
  BY DEF Continued
<1> QED BY <1>1, <1>3, <1>4 DEF Then

LEMMA CharsContinued ==
    ASSUME NEW L \in SUBSET Fields, NEW M, NEW q \in Fields, Continued(L, M, q), NEW n
    PROVE  Continued(CharsAnd(n, L), CharsAnd(n, M), q)
<1> SUFFICES ASSUME NEW s \in CharsAnd(n, L) PROVE Joined(s, q) \in CharsAnd(n, M)
  BY DEF Continued
<1>1. PICK cs \in Chars(n), t \in L : s = Joined(cs, t)
  BY DEF CharsAnd
<1>2. cs \in Seq(AnyField) /\ t \in Seq(AnyField) /\ q \in Seq(AnyField)
  BY DEF Chars, Fields
<1>3. Joined(Joined(cs, t), q) = Joined(cs, Joined(t, q))
  BY <1>2, ConcatAssociative DEF Joined
<1>4. Joined(t, q) \in M
  BY DEF Continued
<1> QED BY <1>1, <1>3, <1>4 DEF CharsAnd

LEMMA NameContinued ==
    ASSUME NEW L \in SUBSET Fields, NEW M, NEW q \in Fields, Continued(L, M, q)
    PROVE  Continued(NameAnd(L), NameAnd(M), q)
<1> SUFFICES ASSUME NEW s \in NameAnd(L) PROVE Joined(s, q) \in NameAnd(M)
  BY DEF Continued
<1>1. PICK n \in Nat : s \in Then(Exactly("nameSize", n), CharsAnd(n, L))
  BY DEF NameAnd
<1>2. Continued(CharsAnd(n, L), CharsAnd(n, M), q)
  BY CharsContinued
<1>3. Continued(Then(Exactly("nameSize", n), CharsAnd(n, L)),
                Then(Exactly("nameSize", n), CharsAnd(n, M)), q)
  BY <1>2, ThenContinued, ExactlyIsField, CharsAndIsFields
<1>4. Joined(s, q) \in Then(Exactly("nameSize", n), CharsAnd(n, M))
  BY <1>1, <1>3 DEF Continued
<1> QED BY <1>4 DEF NameAnd

LEMMA PlayerJoins ==
    ASSUME NEW L \in SUBSET Fields, NEW q \in L, NEW s \in OnePlayer(Nothing)
    PROVE  Joined(s, q) \in OnePlayer(L)
<1>1. q \in Fields /\ q \in Seq(AnyField)
  BY DEF Fields
<1>2. Continued(Nothing, L, q)
  <2>1. Joined(<<>>, q) = q
    BY <1>1, ConcatEmptySeq DEF Joined
  <2> QED BY <2>1 DEF Continued, Nothing
<1>3. Continued(Then(One("port"), Nothing), Then(One("port"), L), q)
  BY <1>1, <1>2, ThenContinued, OneIsField, NothingIsFields
<1>4. Continued(Then(One("addr"), Then(One("port"), Nothing)), Then(One("addr"), Then(One("port"), L)), q)
  BY <1>1, <1>3, ThenContinued, OneIsField, NothingIsFields, TextIsFields
<1>5. Continued(NameAnd(Then(One("addr"), Then(One("port"), Nothing))),
                NameAnd(Then(One("addr"), Then(One("port"), L))), q)
  BY <1>1, <1>4, NameContinued, NothingIsFields, OnePlayerIsFields
<1>6. Continued(OnePlayer(Nothing), OnePlayer(L), q)
  BY <1>1, <1>5, ThenContinued, OneIsField, NothingIsFields, OnePlayerIsFields DEF OnePlayer
<1> QED BY <1>6 DEF Continued

LEMMA MyIdIsFields == MyId \in SUBSET Fields
BY TextIsFields, NothingIsFields DEF MyId

LEMMA PlayersAreFields ==
    ASSUME NEW n \in Nat
    PROVE  Players(n) \in SUBSET Fields
<1> SUFFICES ASSUME NEW r \in Players(n) PROVE r \in Fields
  OBVIOUS
<1>1. PICK ps \in [1 .. n -> OnePlayer(Nothing)], q \in MyId : r = Joined(FlattenSeq(ps), q)
  BY DEF Players
<1>2. OnePlayer(Nothing) \in SUBSET Seq(AnyField) /\ q \in Seq(AnyField)
  BY OnePlayerIsFields, NothingIsFields, MyIdIsFields DEF Fields
<1>3. ps \in Seq(Seq(AnyField))
  BY <1>2
<1>4. FlattenSeq(ps) \in Seq(AnyField)
  BY <1>3, FlattenIsSeq
<1> QED BY <1>1, <1>2, <1>4, ConcatProperties DEF Fields, Joined

LEMMA NoPlayersLeft == Players(0) \subseteq MyId
<1> SUFFICES ASSUME NEW r \in Players(0) PROVE r \in MyId
  OBVIOUS
<1>1. PICK ps \in [1 .. 0 -> OnePlayer(Nothing)], q \in MyId : r = Joined(FlattenSeq(ps), q)
  BY DEF Players
<1>2. ps = <<>>
  OBVIOUS
<1>3. q \in Seq(AnyField)
  BY MyIdIsFields DEF Fields
<1>4. Joined(<<>>, q) = q
  BY <1>3, ConcatEmptySeq DEF Joined
<1> QED BY <1>1, <1>2, <1>4, FlattenNothing, Zenon

LEMMA PlayersRead ==
    ASSUME NEW n \in Nat \ {0}
    PROVE  Players(n) \subseteq OnePlayer(Players(n - 1))
<1> SUFFICES ASSUME NEW r \in Players(n) PROVE r \in OnePlayer(Players(n - 1))
  OBVIOUS
<1>1. PICK ps \in [1 .. n -> OnePlayer(Nothing)], q \in MyId : r = Joined(FlattenSeq(ps), q)
  BY DEF Players
<1>2. OnePlayer(Nothing) \in SUBSET Seq(AnyField) /\ q \in Seq(AnyField)
  BY OnePlayerIsFields, NothingIsFields, MyIdIsFields DEF Fields
<1>3. ps \in Seq(OnePlayer(Nothing)) /\ Len(ps) = n /\ ps # <<>>
  <2>1. ps \in Seq(OnePlayer(Nothing)) /\ DOMAIN ps = 1 .. n
    OBVIOUS
  <2>2. Len(ps) = n
    BY <2>1, LenProperties
  <2> QED BY <2>1, <2>2
<1> DEFINE s == ps[1]
           t == Tail(ps)
<1>4. /\ t \in Seq(OnePlayer(Nothing)) /\ Len(t) = n - 1 /\ DOMAIN t = 1 .. n - 1
      /\ s \in OnePlayer(Nothing)
  BY <1>3, HeadTailProperties, LenProperties
<1>5. ps = <<s>> \o t
  <2>1. Head(ps) = s /\ ps = <<Head(ps)>> \o Tail(ps)
    BY <1>3
  <2> QED BY <2>1
<1> HIDE DEF s, t
<1>6. t \in [1 .. n - 1 -> OnePlayer(Nothing)]
  BY <1>4
<1>7. t \in Seq(Seq(AnyField)) /\ s \in Seq(AnyField)
  BY <1>2, <1>4, <1>6
<1>8. FlattenSeq(ps) = Joined(s, FlattenSeq(t)) /\ FlattenSeq(t) \in Seq(AnyField)
  BY <1>5, <1>7, FlattenCons, FlattenIsSeq, Zenon DEF Joined
<1>9. r = Joined(s, Joined(FlattenSeq(t), q))
  <2>1. Joined(Joined(s, FlattenSeq(t)), q) = Joined(s, Joined(FlattenSeq(t), q))
    BY <1>2, <1>7, <1>8, ConcatAssociative DEF Joined
  <2> QED BY <1>1, <1>8, <2>1
<1>10. Joined(FlattenSeq(t), q) \in Players(n - 1)
  BY <1>6 DEF Players
<1>11. Joined(s, Joined(FlattenSeq(t), q)) \in OnePlayer(Players(n - 1))
  <2>1. n - 1 \in Nat
    OBVIOUS
  <2> QED BY <2>1, <1>4, <1>10, PlayersAreFields, PlayerJoins
<1> QED BY <1>9, <1>11

-----------------------------------------------------------------------------
(* A handler that has before it what it expects asks for the range of the  *)
(* next field, takes it for what it is, and then expects the rest.         *)

(* v is what is read of the first field of r.                              *)
ReadAs(v, r) == v \in Nat /\ (r[1].value < r[1].max => v = r[1].value)

Reads(p, r) ==
    /\ r # <<>> /\ r[1].part = p.part /\ r[1].max = MaxOf(p)
    /\ \A v : ReadAs(v, r) => ParseInv(After(p, v)) /\ Tail(r) \in Expected(After(p, v))

LEMMA GoesTo ==
    ASSUME NEW p \in ParseType, NEW part \in PartNames, NEW q, q = [p EXCEPT !.part = part]
    PROVE  /\ q \in ParseType /\ q.part = part
           /\ q.kind = p.kind /\ q.players = p.players /\ q.chars = p.chars
BY DEF ParseType

LEMMA RangesAgree ==
    ASSUME NEW p, p.part \in IntroParts \cup OtherParts, p.part # "type"
    PROVE  MaxOf(p) = RangeOf(p.part)
BY DEF MaxOf, RangeOf, IntroParts, OtherParts

LEMMA OneHas ==
    ASSUME NEW p, p.part \in IntroParts \cup OtherParts, p.part # "type", NEW f \in One(p.part)
    PROVE  f.part = p.part /\ f.max = MaxOf(p)
BY RangesAgree DEF One

(* The last integer of a handler.                                          *)
LEMMA LastRead ==
    ASSUME NEW p, ParseInv(p), NEW r \in Then(One(p.part), Nothing),
           \/ p.part \in {"myId", "time", "held"}
           \/ p.kind # "MATCH_INTRO" /\ p.part \in {"matchId", "port"}
    PROVE  Reads(p, r)
<1>1. r # <<>> /\ r[1] \in One(p.part) /\ Tail(r) \in Nothing
  BY ThenReads, OneIsField, NothingIsFields
<1>2. p.part \in IntroParts \cup OtherParts /\ p.part # "type"
  BY DEF IntroParts, OtherParts
<1>3. ASSUME NEW v PROVE ParseInv(After(p, v)) /\ Expected(After(p, v)) = Nothing
  <2>1. After(p, v) = [p EXCEPT !.part = "end"]
    <3>1. CASE p.kind = "MATCH_INTRO"
      <4>1. p.part = "myId"
        BY <3>1 DEF ParseInv, IntroParts
      <4> QED BY <3>1, <4>1 DEF After, ReadIntro
    <3>2. CASE p.kind # "MATCH_INTRO"
      <4>1. p.part \in {"time", "held", "matchId", "port"}
        BY <3>2 DEF ParseInv, OtherParts
      <4>2. CASE p.part = "time"
        BY <3>2, <4>2 DEF After, ReadTime
      <4>3. CASE p.part = "held"
        BY <3>2, <4>3 DEF After, Deserialize
      <4>4. CASE p.part \in {"matchId", "port"}
        BY <3>2, <4>4 DEF After, ReadRequest
      <4> QED BY <4>1, <4>2, <4>3, <4>4
    <3> QED BY <3>1, <3>2
  <2> DEFINE q == [p EXCEPT !.part = "end"]
  <2>2. /\ q \in ParseType
        /\ q.part = "end"
    BY GoesTo DEF ParseInv, PartNames
  <2> HIDE DEF q
  <2>3. ParseInv(q)
    BY <2>2 DEF ParseInv
  <2>4. Expected(q) = Nothing
    BY <2>2 DEF Expected
  <2> QED BY <2>1, <2>3, <2>4 DEF q
<1> QED BY <1>1, <1>2, <1>3, OneHas DEF Reads

LEMMA InputRead ==
    ASSUME NEW p, ParseInv(p), p.part \in {"tick", "down"}, NEW r \in Expected(p)
    PROVE  Reads(p, r)
<1>1. p.kind # "MATCH_INTRO" /\ p.part \in IntroParts \cup OtherParts /\ p.part # "type"
  BY DEF ParseInv, IntroParts, OtherParts
<1> DEFINE next == IF p.part = "tick" THEN "down" ELSE "held"
           L == IF p.part = "tick" THEN Then(One("down"), Then(One("held"), Nothing))
                ELSE Then(One("held"), Nothing)
<1>2. r \in Then(One(p.part), L)
  BY DEF Expected, Body
<1>3. L \in SUBSET Fields
  BY TextIsFields, NothingIsFields
<1>4. r # <<>> /\ r[1] \in One(p.part) /\ Tail(r) \in L
  <2> HIDE DEF L
  <2> QED BY <1>2, <1>3, ThenReads, OneIsField
<1>5. ASSUME NEW v PROVE ParseInv(After(p, v)) /\ Expected(After(p, v)) = L
  <2>1. After(p, v) = [p EXCEPT !.part = next]
    BY <1>1 DEF After, Deserialize
  <2> DEFINE q == [p EXCEPT !.part = next]
  <2>2. /\ q \in ParseType
        /\ q.part = next /\ q.kind # "MATCH_INTRO"
    <3>1. next \in PartNames /\ p \in ParseType
      BY DEF ParseInv, PartNames
    <3> QED BY <1>1, <3>1, GoesTo
  <2> HIDE DEF q
  <2>3. ParseInv(q)
    BY <2>2 DEF ParseInv, OtherParts
  <2>4. Expected(q) = L
    BY <2>2 DEF Expected
  <2> QED BY <2>1, <2>3, <2>4 DEF q
<1> HIDE DEF L
<1> QED BY <1>1, <1>4, <1>5, OneHas DEF Reads

(* The parts of a MATCH_INTRO that are there once per player, and its id.  *)
LEMMA IntroRead ==
    ASSUME NEW p, ParseInv(p), p.kind = "MATCH_INTRO",
           p.part \in {"matchId", "playerId", "addr"}, NEW r \in Expected(p)
    PROVE  Reads(p, r)
<1> DEFINE next == CASE p.part = "matchId" -> "playerNum"
                     [] p.part = "playerId" -> "nameSize"
                     [] p.part = "addr" -> "port"
           n == p.players - 1
           L == CASE p.part = "matchId" -> UNION {Then(Exactly("playerNum", k), Players(k)) : k \in Nat}
                  [] p.part = "playerId" -> NameAnd(Then(One("addr"), Then(One("port"), Players(n))))
                  [] p.part = "addr" -> Then(One("port"), Players(n))
<1>1. p.part \in IntroParts \cup OtherParts /\ p.part # "type" /\ (p.part # "matchId" => n \in Nat)
  BY DEF ParseInv, ParseType, IntroParts, OtherParts
<1>2. r \in Then(One(p.part), L)
  <2>1. CASE p.part = "matchId"
    BY <2>1 DEF Expected, Body
  <2>2. CASE p.part = "playerId"
    BY <2>2 DEF Expected, OnePlayer
  <2>3. CASE p.part = "addr"
    BY <2>3 DEF Expected, AfterText
  <2> QED BY <2>1, <2>2, <2>3
<1>3. L \in SUBSET Fields
  <2>1. CASE p.part = "matchId"
    BY <2>1, ThenIsFields, ExactlyIsField, PlayersAreFields
  <2>2. CASE p.part = "playerId"
    BY <1>1, <2>2, OnePlayerIsFields, PlayersAreFields
  <2>3. CASE p.part = "addr"
    BY <1>1, <2>3, TextIsFields, PlayersAreFields
  <2> QED BY <2>1, <2>2, <2>3
<1>4. r # <<>> /\ r[1] \in One(p.part) /\ Tail(r) \in L
  <2> HIDE DEF L
  <2> QED BY <1>2, <1>3, ThenReads, OneIsField
<1>5. ASSUME NEW v PROVE ParseInv(After(p, v)) /\ Expected(After(p, v)) = L
  <2>1. After(p, v) = [p EXCEPT !.part = next]
    BY DEF After, ReadIntro
  <2> DEFINE q == [p EXCEPT !.part = next]
  <2>2. /\ q \in ParseType
        /\ q.part = next /\ q.kind = "MATCH_INTRO" /\ q.players = p.players
        /\ p.part # "matchId" => q.players > 0
    <3>1. next \in PartNames /\ p \in ParseType /\ (p.part # "matchId" => p.players > 0)
      BY DEF ParseInv, PartNames
    <3> HIDE DEF next
    <3> QED BY <3>1, GoesTo
  <2> HIDE DEF q
  <2>3. ParseInv(q)
    BY <2>2 DEF ParseInv, IntroParts
  <2>4. Expected(q) = L
    <3>1. CASE p.part = "matchId"
      BY <2>2, <3>1 DEF Expected
    <3>2. CASE p.part = "playerId"
      BY <2>2, <3>2 DEF Expected, AfterText
    <3>3. CASE p.part = "addr"
      BY <2>2, <3>3 DEF Expected
    <3> QED BY <3>1, <3>2, <3>3
  <2> QED BY <2>1, <2>3, <2>4 DEF q
<1> HIDE DEF L
<1> QED BY <1>1, <1>4, <1>5, OneHas DEF Reads

(* Either the next player follows or the id of the one it is for.          *)
LEMMA PlayersExpected ==
    ASSUME NEW n \in Nat, NEW q, q \in ParseType, q.kind = "MATCH_INTRO", q.players = n,
           q.part = IF n > 0 THEN "playerId" ELSE "myId"
    PROVE  ParseInv(q) /\ Players(n) \subseteq Expected(q)
<1>1. CASE n > 0
  <2>1. ParseInv(q)
    BY <1>1 DEF ParseInv, IntroParts
  <2>2. Expected(q) = OnePlayer(Players(n - 1))
    BY <1>1 DEF Expected
  <2> QED BY <1>1, <2>1, <2>2, PlayersRead
<1>2. CASE n = 0
  <2>1. ParseInv(q)
    BY <1>2 DEF ParseInv, IntroParts
  <2>2. Expected(q) = MyId
    BY <1>2 DEF Expected
  <2> QED BY <1>2, <2>1, <2>2, NoPlayersLeft
<1> QED BY <1>1, <1>2

LEMMA PortRead ==
    ASSUME NEW p, ParseInv(p), p.kind = "MATCH_INTRO", p.part = "port", NEW r \in Expected(p)
    PROVE  Reads(p, r)
<1>1. PICK n \in Nat : n = p.players - 1
  BY DEF ParseInv, ParseType
<1>2. p \in ParseType /\ p.players \in Nat /\ p.part \in IntroParts
  BY DEF ParseInv, ParseType, IntroParts
<1>3. r \in Then(One("port"), Players(n))
  BY <1>1 DEF Expected
<1>4. r # <<>> /\ r[1] \in One(p.part) /\ Tail(r) \in Players(n)
  BY <1>3, ThenReads, OneIsField, PlayersAreFields
<1>5. ASSUME NEW v PROVE ParseInv(After(p, v)) /\ Players(n) \subseteq Expected(After(p, v))
  <2> DEFINE next == IF n > 0 THEN "playerId" ELSE "myId"
  <2>1. After(p, v) = [p EXCEPT !.players = n, !.part = next]
    <3>1. After(p, v) = ReadIntro(p, v)
      BY <1>2 DEF After
    <3>2. ReadIntro(p, v) = [p EXCEPT !.players = @ - 1,
                               !.part = IF p.players > 1 THEN "playerId" ELSE "myId"]
      BY DEF ReadIntro
    <3>3. n > 0 <=> p.players > 1
      BY <1>1, <1>2
    <3> QED BY <1>1, <3>1, <3>2, <3>3
  <2>2. PICK q : q = [p EXCEPT !.players = n, !.part = next]
    OBVIOUS
  <2>3. next \in PartNames
    BY DEF PartNames
  <2> HIDE DEF next
  <2>4. q \in ParseType /\ q.kind = "MATCH_INTRO" /\ q.players = n /\ q.part = next
    BY <1>2, <2>2, <2>3 DEF ParseType
  <2>5. ParseInv(q) /\ Players(n) \subseteq Expected(q)
    BY <2>4, PlayersExpected DEF next
  <2> QED BY <2>1, <2>2, <2>5
<1> QED BY <1>2, <1>4, <1>5, OneHas DEF Reads

LEMMA CountRead ==
    ASSUME NEW p, ParseInv(p), p.part = "playerNum", NEW r \in Expected(p)
    PROVE  Reads(p, r)
<1>1. p \in ParseType /\ p.kind = "MATCH_INTRO" /\ p.part \in IntroParts
  BY DEF ParseInv, IntroParts, OtherParts
<1>2. PICK n \in Nat : r \in Then(Exactly("playerNum", n), Players(n))
  BY DEF Expected
<1>3. r # <<>> /\ r[1] \in Exactly("playerNum", n) /\ Tail(r) \in Players(n)
  BY <1>2, ThenReads, ExactlyIsField, PlayersAreFields
<1>4. ASSUME NEW v, ReadAs(v, r)
      PROVE  ParseInv(After(p, v)) /\ Players(n) \subseteq Expected(After(p, v))
  <2>1. v = n
    BY <1>3, <1>4 DEF ReadAs, Exactly
  <2> DEFINE next == IF n > 0 THEN "playerId" ELSE "myId"
  <2>2. After(p, v) = [p EXCEPT !.players = n, !.part = next]
    BY <1>1, <2>1 DEF After, ReadIntro
  <2>3. PICK q : q = [p EXCEPT !.players = n, !.part = next]
    OBVIOUS
  <2>4. next \in PartNames
    BY DEF PartNames
  <2> HIDE DEF next
  <2>5. q \in ParseType /\ q.kind = "MATCH_INTRO" /\ q.players = n /\ q.part = next
    BY <1>1, <2>3, <2>4 DEF ParseType
  <2>6. ParseInv(q) /\ Players(n) \subseteq Expected(q)
    BY <2>5, PlayersExpected DEF next
  <2> QED BY <2>2, <2>3, <2>6
<1>5. r[1] \in One(p.part)
  BY <1>3 DEF Exactly
<1> QED BY <1>1, <1>3, <1>4, <1>5, OneHas DEF Reads

(* What follows a name does not depend on how far it is read.              *)
LEMMA AfterTextIsFields ==
    ASSUME NEW p, ParseInv(p), p.part \in {"nameSize", "char"}
    PROVE  AfterText(p) \in SUBSET Fields
<1>1. CASE p.kind = "MATCH_INTRO"
  <2>1. p.players - 1 \in Nat
    BY <1>1 DEF ParseInv, ParseType
  <2> QED BY <1>1, <2>1, TextIsFields, PlayersAreFields DEF AfterText
<1>2. CASE p.kind # "MATCH_INTRO"
  BY <1>2, TextIsFields, NothingIsFields DEF AfterText
<1> QED BY <1>1, <1>2

(* n characters of the name are left.                                      *)
TextLeft(p, n) == IF n > 0 THEN [p EXCEPT !.part = "char", !.chars = n] ELSE AfterName(p)

LEMMA TextExpected ==
    ASSUME NEW p, ParseInv(p), p.part \in {"nameSize", "char"}, NEW n \in Nat, NEW q,
           q = TextLeft(p, n)
    PROVE  ParseInv(q) /\ CharsAnd(n, AfterText(p)) \subseteq Expected(q)
<1>1. /\ p \in ParseType
      /\ p.kind = "MATCH_INTRO" => p.players > 0
      /\ {"char", "addr", "port"} \subseteq PartNames
  BY DEF ParseInv, PartNames
<1>2. CASE n > 0
  <2>1. PICK part \in PartNames : part = "char"
    BY <1>1
  <2>2. q = [p EXCEPT !.part = part, !.chars = n]
    BY <1>2, <2>1 DEF TextLeft
  <2>3. /\ q \in ParseType /\ q.part = part /\ q.chars = n
        /\ q.kind = p.kind /\ q.players = p.players
    BY <1>1, <2>2 DEF ParseType
  <2>4. ParseInv(q)
    BY <1>1, <1>2, <2>1, <2>3 DEF ParseInv, IntroParts, OtherParts
  <2>5. AfterText(q) = AfterText(p)
    BY <2>3 DEF AfterText
  <2>6. Expected(q) = CharsAnd(n, AfterText(p))
    BY <2>1, <2>3, <2>5 DEF Expected
  <2> QED BY <2>4, <2>6
<1>3. CASE n = 0
  <2>1. PICK part \in PartNames : part = IF p.kind = "MATCH_INTRO" THEN "addr" ELSE "port"
    BY <1>1
  <2>2. q = [p EXCEPT !.chars = n, !.part = part]
    BY <1>3, <2>1 DEF TextLeft, AfterName
  <2>3. /\ q \in ParseType /\ q.part = part
        /\ q.kind = p.kind /\ q.players = p.players
    BY <1>1, <2>2 DEF ParseType
  <2>4. ParseInv(q)
    BY <1>1, <2>1, <2>3 DEF ParseInv, IntroParts, OtherParts
  <2>5. AfterText(q) = AfterText(p)
    BY <2>3 DEF AfterText
  <2>6. Expected(q) = AfterText(p)
    <3>1. CASE p.kind = "MATCH_INTRO"
      BY <2>1, <2>3, <2>5, <3>1 DEF Expected
    <3>2. CASE p.kind # "MATCH_INTRO"
      BY <2>1, <2>3, <3>2 DEF Expected, AfterText
    <3> QED BY <3>1, <3>2
  <2>7. CharsAnd(0, AfterText(p)) \subseteq AfterText(p)
    BY AfterTextIsFields, CharsEnd
  <2> QED BY <1>3, <2>4, <2>6, <2>7
<1> QED BY <1>2, <1>3

LEMMA TextRead ==
    ASSUME NEW p, ParseInv(p), p.part \in {"nameSize", "char"}, NEW r \in Expected(p)
    PROVE  Reads(p, r)
<1>0. AfterText(p) \in SUBSET Fields
  BY AfterTextIsFields
<1>1. p.part \in IntroParts \cup OtherParts /\ p.part # "type" /\ p \in ParseType
  BY DEF ParseInv, IntroParts
<1>2. ASSUME NEW v PROVE After(p, v) = ReadName(p, v)
  BY DEF After, ReadIntro, ReadRequest
<1>3. CASE p.part = "nameSize"
  <2>1. PICK n \in Nat : r[1] \in Exactly("nameSize", n) /\ Tail(r) \in CharsAnd(n, AfterText(p))
    BY <1>0, <1>3, NameReads DEF Expected
  <2>2. r # <<>>
    BY <1>0, <1>3, NameReads DEF Expected
  <2>3. ASSUME NEW v, ReadAs(v, r)
        PROVE  ParseInv(After(p, v)) /\ Tail(r) \in Expected(After(p, v))
    <3>1. v = n
      BY <2>1, <2>3 DEF ReadAs, Exactly
    <3>2. After(p, v) = TextLeft(p, n)
      BY <1>2, <1>3, <3>1 DEF ReadName, TextLeft
    <3>3. ParseInv(After(p, v)) /\ CharsAnd(n, AfterText(p)) \subseteq Expected(After(p, v))
      BY <3>2, TextExpected
    <3> QED BY <2>1, <3>3
  <2>4. r[1] \in One(p.part)
    BY <1>3, <2>1 DEF Exactly
  <2> QED BY <1>1, <2>2, <2>3, <2>4, OneHas DEF Reads
<1>4. CASE p.part = "char"
  <2>1. PICK n \in Nat \ {0} : n = p.chars
    BY <1>1, <1>4 DEF ParseInv, ParseType
  <2>2. r # <<>> /\ r[1] \in One("char") /\ Tail(r) \in CharsAnd(n - 1, AfterText(p))
    BY <1>0, <1>4, <2>1, CharsRead DEF Expected
  <2>3. ASSUME NEW v PROVE ParseInv(After(p, v)) /\ Tail(r) \in Expected(After(p, v))
    <3>1. PICK m \in Nat : m = n - 1
      BY <2>1
    <3>2. After(p, v) = TextLeft(p, m)
      <4>1. CASE n > 1
        <5>1. After(p, v) = [p EXCEPT !.chars = m]
          BY <1>2, <1>4, <2>1, <3>1, <4>1 DEF ReadName
        <5>2. [p EXCEPT !.chars = m] = [p EXCEPT !.part = "char", !.chars = m]
          BY <1>1, <1>4 DEF ParseType
        <5> QED BY <3>1, <4>1, <5>1, <5>2 DEF TextLeft
      <4>2. CASE n = 1
        BY <1>2, <1>4, <2>1, <3>1, <4>2 DEF ReadName, TextLeft
      <4> QED BY <4>1, <4>2
    <3>3. ParseInv(After(p, v)) /\ CharsAnd(m, AfterText(p)) \subseteq Expected(After(p, v))
      BY <3>2, TextExpected
    <3> QED BY <2>2, <3>1, <3>3
  <2> QED BY <1>1, <1>4, <2>2, <2>3, OneHas DEF Reads
<1> QED BY <1>3, <1>4

(* A handler is chosen for each kind, and begins with the first integer of *)
(* its packets.                                                            *)
LEMMA HandlerExpects ==
    ASSUME NEW p \in ParseType, NEW kind \in Kinds, NEW q,
           q = [p EXCEPT !.kind = kind, !.part = Handler(kind)]
    PROVE  ParseInv(q) /\ Body(kind) \subseteq Expected(q)
<1>1. Handler(kind) \in {"nameSize", "matchId", "time", "tick", "end"}
  BY DEF Handler
<1>2. PICK part \in PartNames : part = Handler(kind)
  BY <1>1 DEF PartNames
<1>3. q \in ParseType /\ q.kind = kind /\ q.part = part
  BY <1>2 DEF ParseType
<1>4. CASE kind = "MATCH_REQUEST"
  <2>1. part = "nameSize"
    BY <1>2, <1>4 DEF Handler
  <2> QED BY <1>3, <1>4, <2>1 DEF ParseInv, OtherParts, Expected, Body, AfterText
<1>5. CASE kind \in {"MATCH_CANCEL", "MATCH_INTRO_SUCCESS", "MATCH_INTRO_FAILED"}
  <2>1. part = "matchId"
    BY <1>2, <1>5 DEF Handler
  <2> QED BY <1>3, <1>5, <2>1 DEF ParseInv, OtherParts, Expected, Body
<1>6. CASE kind = "MATCH_INTRO"
  <2>1. part = "matchId"
    BY <1>2, <1>6 DEF Handler
  <2> QED BY <1>3, <1>6, <2>1 DEF ParseInv, IntroParts, Expected, Body
<1>7. CASE kind \in {"TIME_SYNC_RES", "MATCH_START"}
  <2>1. part = "time"
    BY <1>2, <1>7 DEF Handler
  <2> QED BY <1>3, <1>7, <2>1 DEF ParseInv, OtherParts, Expected, Body
<1>8. CASE kind = "INPUT"
  <2>1. part = "tick"
    BY <1>2, <1>8 DEF Handler
  <2> QED BY <1>3, <1>8, <2>1 DEF ParseInv, OtherParts, Expected, Body
<1>9. CASE kind \in {"", "TIME_SYNC_REQ", "HELLO", "WELCOME"}
  <2>1. part = "end"
    BY <1>2, <1>9 DEF Handler
  <2>2. Expected(q) = Nothing
    BY <1>3, <2>1 DEF Expected
  <2>3. Body(kind) = Nothing
    BY <1>9 DEF Body
  <2>4. ParseInv(q)
    <3>1. q \in ParseType /\ q.part = "end"
      BY <1>3, <2>1
    <3> QED BY <3>1 DEF ParseInv
  <2> QED BY <2>2, <2>3, <2>4
<1> QED BY <1>4, <1>5, <1>6, <1>7, <1>8, <1>9 DEF Kinds

LEMMA BodyIsFields ==
    ASSUME NEW kind \in Kinds
    PROVE  Body(kind) \in SUBSET Fields
<1>1. Nothing \in SUBSET Fields
  BY NothingIsFields
<1>2. \A part : Then(One(part), Nothing) \in SUBSET Fields
  BY <1>1, TextIsFields
<1>3. CASE kind = "MATCH_REQUEST"
  BY <1>2, <1>3, NameAndIsFields DEF Body
<1>4. CASE kind \in {"MATCH_CANCEL", "MATCH_INTRO_SUCCESS", "MATCH_INTRO_FAILED",
                     "TIME_SYNC_RES", "MATCH_START"}
  BY <1>2, <1>4 DEF Body
<1>5. CASE kind = "MATCH_INTRO"
  <2> DEFINE L == UNION {Then(Exactly("playerNum", k), Players(k)) : k \in Nat}
  <2>1. L \in SUBSET Fields
    BY ThenIsFields, ExactlyIsField, PlayersAreFields
  <2>2. Body(kind) = Then(One("matchId"), L)
    BY <1>5 DEF Body
  <2> HIDE DEF L
  <2> QED BY <2>1, <2>2, TextIsFields
<1>6. CASE kind = "INPUT"
  <2>1. Then(One("down"), Then(One("held"), Nothing)) \in SUBSET Fields
    BY <1>2, TextIsFields
  <2> QED BY <1>6, <2>1, TextIsFields DEF Body
<1>7. CASE kind \in {"", "TIME_SYNC_REQ", "HELLO", "WELCOME"}
  BY <1>1, <1>7 DEF Body
<1> QED BY <1>3, <1>4, <1>5, <1>6, <1>7 DEF Kinds

(* The types have their numbers, which are below their count.              *)
LEMMA TypesAreKinds ==
    ASSUME NEW transport \in {"TCP", "UDP"}
    PROVE  /\ Len(Types(transport)) \in Nat /\ Len(Types(transport)) <= TypeCount(transport)
           /\ \A n \in 0 .. Len(Types(transport)) - 1 : Types(transport)[n + 1] \in Kinds
<1>1. Types("TCP") = TcpTypes /\ Types("UDP") = UdpTypes
  BY DEF Types
<1>2. TypeCount("TCP") = TcpCount /\ TypeCount("UDP") = UdpCount
  BY DEF TypeCount
<1>3. Len(TcpTypes) = 8 /\ Len(UdpTypes) = 3
  BY DEF TcpTypes, UdpTypes
<1>4. \A n \in 0 .. 7 : TcpTypes[n + 1] \in Kinds
  <2>1. /\ TcpTypes[1] \in Kinds /\ TcpTypes[2] \in Kinds /\ TcpTypes[3] \in Kinds
        /\ TcpTypes[4] \in Kinds /\ TcpTypes[5] \in Kinds /\ TcpTypes[6] \in Kinds
        /\ TcpTypes[7] \in Kinds /\ TcpTypes[8] \in Kinds
    BY DEF TcpTypes, Kinds
  <2> QED BY <2>1
<1>5. \A n \in 0 .. 2 : UdpTypes[n + 1] \in Kinds
  <2>1. UdpTypes[1] \in Kinds /\ UdpTypes[2] \in Kinds /\ UdpTypes[3] \in Kinds
    BY DEF UdpTypes, Kinds
  <2> QED BY <2>1
<1>6. 8 <= TcpCount /\ 3 <= UdpCount
  BY <1>3, RangesAssumption
<1>7. CASE transport = "TCP"
  <2>1. Types(transport) = TcpTypes /\ TypeCount(transport) = TcpCount
    BY <1>1, <1>2, <1>7
  <2>2. Len(Types(transport)) - 1 = 7
    BY <1>3, <2>1
  <2>3. \A n \in 0 .. Len(Types(transport)) - 1 : Types(transport)[n + 1] \in Kinds
    BY <1>4, <2>1, <2>2
  <2>4. Len(Types(transport)) \in Nat /\ Len(Types(transport)) <= TypeCount(transport)
    <3>1. Len(Types(transport)) = 8
      BY <1>3, <2>1
    <3> QED BY <1>6, <2>1, <3>1
  <2> QED BY <2>3, <2>4
<1>8. CASE transport = "UDP"
  <2>1. Types(transport) = UdpTypes /\ TypeCount(transport) = UdpCount
    BY <1>1, <1>2, <1>8
  <2>2. Len(Types(transport)) - 1 = 2
    BY <1>3, <2>1
  <2>3. \A n \in 0 .. Len(Types(transport)) - 1 : Types(transport)[n + 1] \in Kinds
    BY <1>5, <2>1, <2>2
  <2>4. Len(Types(transport)) \in Nat /\ Len(Types(transport)) <= TypeCount(transport)
    <3>1. Len(Types(transport)) = 3
      BY <1>3, <2>1
    <3> QED BY <1>6, <2>1, <3>1
  <2> QED BY <2>3, <2>4
<1> QED BY <1>7, <1>8

LEMMA TypeReads ==
    ASSUME NEW p, ParseInv(p), p.part = "type", NEW r \in Expected(p)
    PROVE  Reads(p, r)
<1>1. p \in ParseType /\ p.transport \in {"TCP", "UDP"}
  BY DEF ParseInv, ParseType
<1>2. PICK types : types = Types(p.transport)
  OBVIOUS
<1>3. PICK n \in 0 .. Len(types) - 1 :
          r \in Then(TypeField(p.transport, n), Body(types[n + 1]))
  BY <1>2 DEF Expected, Typed
<1>4. types[n + 1] \in Kinds /\ n \in Nat /\ n < TypeCount(p.transport)
  <2>1. TcpCount \in Nat /\ UdpCount \in Nat
    BY RangesAssumption
  <2>2. TypeCount(p.transport) \in Nat
    BY <1>1, <2>1 DEF TypeCount
  <2> QED BY <1>1, <1>2, <2>2, TypesAreKinds
<1>5. TypeField(p.transport, n) \in SUBSET AnyField
  BY DEF TypeField
<1>6. r # <<>> /\ r[1] \in TypeField(p.transport, n) /\ Tail(r) \in Body(types[n + 1])
  BY <1>3, <1>4, <1>5, ThenReads, BodyIsFields
<1>7. r[1].part = "type" /\ r[1].max = TypeCount(p.transport) /\ r[1].value = n
  BY <1>6 DEF TypeField
<1>8. MaxOf(p) = TypeCount(p.transport)
  BY DEF MaxOf
<1>9. ASSUME NEW v, ReadAs(v, r)
      PROVE  ParseInv(After(p, v)) /\ Tail(r) \in Expected(After(p, v))
  <2>1. v = n
    BY <1>4, <1>7, <1>9 DEF ReadAs
  <2>2. After(p, v) = [p EXCEPT !.kind = types[n + 1], !.part = Handler(types[n + 1])]
    BY <1>2, <2>1 DEF After, ReadType
  <2> QED BY <1>1, <1>4, <1>6, <2>2, HandlerExpects
<1> QED BY <1>6, <1>7, <1>8, <1>9 DEF Reads

(* Wherever a handler is, it reads what it expects.                        *)
LEMMA EveryPartReads ==
    ASSUME NEW p, ParseInv(p), p.part # "end", NEW r \in Expected(p)
    PROVE  Reads(p, r)
<1>1. CASE p.kind = "MATCH_INTRO"
  <2>1. p.part \in IntroParts
    BY <1>1 DEF ParseInv
  <2>2. CASE p.part \in {"matchId", "playerId", "addr"}
    BY <1>1, <2>2, IntroRead
  <2>3. CASE p.part = "playerNum"
    BY <2>3, CountRead
  <2>4. CASE p.part \in {"nameSize", "char"}
    BY <2>4, TextRead
  <2>5. CASE p.part = "port"
    BY <1>1, <2>5, PortRead
  <2>6. CASE p.part = "myId"
    <3>1. r \in Then(One(p.part), Nothing)
      BY <2>6 DEF Expected, MyId
    <3> QED BY <2>6, <3>1, LastRead
  <2> QED BY <2>1, <2>2, <2>3, <2>4, <2>5, <2>6 DEF IntroParts
<1>2. CASE p.kind # "MATCH_INTRO"
  <2>1. p.part \in OtherParts
    BY <1>2 DEF ParseInv
  <2>2. CASE p.part = "type"
    BY <2>2, TypeReads
  <2>3. CASE p.part \in {"nameSize", "char"}
    BY <2>3, TextRead
  <2>4. CASE p.part \in {"tick", "down"}
    BY <2>4, InputRead
  <2>5. CASE p.part \in {"port", "matchId", "time", "held"}
    <3>1. r \in Then(One(p.part), Nothing)
      BY <1>2, <2>5 DEF Expected
    <3> QED BY <1>2, <2>5, <3>1, LastRead
  <2> QED BY <2>1, <2>2, <2>3, <2>4, <2>5 DEF OtherParts
<1> QED BY <1>1, <1>2

-----------------------------------------------------------------------------
(* What is written is what a handler expects: behind the size of a TCP     *)
(* packet, and from the first bit of a UDP packet.                         *)

SizePart == {f \in AnyField : f.part = "size" /\ f.value = 0 /\ f.max = U16}

LEMMA RangesAreNat ==
    /\ U8 \in Nat /\ U16 \in Nat /\ U32 \in Nat /\ IntentCount \in Nat
    /\ TcpCount \in Nat /\ UdpCount \in Nat
BY RangesAssumption

LEMMA Writes ==
    ASSUME NEW v \in Nat
    PROVE  /\ WriteInt("matchId", v, U16) \in One("matchId")
           /\ WriteInt("port", v, U16) \in One("port")
           /\ WriteInt("myId", v, U8) \in One("myId")
           /\ WriteInt("playerId", v, U8) \in One("playerId")
           /\ WriteInt("char", v, U8) \in One("char")
           /\ WriteInt("addr", v, U32) \in One("addr")
           /\ WriteInt("time", v, U32) \in One("time")
           /\ WriteInt("tick", v, U32) \in One("tick")
           /\ WriteInt("down", v, IntentCount) \in One("down")
           /\ WriteInt("held", v, IntentCount) \in One("held")
           /\ WriteInt("nameSize", v, U16) \in One("nameSize")
           /\ WriteInt("playerNum", v, U8) \in One("playerNum")
<1>1. ASSUME NEW part \in PartNames, NEW m \in Nat, RangeOf(part) = m
      PROVE  WriteInt(part, v, m) \in One(part)
  BY <1>1 DEF WriteInt, One, AnyField
<1>2. /\ \A part \in {"matchId", "nameSize", "port"} : RangeOf(part) = U16
      /\ \A part \in {"playerNum", "playerId", "char", "myId"} : RangeOf(part) = U8
      /\ \A part \in {"addr", "time", "tick"} : RangeOf(part) = U32
      /\ \A part \in {"down", "held"} : RangeOf(part) = IntentCount
  BY DEF RangeOf
<1>3. {"matchId", "nameSize", "port", "playerNum", "playerId", "char", "myId",
       "addr", "time", "tick", "down", "held"} \subseteq PartNames
  BY DEF PartNames
<1> QED BY <1>1, <1>2, <1>3, RangesAreNat

LEMMA SingleField ==
    ASSUME NEW F \in SUBSET AnyField, NEW f \in F
    PROVE  <<f>> \in Then(F, Nothing)
<1>1. <<f>> \in Seq(AnyField)
  OBVIOUS
<1>2. Cons(f, <<>>) = <<f>>
  BY <1>1, ConcatEmptySeq DEF Cons
<1> QED BY <1>2 DEF Then, Nothing

LEMMA Single == ASSUME NEW part, NEW f \in One(part) PROVE <<f>> \in Then(One(part), Nothing)
BY SingleField, OneIsField

LEMMA AppendIs ==
    ASSUME NEW V, NEW s \in Seq(V), NEW c \in V
    PROVE  /\ Append(s, c) \in Seq(V) /\ Len(Append(s, c)) = Len(s) + 1
           /\ \A i \in 1 .. Len(s) + 1 : Append(s, c)[i] = IF i = Len(s) + 1 THEN c ELSE s[i]
OBVIOUS

LEMMA TwoInFront ==
    ASSUME NEW V, NEW f \in V, NEW g \in V, NEW q \in Seq(V)
    PROVE  Joined(<<f, g>>, q) = Cons(f, Cons(g, q))
<1>1. <<f>> \in Seq(V) /\ <<g>> \in Seq(V)
  OBVIOUS
<1>2. Append(<<f>>, g) = <<f, g>>
  <2> DEFINE s == <<f>>
             t == <<f, g>>
  <2>1. s \in Seq(V) /\ Len(s) = 1 /\ s[1] = f
    OBVIOUS
  <2>2. t \in Seq(V) /\ Len(t) = 2 /\ t[1] = f /\ t[2] = g
    OBVIOUS
  <2> HIDE DEF s, t
  <2>3. /\ Append(s, g) \in Seq(V) /\ Len(Append(s, g)) = 2
        /\ \A i \in 1 .. 2 : Append(s, g)[i] = IF i = 2 THEN g ELSE s[i]
    <3>1. /\ Append(s, g) \in Seq(V) /\ Len(Append(s, g)) = Len(s) + 1
          /\ \A i \in 1 .. Len(s) + 1 : Append(s, g)[i] = IF i = Len(s) + 1 THEN g ELSE s[i]
      BY <2>1, AppendIs, Zenon
    <3>2. Len(s) + 1 = 2
      BY <2>1
    <3> QED BY <3>1, <3>2, Zenon
  <2>4. \A i \in 1 .. 2 : Append(s, g)[i] = t[i]
    BY <2>1, <2>2, <2>3
  <2>5. Append(s, g) = t
    BY <2>2, <2>3, <2>4, SeqEqual
  <2> QED BY <2>5 DEF s, t
<1>3. Append(<<f>>, g) = <<f>> \o <<g>>
  BY <1>1, AppendIsConcat
<1>4. (<<f>> \o <<g>>) \o q = <<f>> \o (<<g>> \o q)
  BY <1>1, ConcatAssociative
<1>5. <<f, g>> = <<f>> \o <<g>>
  BY <1>2, <1>3, Zenon
<1> QED BY <1>4, <1>5, Zenon DEF Joined, Cons

LEMMA OneInFront ==
    ASSUME NEW f, NEW q
    PROVE  Joined(<<f>>, q) = Cons(f, q)
BY DEF Joined, Cons

(* The kinds that are looked up are in their tables.                       *)
LEMMA Numbered ==
    ASSUME NEW transport, NEW n \in 0 .. Len(Types(transport)) - 1
    PROVE  LET kind == Types(transport)[n + 1]
           IN  /\ NumberOf(transport, kind) \in 0 .. Len(Types(transport)) - 1
               /\ Types(transport)[NumberOf(transport, kind) + 1] = kind
BY DEF NumberOf

TcpKinds == {"MATCH_REQUEST", "MATCH_CANCEL", "MATCH_INTRO", "TIME_SYNC_REQ",
             "TIME_SYNC_RES", "MATCH_INTRO_SUCCESS", "MATCH_INTRO_FAILED", "MATCH_START"}

UdpKinds == {"HELLO", "WELCOME", "INPUT"}

LEMMA KindsAreListed ==
    /\ \A kind \in TcpKinds : \E n \in 0 .. Len(Types("TCP")) - 1 : Types("TCP")[n + 1] = kind
    /\ \A kind \in UdpKinds : \E n \in 0 .. Len(Types("UDP")) - 1 : Types("UDP")[n + 1] = kind
<1>1. Types("TCP") = TcpTypes /\ Types("UDP") = UdpTypes
  BY DEF Types
<1>2. Len(TcpTypes) = 8 /\ Len(UdpTypes) = 3
  BY DEF TcpTypes, UdpTypes
<1>3. /\ TcpTypes[1] = "MATCH_REQUEST" /\ TcpTypes[2] = "MATCH_CANCEL"
      /\ TcpTypes[3] = "MATCH_INTRO" /\ TcpTypes[4] = "TIME_SYNC_REQ"
      /\ TcpTypes[5] = "TIME_SYNC_RES" /\ TcpTypes[6] = "MATCH_INTRO_SUCCESS"
      /\ TcpTypes[7] = "MATCH_INTRO_FAILED" /\ TcpTypes[8] = "MATCH_START"
  BY DEF TcpTypes
<1>4. UdpTypes[1] = "HELLO" /\ UdpTypes[2] = "WELCOME" /\ UdpTypes[3] = "INPUT"
  BY DEF UdpTypes
<1>5. ASSUME NEW kind \in TcpKinds PROVE \E n \in 0 .. 7 : TcpTypes[n + 1] = kind
  <2>1. \E k \in 1 .. 8 : TcpTypes[k] = kind
    BY <1>3 DEF TcpKinds
  <2>2. PICK k \in 1 .. 8 : TcpTypes[k] = kind
    BY <2>1
  <2>3. k - 1 \in 0 .. 7 /\ (k - 1) + 1 = k
    OBVIOUS
  <2> QED BY <2>2, <2>3
<1>6. ASSUME NEW kind \in UdpKinds PROVE \E n \in 0 .. 2 : UdpTypes[n + 1] = kind
  <2>1. \E k \in 1 .. 3 : UdpTypes[k] = kind
    BY <1>4 DEF UdpKinds
  <2>2. PICK k \in 1 .. 3 : UdpTypes[k] = kind
    BY <2>1
  <2>3. k - 1 \in 0 .. 2 /\ (k - 1) + 1 = k
    OBVIOUS
  <2> QED BY <2>2, <2>3
<1>7. Len(Types("TCP")) - 1 = 7 /\ Len(Types("UDP")) - 1 = 2
  BY <1>1, <1>2
<1> QED BY <1>1, <1>5, <1>6, <1>7

KindsOf(transport) == IF transport = "TCP" THEN TcpKinds ELSE UdpKinds

TypeOf(transport, kind) == WriteInt("type", NumberOf(transport, kind), TypeCount(transport))

LEMMA TypedPacket ==
    ASSUME NEW transport \in {"TCP", "UDP"}, NEW kind \in KindsOf(transport), NEW q \in Body(kind)
    PROVE  /\ TypeOf(transport, kind) \in AnyField
           /\ Cons(TypeOf(transport, kind), q) \in Typed(transport)
<1>1. PICK types : types = Types(transport)
  OBVIOUS
<1>2. PICK k \in 0 .. Len(types) - 1 : types[k + 1] = kind
  BY <1>1, KindsAreListed DEF KindsOf
<1>3. PICK n : n = NumberOf(transport, kind)
  OBVIOUS
<1>4. n \in 0 .. Len(types) - 1 /\ types[n + 1] = kind
  BY <1>1, <1>2, <1>3, Numbered
<1>5. n \in Nat /\ TypeCount(transport) \in Nat
  <2>1. Len(types) \in Nat
    BY <1>1, TypesAreKinds
  <2> QED BY <1>4, <2>1, RangesAreNat DEF TypeCount
<1>6. TypeOf(transport, kind) \in TypeField(transport, n)
  BY <1>3, <1>5 DEF TypeOf, WriteInt, TypeField, AnyField, PartNames
<1>7. Cons(TypeOf(transport, kind), q) \in Then(TypeField(transport, n), Body(types[n + 1]))
  BY <1>4, <1>6 DEF Then
<1>8. TypeField(transport, n) \subseteq AnyField
  BY DEF TypeField
<1> QED BY <1>1, <1>4, <1>6, <1>7, <1>8 DEF Typed

LEMMA BodyOfKind ==
    ASSUME NEW kind \in TcpKinds \cup UdpKinds, NEW q \in Body(kind)
    PROVE  q \in Seq(AnyField)
<1>1. kind \in Kinds
  BY DEF TcpKinds, UdpKinds, Kinds
<1> QED BY <1>1, BodyIsFields DEF Fields

LEMMA TcpPacket ==
    ASSUME NEW kind \in TcpKinds, NEW q \in Body(kind)
    PROVE  Joined(TcpHeader(kind), q) \in Then(SizePart, Typed("TCP"))
<1> DEFINE size == WriteInt("size", 0, U16)
           type == TypeOf("TCP", kind)
<1>1. size \in SizePart /\ size \in AnyField
  BY RangesAreNat DEF WriteInt, SizePart, AnyField, PartNames
<1>2. type \in AnyField /\ Cons(type, q) \in Typed("TCP")
  BY TypedPacket DEF KindsOf
<1>3. TcpHeader(kind) = <<size, type>>
  BY DEF TcpHeader, TypeOf, TypeCount
<1>4. q \in Seq(AnyField)
  BY BodyOfKind
<1> HIDE DEF size, type
<1>5. Joined(<<size, type>>, q) = Cons(size, Cons(type, q))
  BY <1>1, <1>2, <1>4, TwoInFront
<1> QED BY <1>1, <1>2, <1>3, <1>5 DEF Then

LEMMA UdpPacket ==
    ASSUME NEW kind \in UdpKinds, NEW q \in Body(kind)
    PROVE  Joined(BuildUDPPacket(kind), q) \in Typed("UDP")
<1>1. Cons(TypeOf("UDP", kind), q) \in Typed("UDP")
  BY TypedPacket DEF KindsOf
<1>2. BuildUDPPacket(kind) = <<TypeOf("UDP", kind)>>
  BY DEF BuildUDPPacket, TypeOf, TypeCount
<1> QED BY <1>1, <1>2, OneInFront

(* A name is written as it is read.                                        *)
LEMMA TextIsName ==
    ASSUME NEW name \in Names, NEW L \in SUBSET Fields, NEW q \in L
    PROVE  Joined(Text(name), q) \in NameAnd(L) /\ Text(name) \in Seq(AnyField)
<1>1. PICK n \in Nat : n = Len(name)
  BY CountsAssumption
<1>2. name \in Seq(Nat) /\ n < U16
  BY <1>1, CountsAssumption
<1> DEFINE size == WriteInt("nameSize", n, U16)
           cs == [i \in 1 .. n |-> WriteInt("char", name[i], U8)]
<1>3. size \in Exactly("nameSize", n) /\ size \in AnyField
  <2>1. size \in One("nameSize")
    BY Writes
  <2> QED BY <1>2, <2>1, OneIsField DEF Exactly, WriteInt
<1>4. \A i \in 1 .. n : cs[i] \in One("char")
  BY <1>1, <1>2, Writes
<1>5. cs \in Seq(AnyField) /\ Len(cs) = n
  <2>1. \A i \in 1 .. n : cs[i] \in AnyField
    BY <1>4, OneIsField
  <2>2. cs = [i \in 1 .. n |-> cs[i]]
    OBVIOUS
  <2> HIDE DEF cs
  <2> QED BY <2>1, <2>2
<1>6. Text(name) = Cons(size, cs)
  BY <1>1 DEF Text, Cons
<1> HIDE DEF size, cs
<1>7. cs \in Chars(n)
  BY <1>4, <1>5 DEF Chars, Fields
<1>8. q \in Seq(AnyField)
  BY DEF Fields
<1>9. Joined(Text(name), q) = Cons(size, Joined(cs, q))
  BY <1>3, <1>5, <1>6, <1>8, ConsAssociative
<1>10. Joined(cs, q) \in CharsAnd(n, L)
  BY <1>7 DEF CharsAnd
<1>11. Cons(size, Joined(cs, q)) \in Then(Exactly("nameSize", n), CharsAnd(n, L))
  BY <1>3, <1>10 DEF Then
<1>12. Text(name) \in Seq(AnyField)
  BY <1>3, <1>5, <1>6, ConsIsSeq
<1> QED BY <1>9, <1>11, <1>12 DEF NameAnd

(* A player of a MATCH_INTRO.                                              *)
LEMMA PlayerIsOne ==
    ASSUME NEW c \in [playerId : Nat, name : Names, addr : Nat, port : Nat]
    PROVE  IntroOfPlayer(c) \in OnePlayer(Nothing)
<1> DEFINE id == WriteInt("playerId", c.playerId, U8)
           addr == WriteInt("addr", c.addr, U32)
           port == WriteInt("port", c.port, U16)
           L == Then(One("addr"), Then(One("port"), Nothing))
<1>1. id \in One("playerId") /\ addr \in One("addr") /\ port \in One("port")
  BY Writes
<1>2. id \in AnyField /\ addr \in AnyField /\ port \in AnyField
  BY <1>1, OneIsField
<1>3. L \in SUBSET Fields
  BY TextIsFields, NothingIsFields
<1>4. IntroOfPlayer(c) = Joined(Joined(<<id>>, Text(c.name)), <<addr, port>>)
  BY DEF IntroOfPlayer, Joined
<1> HIDE DEF id, addr, port
<1>5. <<addr, port>> \in L
  <2>1. <<port>> \in Then(One("port"), Nothing)
    BY <1>1, Single
  <2>2. Cons(addr, <<port>>) \in L
    BY <1>1, <2>1 DEF Then
  <2>3. <<>> \in Seq(AnyField) /\ <<port>> \in Seq(AnyField)
    BY <1>2
  <2>4. Joined(<<addr, port>>, <<>>) = Cons(addr, Cons(port, <<>>))
    <3>1. PICK e \in Seq(AnyField) : e = <<>>
      BY <2>3
    <3>2. Joined(<<addr, port>>, e) = Cons(addr, Cons(port, e))
      BY <1>2, TwoInFront
    <3> QED BY <3>1, <3>2, Zenon
  <2>5. Joined(<<addr, port>>, <<>>) = <<addr, port>>
    <3>1. <<addr, port>> \in Seq(AnyField)
      BY <1>2
    <3> QED BY <3>1, ConcatEmptySeq DEF Joined
  <2>6. Cons(port, <<>>) = <<port>>
    BY <2>3, ConcatEmptySeq DEF Cons
  <2> QED BY <2>2, <2>4, <2>5, <2>6
<1> HIDE DEF L
<1>6. Joined(Text(c.name), <<addr, port>>) \in NameAnd(L) /\ Text(c.name) \in Seq(AnyField)
  BY <1>3, <1>5, TextIsName
<1>7. Joined(Joined(<<id>>, Text(c.name)), <<addr, port>>) = Cons(id, Joined(Text(c.name), <<addr, port>>))
  <2> DEFINE s == <<addr, port>>
  <2>1. s \in Seq(AnyField)
    BY <1>2
  <2> HIDE DEF s
  <2>2. Joined(<<id>>, Text(c.name)) = Cons(id, Text(c.name))
    BY OneInFront
  <2>3. Joined(Cons(id, Text(c.name)), s) = Cons(id, Joined(Text(c.name), s))
    BY <1>2, <1>6, <2>1, ConsAssociative
  <2> QED BY <2>2, <2>3, Zenon DEF s
<1>8. Cons(id, Joined(Text(c.name), <<addr, port>>)) \in Then(One("playerId"), NameAnd(L))
  BY <1>1, <1>6 DEF Then
<1> QED BY <1>4, <1>7, <1>8 DEF OnePlayer, L

LEMMA RequestIsExpected ==
    ASSUME NEW name \in Names, NEW port \in Ports
    PROVE  SendTCPPacket("MATCH_REQUEST", name, port, 0) \in Then(SizePart, Typed("TCP"))
<1> DEFINE f == WriteInt("port", port, U16)
           L == Then(One("port"), Nothing)
<1>1. f \in One("port")
  BY Writes, CountsAssumption
<1>2. SendTCPPacket("MATCH_REQUEST", name, port, 0)
          = Joined(TcpHeader("MATCH_REQUEST"), Joined(Text(name), <<f>>))
  BY DEF SendTCPPacket, Joined
<1> HIDE DEF f
<1>3. <<f>> \in L /\ L \in SUBSET Fields
  BY <1>1, Single, TextIsFields, NothingIsFields
<1>4. Joined(Text(name), <<f>>) \in NameAnd(L)
  BY <1>3, TextIsName
<1>5. Body("MATCH_REQUEST") = NameAnd(L)
  BY DEF Body
<1>6. "MATCH_REQUEST" \in TcpKinds
  BY DEF TcpKinds
<1> QED BY <1>2, <1>4, <1>5, <1>6, TcpPacket

LEMMA IdIsExpected ==
    ASSUME NEW kind \in {"MATCH_CANCEL", "MATCH_INTRO_SUCCESS", "MATCH_INTRO_FAILED", "TIME_SYNC_REQ"},
           NEW id \in MatchIds
    PROVE  SendTCPPacket(kind, <<>>, 0, id) \in Then(SizePart, Typed("TCP"))
<1>1. kind \in TcpKinds
  BY DEF TcpKinds
<1>2. CASE kind = "TIME_SYNC_REQ"
  <2>1. SendTCPPacket(kind, <<>>, 0, id) = Joined(TcpHeader(kind), <<>>)
    BY <1>2 DEF SendTCPPacket, Joined
  <2>2. <<>> \in Body(kind)
    BY <1>2 DEF Body, Nothing
  <2> QED BY <1>1, <2>1, <2>2, TcpPacket
<1>3. CASE kind # "TIME_SYNC_REQ"
  <2> DEFINE f == WriteInt("matchId", id, U16)
  <2>1. f \in One("matchId")
    BY Writes, CountsAssumption
  <2>2. SendTCPPacket(kind, <<>>, 0, id) = Joined(TcpHeader(kind), <<f>>)
    BY <1>3 DEF SendTCPPacket, Joined
  <2> HIDE DEF f
  <2>3. <<f>> \in Body(kind)
    BY <1>3, <2>1, Single DEF Body
  <2> QED BY <1>1, <2>2, <2>3, TcpPacket
<1> QED BY <1>2, <1>3

LEMMA TimeIsExpected ==
    ASSUME NEW time \in Times
    PROVE  /\ MatchStart(time) \in Then(SizePart, Typed("TCP"))
           /\ HandlePacketTimeSync(time) \in Then(SizePart, Typed("TCP"))
<1> DEFINE f == WriteInt("time", time, U32)
<1>1. f \in One("time")
  BY Writes, CountsAssumption
<1>2. /\ MatchStart(time) = Joined(TcpHeader("MATCH_START"), <<f>>)
      /\ HandlePacketTimeSync(time) = Joined(TcpHeader("TIME_SYNC_RES"), <<f>>)
  BY DEF MatchStart, HandlePacketTimeSync, Joined
<1> HIDE DEF f
<1>3. <<f>> \in Body("MATCH_START") /\ <<f>> \in Body("TIME_SYNC_RES")
  BY <1>1, Single DEF Body
<1>4. "MATCH_START" \in TcpKinds /\ "TIME_SYNC_RES" \in TcpKinds
  BY DEF TcpKinds
<1> QED BY <1>2, <1>3, <1>4, TcpPacket

LEMMA HelloIsExpected ==
    ASSUME NEW kind \in {"HELLO", "WELCOME"}
    PROVE  BuildUDPPacket(kind) \in Typed("UDP")
<1>1. <<>> \in Body(kind) /\ kind \in UdpKinds
  BY DEF Body, Nothing, UdpKinds
<1>2. Joined(BuildUDPPacket(kind), <<>>) \in Typed("UDP")
  BY <1>1, UdpPacket
<1>3. BuildUDPPacket(kind) = <<TypeOf("UDP", kind)>>
  BY DEF BuildUDPPacket, TypeOf, TypeCount
<1>4. TypeOf("UDP", kind) \in AnyField
  BY <1>1, TypedPacket DEF KindsOf
<1>5. Joined(BuildUDPPacket(kind), <<>>) = BuildUDPPacket(kind)
  <2>1. BuildUDPPacket(kind) \in Seq(AnyField)
    BY <1>3, <1>4
  <2> QED BY <2>1, ConcatEmptySeq DEF Joined
<1> QED BY <1>2, <1>5

LEMMA InputIsExpected ==
    ASSUME NEW tick \in Times, NEW down \in Intents, NEW held \in Intents
    PROVE  Serialize(tick, down, held) \in Typed("UDP")
<1> DEFINE f == WriteInt("tick", tick, U32)
           g == WriteInt("down", down, IntentCount)
           h == WriteInt("held", held, IntentCount)
<1>1. f \in One("tick") /\ g \in One("down") /\ h \in One("held")
  BY Writes, CountsAssumption
<1>2. Serialize(tick, down, held) = Joined(BuildUDPPacket("INPUT"), <<f, g, h>>)
  BY DEF Serialize, Joined
<1> HIDE DEF f, g, h
<1>3. f \in AnyField /\ g \in AnyField /\ h \in AnyField
  BY <1>1, OneIsField
<1>4. <<f, g, h>> = Cons(f, Cons(g, <<h>>))
  <2> DEFINE s == <<h>>
             t == <<f, g>>
             u == <<f, g, h>>
  <2>1. s \in Seq(AnyField)
    BY <1>3
  <2>2. t \in Seq(AnyField) /\ Len(t) = 2 /\ t[1] = f /\ t[2] = g
    BY <1>3
  <2>3. u \in Seq(AnyField) /\ Len(u) = 3 /\ u[1] = f /\ u[2] = g /\ u[3] = h
    BY <1>3
  <2>4. Joined(t, s) = Cons(f, Cons(g, s))
    <3> HIDE DEF s
    <3> QED BY <1>3, <2>1, TwoInFront
  <2>5. Append(t, h) = Joined(t, s)
    <3> HIDE DEF t
    <3> QED BY <1>3, <2>2, AppendIsConcat DEF Joined
  <2> HIDE DEF s, t, u
  <2>6. /\ Append(t, h) \in Seq(AnyField) /\ Len(Append(t, h)) = 3
        /\ \A i \in 1 .. 3 : Append(t, h)[i] = IF i = 3 THEN h ELSE t[i]
    <3>1. /\ Append(t, h) \in Seq(AnyField) /\ Len(Append(t, h)) = Len(t) + 1
          /\ \A i \in 1 .. Len(t) + 1 : Append(t, h)[i] = IF i = Len(t) + 1 THEN h ELSE t[i]
      BY <1>3, <2>2, AppendIs, Zenon
    <3>2. Len(t) + 1 = 3
      BY <2>2
    <3> QED BY <3>1, <3>2, Zenon
  <2>7. \A i \in 1 .. 3 : Append(t, h)[i] = u[i]
    BY <2>2, <2>3, <2>6
  <2>8. Append(t, h) = u
    BY <2>3, <2>6, <2>7, SeqEqual
  <2> QED BY <2>4, <2>5, <2>8, Zenon DEF s, u
<1>5. <<h>> \in Then(One("held"), Nothing)
  BY <1>1, Single
<1>6. Cons(f, Cons(g, <<h>>)) \in Body("INPUT")
  <2>1. Cons(g, <<h>>) \in Then(One("down"), Then(One("held"), Nothing))
    BY <1>1, <1>5 DEF Then
  <2>2. Cons(f, Cons(g, <<h>>)) \in Then(One("tick"), Then(One("down"), Then(One("held"), Nothing)))
    BY <1>1, <2>1 DEF Then
  <2> QED BY <2>2 DEF Body
<1>7. "INPUT" \in UdpKinds
  BY DEF UdpKinds
<1> QED BY <1>2, <1>4, <1>6, <1>7, UdpPacket

LEMMA JoinedAssociative ==
    ASSUME NEW V, NEW s \in Seq(V), NEW t \in Seq(V), NEW u \in Seq(V)
    PROVE  Joined(Joined(s, t), u) = Joined(s, Joined(t, u))
BY ConcatAssociative DEF Joined

LEMMA IntroIsExpected ==
    ASSUME NEW id \in MatchIds, NEW conn \in Conns, NEW me \in 1 .. MaxMatchPlayer
    PROVE  MatchIntro(id, conn, me) \in Then(SizePart, Typed("TCP"))
<1>1. PICK n \in Nat : n = MaxMatchPlayer
  BY CountsAssumption
<1>2. conn \in [1 .. n -> [playerId : Nat, name : Names, addr : Nat, port : Nat]]
  BY <1>1, CountsAssumption
<1> DEFINE f == WriteInt("matchId", id, U16)
           g == WriteInt("playerNum", n, U8)
           h == WriteInt("myId", conn[me].playerId, U8)
           ps == [k \in 1 .. n |-> IntroOfPlayer(conn[k])]
           header == TcpHeader("MATCH_INTRO")
           M == UNION {Then(Exactly("playerNum", k), Players(k)) : k \in Nat}
<1>3. f \in One("matchId") /\ g \in Exactly("playerNum", n) /\ h \in One("myId")
  <2>1. f \in One("matchId")
    BY Writes, CountsAssumption
  <2>2. g \in One("playerNum")
    BY Writes
  <2>3. g.value = n /\ g.value < g.max
    BY <1>1, CountsAssumption DEF WriteInt
  <2>4. h \in One("myId")
    <3>1. conn[me].playerId \in Nat
      BY <1>1, <1>2
    <3> QED BY <3>1, Writes
  <2> HIDE DEF f, g, h
  <2> QED BY <2>1, <2>2, <2>3, <2>4 DEF Exactly
<1>4. ps \in [1 .. n -> OnePlayer(Nothing)]
  <2>1. \A k \in 1 .. n : IntroOfPlayer(conn[k]) \in OnePlayer(Nothing)
    BY <1>2, PlayerIsOne
  <2> QED BY <2>1
<1>5. MatchIntro(id, conn, me) = Joined(Joined(Joined(header, <<f, g>>), FlattenSeq(ps)), <<h>>)
  BY <1>1 DEF MatchIntro, Joined
<1> HIDE DEF f, g, h, ps, header
<1>6. f \in AnyField /\ g \in AnyField /\ h \in AnyField
  BY <1>3, OneIsField, ExactlyIsField
<1>7. <<h>> \in MyId /\ <<h>> \in Seq(AnyField)
  BY <1>3, <1>6, Single DEF MyId
<1>8. FlattenSeq(ps) \in Seq(AnyField)
  <2>1. OnePlayer(Nothing) \subseteq Seq(AnyField)
    BY OnePlayerIsFields, NothingIsFields DEF Fields
  <2>2. ps \in Seq(Seq(AnyField))
    BY <1>4, <2>1
  <2> QED BY <2>2, FlattenIsSeq
<1>9. Joined(FlattenSeq(ps), <<h>>) \in Players(n)
  BY <1>4, <1>7 DEF Players
<1> DEFINE q == Joined(FlattenSeq(ps), <<h>>)
<1>10. q \in Seq(AnyField)
  BY <1>7, <1>8, ConcatProperties DEF Joined
<1>11. header \in Seq(AnyField) /\ <<f, g>> \in Seq(AnyField)
  <2>1. "MATCH_INTRO" \in KindsOf("TCP") /\ <<>> \in Seq(AnyField)
    BY DEF KindsOf, TcpKinds
  <2>2. WriteInt("size", 0, U16) \in AnyField
    BY RangesAreNat DEF WriteInt, AnyField, PartNames
  <2>3. WriteInt("type", NumberOf("TCP", "MATCH_INTRO"), TcpCount) \in AnyField
    <3>1. \E n2 \in 0 .. Len(Types("TCP")) - 1 : Types("TCP")[n2 + 1] = "MATCH_INTRO"
      BY KindsAreListed DEF TcpKinds
    <3>2. NumberOf("TCP", "MATCH_INTRO") \in 0 .. Len(Types("TCP")) - 1
      BY <3>1, Numbered
    <3>3. Len(Types("TCP")) \in Nat
      BY TypesAreKinds
    <3> QED BY <3>2, <3>3, RangesAreNat DEF WriteInt, AnyField, PartNames
  <2> QED BY <1>6, <2>2, <2>3 DEF header, TcpHeader
<1>12. Joined(Joined(Joined(header, <<f, g>>), FlattenSeq(ps)), <<h>>) = Joined(header, Joined(<<f, g>>, q))
  <2> DEFINE s == FlattenSeq(ps)
             t == <<f, g>>
             u == <<h>>
  <2>1. s \in Seq(AnyField) /\ t \in Seq(AnyField) /\ u \in Seq(AnyField) /\ header \in Seq(AnyField)
    BY <1>7, <1>8, <1>11
  <2> HIDE DEF s, t, u
  <2>2. Joined(header, t) \in Seq(AnyField) /\ Joined(s, u) \in Seq(AnyField)
    BY <2>1, ConcatProperties DEF Joined
  <2>3. Joined(Joined(Joined(header, t), s), u) = Joined(Joined(header, t), Joined(s, u))
    BY <2>1, <2>2, JoinedAssociative
  <2>4. Joined(Joined(header, t), Joined(s, u)) = Joined(header, Joined(t, Joined(s, u)))
    BY <2>1, <2>2, JoinedAssociative
  <2> QED BY <2>3, <2>4 DEF s, t, u
<1>13. Joined(<<f, g>>, q) = Cons(f, Cons(g, q))
  BY <1>6, <1>10, TwoInFront
<1> HIDE DEF q
<1>14. Cons(f, Cons(g, q)) \in Then(One("matchId"), M)
  <2>1. Cons(g, q) \in Then(Exactly("playerNum", n), Players(n))
    BY <1>3, <1>9 DEF Then, q
  <2>2. Cons(g, q) \in M
    BY <2>1
  <2> HIDE DEF M
  <2> QED BY <1>3, <2>2 DEF Then
<1>15. Body("MATCH_INTRO") = Then(One("matchId"), M)
  BY DEF Body
<1>16. "MATCH_INTRO" \in TcpKinds
  BY DEF TcpKinds
<1> HIDE DEF M
<1>17. Joined(header, Joined(<<f, g>>, q)) \in Then(SizePart, Typed("TCP"))
  BY <1>13, <1>14, <1>15, <1>16, TcpPacket DEF header
<1> QED BY <1>5, <1>12, <1>17 DEF q

LEMMA BuiltIsExpected ==
    ASSUME NEW m \in Built
    PROVE  m \in Then(SizePart, Typed("TCP")) \/ m \in Typed("UDP")
<1>1. CASE m \in {SendTCPPacket("MATCH_REQUEST", name, port, 0) : name \in Names, port \in Ports}
  BY <1>1, RequestIsExpected
<1>2. CASE m \in {SendTCPPacket(kind, <<>>, 0, id) :
                    kind \in {"MATCH_CANCEL", "MATCH_INTRO_SUCCESS", "MATCH_INTRO_FAILED", "TIME_SYNC_REQ"},
                    id \in MatchIds}
  <2>1. PICK kind \in {"MATCH_CANCEL", "MATCH_INTRO_SUCCESS", "MATCH_INTRO_FAILED", "TIME_SYNC_REQ"},
             id \in MatchIds : m = SendTCPPacket(kind, <<>>, 0, id)
    BY <1>2
  <2> QED BY <2>1, IdIsExpected
<1>3. CASE m \in {MatchIntro(id, conn, me) : id \in MatchIds, conn \in Conns, me \in 1 .. MaxMatchPlayer}
  BY <1>3, IntroIsExpected
<1>4. CASE m \in {MatchStart(time) : time \in Times} \/ m \in {HandlePacketTimeSync(time) : time \in Times}
  BY <1>4, TimeIsExpected
<1>5. CASE m \in {BuildUDPPacket(kind) : kind \in {"HELLO", "WELCOME"}}
  <2>1. PICK kind \in {"HELLO", "WELCOME"} : m = BuildUDPPacket(kind)
    BY <1>5
  <2> QED BY <2>1, HelloIsExpected
<1>6. CASE m \in {Serialize(tick, down, held) : tick \in Times, down \in Intents, held \in Intents}
  BY <1>6, InputIsExpected
<1> QED BY <1>1, <1>2, <1>3, <1>4, <1>5, <1>6 DEF Built

-----------------------------------------------------------------------------
(* The size of a TCP packet is written as 0, in the bits of two bytes.     *)

Doubles(f, n) == f = [i \in 0 .. n |-> IF i = 0 THEN 1 ELSE 2 * f[i - 1]]

LEMMA DoublesExist ==
    ASSUME NEW n \in Nat
    PROVE  \E f : Doubles(f, n)
<1> DEFINE S == {k \in Nat : \E f : Doubles(f, k)}
<1>1. 0 \in S
  <2> DEFINE f == [i \in 0 .. 0 |-> 1]
  <2>1. Doubles(f, 0)
    BY DEF Doubles
  <2> QED BY <2>1
<1>2. ASSUME NEW k \in S PROVE k + 1 \in S
  <2>1. PICK f : Doubles(f, k)
    OBVIOUS
  <2>2. f = [i \in 0 .. k |-> IF i = 0 THEN 1 ELSE 2 * f[i - 1]]
    BY <2>1 DEF Doubles
  <2> DEFINE g == [i \in 0 .. k + 1 |-> IF i = k + 1 THEN 2 * f[k] ELSE f[i]]
  <2>3. \A i \in 0 .. k + 1 : g[i] = IF i = 0 THEN 1 ELSE 2 * g[i - 1]
    <3> TAKE i \in 0 .. k + 1
    <3>1. CASE i = k + 1
      <4>1. k \in 0 .. k + 1 /\ k # k + 1 /\ i - 1 = k /\ i # 0
        BY <3>1
      <4> QED BY <3>1, <4>1
    <3>2. CASE i # k + 1
      <4>1. i \in 0 .. k /\ g[i] = f[i]
        BY <3>2
      <4>2. f[i] = IF i = 0 THEN 1 ELSE 2 * f[i - 1]
        BY <2>2, <4>1
      <4>3. i # 0 => i - 1 \in 0 .. k + 1 /\ i - 1 # k + 1
        BY <4>1
      <4>4. i # 0 => g[i - 1] = f[i - 1]
        BY <4>3
      <4> QED BY <4>1, <4>2, <4>4
    <3> QED BY <3>1, <3>2
  <2>4. g = [i \in 0 .. k + 1 |-> g[i]]
    OBVIOUS
  <2> HIDE DEF g
  <2>5. Doubles(g, k + 1)
    BY <2>3, <2>4 DEF Doubles
  <2> QED BY <2>5
<1> HIDE DEF S
<1>3. S = Nat
  <2>1. S \in SUBSET Nat
    BY DEF S
  <2> QED BY <1>1, <1>2, <2>1, EveryNatural
<1> QED BY <1>3 DEF S

LEMMA TwoToDoubles ==
    \A i \in 0 .. 2 * ByteBits : TwoTo[i] = IF i = 0 THEN 1 ELSE 2 * TwoTo[i - 1]
<1>1. 2 * ByteBits \in Nat
  BY BufferAssumption
<1>2. Doubles(TwoTo, 2 * ByteBits)
  BY <1>1, DoublesExist DEF TwoTo, Doubles
<1> QED BY <1>2 DEF Doubles

LEMMA TwoToIs ==
    /\ TwoTo[0] = 1
    /\ \A i \in 0 .. 2 * ByteBits : TwoTo[i] \in Nat \ {0}
    /\ \A i \in 0 .. 2 * ByteBits - 1 : TwoTo[i + 1] = 2 * TwoTo[i]
    /\ \A i \in 0 .. 2 * ByteBits - 1 : TwoTo[i] < U16
<1>1. PICK n \in Nat : n = 2 * ByteBits /\ n >= 2
  BY BufferAssumption
<1>2. \A i \in 0 .. n : TwoTo[i] = IF i = 0 THEN 1 ELSE 2 * TwoTo[i - 1]
  BY <1>1, TwoToDoubles
<1>3. TwoTo[0] = 1
  BY <1>2
<1>4. ASSUME NEW i \in 0 .. n - 1 PROVE TwoTo[i + 1] = 2 * TwoTo[i]
  <2>1. i + 1 \in 0 .. n /\ i + 1 # 0 /\ (i + 1) - 1 = i
    OBVIOUS
  <2> QED BY <1>2, <2>1
<1> DEFINE S == {k \in Nat : k <= n => TwoTo[k] \in Nat \ {0} /\ \A i \in 0 .. k - 1 : 2 * TwoTo[i] <= TwoTo[k] /\ TwoTo[i] \in Nat \ {0}}
<1>5. 0 \in S
  BY <1>3
<1>6. ASSUME NEW k \in S PROVE k + 1 \in S
  <2> SUFFICES ASSUME k + 1 <= n
               PROVE  TwoTo[k + 1] \in Nat \ {0}
                      /\ \A i \in 0 .. k : 2 * TwoTo[i] <= TwoTo[k + 1] /\ TwoTo[i] \in Nat \ {0}
    OBVIOUS
  <2>1. TwoTo[k] \in Nat \ {0} /\ \A i \in 0 .. k - 1 : 2 * TwoTo[i] <= TwoTo[k] /\ TwoTo[i] \in Nat \ {0}
    OBVIOUS
  <2>2. TwoTo[k + 1] = 2 * TwoTo[k]
    BY <1>4
  <2>3. ASSUME NEW i \in 0 .. k PROVE 2 * TwoTo[i] <= TwoTo[k + 1] /\ TwoTo[i] \in Nat \ {0}
    <3>1. CASE i = k
      BY <2>1, <2>2, <3>1
    <3>2. CASE i # k
      <4>1. i \in 0 .. k - 1
        BY <3>2
      <4> QED BY <2>1, <2>2, <4>1
    <3> QED BY <3>1, <3>2
  <2> QED BY <2>1, <2>2, <2>3
<1> HIDE DEF S
<1>7. S = Nat
  <2>1. S \in SUBSET Nat
    BY DEF S
  <2> QED BY <1>5, <1>6, <2>1, EveryNatural
<1>8. TwoTo[n] \in Nat \ {0} /\ \A i \in 0 .. n - 1 : 2 * TwoTo[i] <= TwoTo[n] /\ TwoTo[i] \in Nat \ {0}
  BY <1>7 DEF S
<1>9. \A i \in 0 .. n : TwoTo[i] \in Nat \ {0}
  BY <1>8
<1>10. ASSUME NEW i \in 0 .. n - 1 PROVE TwoTo[i] < U16
  <2>1. U16 = TwoTo[n] - 1
    BY <1>1, SizeAssumption
  <2>2. CASE i = 0
    <3>1. 1 \in 0 .. n - 1 /\ 0 \in 0 .. n - 1 /\ 0 + 1 = 1
      BY <1>1
    <3>2. TwoTo[1] = 2
      BY <1>3, <1>4, <3>1
    <3>3. 2 * TwoTo[1] <= TwoTo[n]
      BY <1>8, <3>1
    <3> QED BY <1>3, <1>8, <2>1, <2>2, <3>2, <3>3
  <2>3. CASE i # 0
    <3>1. i - 1 \in 0 .. n - 1 /\ (i - 1) + 1 = i
      BY <2>3
    <3>2. TwoTo[i] = 2 * TwoTo[i - 1] /\ TwoTo[i - 1] \in Nat \ {0}
      BY <1>4, <1>8, <3>1
    <3>3. 2 * TwoTo[i] <= TwoTo[n] /\ TwoTo[i] \in Nat
      BY <1>8
    <3> QED BY <1>8, <2>1, <3>2, <3>3
  <2> QED BY <2>2, <2>3
<1> QED BY <1>1, <1>3, <1>4, <1>9, <1>10

(* The first field of a packet, when it is its size.                       *)
SizeBits ==
    fields[1].max = U16 =>
        /\ phase = "write" /\ index = 1 => bitPos \in 0 .. 2 * ByteBits /\ mask = TwoTo[bitPos] /\ tmp = 0
        /\ index > 1 => starts[2] = 2 * ByteBits

(* r is s from place k on.                                                 *)
Suffix(s, r, k) ==
    /\ r \in Fields /\ Len(r) = Len(s) + 1 - k
    /\ \A i \in 1 .. Len(r) : r[i] = s[k + i - 1]

IsBuilt(s) ==
    \/ s \in Then(SizePart, Typed("TCP"))
    \/ s \in Typed("UDP") /\ s[1].max = UdpCount

PacketInv ==
    /\ IsBuilt(fields)
    /\ starts[1] = 0
    /\ SizeBits
    /\ ParseInv(parse)
    /\ phase \in {"write", "cut"} =>
          /\ parse.part = "type"
          /\ parse.transport = IF fields[1].max = U16 THEN "TCP" ELSE "UDP"
    /\ phase = "read" => rindex >= 1 /\ \E r \in Expected(parse) : Suffix(fields, r, rindex)

LEMMA TypedIsFields ==
    ASSUME NEW transport \in {"TCP", "UDP"}, NEW r \in Typed(transport)
    PROVE  r \in Fields /\ r # <<>> /\ r[1].max = TypeCount(transport)
<1>1. PICK types : types = Types(transport)
  OBVIOUS
<1>2. PICK n \in 0 .. Len(types) - 1 : r \in Then(TypeField(transport, n), Body(types[n + 1]))
  BY <1>1 DEF Typed
<1>3. types[n + 1] \in Kinds
  BY <1>1, TypesAreKinds
<1>4. TypeField(transport, n) \in SUBSET AnyField
  BY DEF TypeField
<1>5. r \in Fields /\ r # <<>> /\ r[1] \in TypeField(transport, n)
  BY <1>2, <1>3, <1>4, ThenReads, BodyIsFields
<1> QED BY <1>5 DEF TypeField

LEMMA MessagesArePackets ==
    ASSUME NEW s \in Messages
    PROVE  IsBuilt(s)
<1>1. s \in Then(SizePart, Typed("TCP")) \/ s \in Typed("UDP")
  BY BuildersAssumption, BuiltIsExpected
<1>2. s \in Typed("UDP") => s[1].max = UdpCount
  BY TypedIsFields DEF TypeCount
<1> QED BY <1>1, <1>2 DEF IsBuilt

LEMMA TcpParts ==
    ASSUME NEW s \in Then(SizePart, Typed("TCP"))
    PROVE  /\ s \in Fields /\ s[1].max = U16 /\ s[1].value = 0
           /\ Tail(s) \in Typed("TCP") /\ Suffix(s, Tail(s), 2) /\ Len(s) >= 2
<1>1. Typed("TCP") \in SUBSET Fields
  BY TypedIsFields
<1>2. s \in Fields /\ s # <<>> /\ s[1] \in SizePart /\ Tail(s) \in Typed("TCP")
  <2>1. SizePart \in SUBSET AnyField
    BY DEF SizePart
  <2> QED BY <1>1, <2>1, ThenReads
<1>3. PICK r : r = Tail(s)
  OBVIOUS
<1>4. r \in Fields /\ r # <<>>
  BY <1>2, <1>3, TypedIsFields
<1>5. Len(r) = Len(s) - 1 /\ \A i \in 1 .. Len(r) : r[i] = s[i + 1]
  BY <1>2, <1>3, HeadTailProperties DEF Fields
<1>6. Len(s) \in Nat /\ Len(r) \in Nat /\ Len(r) # 0
  BY <1>2, <1>4, LenProperties, EmptySeq DEF Fields
<1>7. Suffix(s, r, 2)
  BY <1>4, <1>5, <1>6 DEF Suffix
<1> QED BY <1>2, <1>3, <1>5, <1>6, <1>7 DEF SizePart

LEMMA UdpParts ==
    ASSUME NEW s \in Typed("UDP")
    PROVE  s \in Fields /\ Suffix(s, s, 1) /\ Len(s) >= 1
<1>1. s \in Fields /\ s # <<>>
  BY TypedIsFields
<1>2. Len(s) \in Nat /\ Len(s) # 0
  BY <1>1, LenProperties, EmptySeq DEF Fields
<1> QED BY <1>1, <1>2 DEF Suffix

LEMMA InitPacket == PacketsInit => PacketInv
<1> SUFFICES ASSUME PacketsInit PROVE PacketInv
  OBVIOUS
<1>1. /\ phase = "write" /\ fields \in Messages /\ index = 1 /\ mask = 1 /\ tmp = 0
      /\ bitPos = 0 /\ starts = <<0>>
      /\ parse = [transport |-> IF fields[1].max = U16 THEN "TCP" ELSE "UDP",
                  kind |-> "", part |-> "type", chars |-> 0, players |-> 0]
  BY DEF PacketsInit, CodecInit
<1>2. IsBuilt(fields)
  BY <1>1, MessagesArePackets
<1>3. ParseInv(parse)
  BY <1>1 DEF ParseInv, ParseType, Kinds, PartNames, OtherParts
<1>4. phase = "write" /\ index = 1 /\ mask = 1 /\ tmp = 0 /\ bitPos = 0 /\ starts[1] = 0
  BY <1>1
<1>5. SizeBits
  <2>1. 2 * ByteBits \in Nat
    BY BufferAssumption
  <2>2. bitPos \in 0 .. 2 * ByteBits
    BY <1>4, <2>1
  <2>3. mask = TwoTo[bitPos]
    BY <1>4, TwoToIs, Zenon
  <2>4. ~(index > 1)
    BY <1>4
  <2> QED BY <1>4, <2>2, <2>3, <2>4 DEF SizeBits
<1> QED BY <1>1, <1>2, <1>3, <1>4, <1>5 DEF PacketInv

(* A size that is written has the bits of two bytes.                       *)
LEMMA SizeGoesOn ==
    ASSUME CodecInv, PacketInv, phase = "write", index = 1, fields[1].max = U16
    PROVE  /\ fields[1].value = 0 /\ bitPos \in 0 .. 2 * ByteBits
           /\ Continues(tmp, mask, fields[1].max) <=> bitPos < 2 * ByteBits
<1>1. IsBuilt(fields) /\ SizeBits
  BY DEF PacketInv
<1>2. fields \in Then(SizePart, Typed("TCP"))
  BY <1>1, RangesAssumption DEF IsBuilt
<1>3. fields[1].value = 0
  BY <1>2, TcpParts
<1>4. bitPos \in 0 .. 2 * ByteBits /\ mask = TwoTo[bitPos] /\ tmp = 0
  BY <1>1 DEF SizeBits
<1>5. 2 * ByteBits \in Nat
  BY BufferAssumption
<1>6. U16 \in 0 .. Word - 1 /\ Word \in Nat
  <2>1. fields \in Seq(Field) /\ Len(fields) >= 1
    BY <1>2, TcpParts, LenProperties DEF CodecInv, WriterInv, WriterTypes
  <2>2. fields[1] \in Field
    BY <2>1, LenProperties, ElementOfSeq
  <2> QED BY <2>2, WordAssumption DEF Field
<1>7. mask \in Nat \ {0}
  BY <1>4, TwoToIs
<1>8. CASE bitPos < 2 * ByteBits
  <2>1. bitPos \in 0 .. 2 * ByteBits - 1
    BY <1>4, <1>5, <1>8
  <2>2. mask < U16
    BY <1>4, <2>1, TwoToIs
  <2> QED BY <1>3, <1>4, <1>6, <1>7, <1>8, <2>2 DEF Continues
<1>9. CASE ~(bitPos < 2 * ByteBits)
  <2>1. bitPos = 2 * ByteBits
    BY <1>4, <1>5, <1>9
  <2>2. U16 = mask - 1
    BY <1>4, <2>1, SizeAssumption
  <2> QED BY <1>3, <1>4, <1>6, <1>7, <1>9, <2>2 DEF Continues
<1> QED BY <1>8, <1>9

LEMMA SizeBitsWriteBit ==
    ASSUME CodecInv, PacketInv, WriteBit
    PROVE  SizeBits' /\ starts'[1] = 0
<1>1. /\ phase = "write" /\ phase' = phase /\ UNCHANGED <<fields, index, starts>>
      /\ Continues(tmp, mask, fields[index].max)
      /\ tmp' = tmp + BitOf(fields[index].value, mask) * mask
      /\ mask' = 2 * mask /\ bitPos' = bitPos + 1
  BY DEF WriteBit
<1>2. ASSUME fields[1].max = U16, index = 1
      PROVE  bitPos' \in 0 .. 2 * ByteBits /\ mask' = TwoTo[bitPos'] /\ tmp' = 0
  <2>1. fields[1].value = 0 /\ bitPos \in 0 .. 2 * ByteBits /\ bitPos < 2 * ByteBits
    BY <1>1, <1>2, SizeGoesOn
  <2>2. mask = TwoTo[bitPos] /\ tmp = 0
    BY <1>1, <1>2 DEF PacketInv, SizeBits
  <2>3. 2 * ByteBits \in Nat
    BY BufferAssumption
  <2>4. bitPos \in 0 .. 2 * ByteBits - 1 /\ bitPos + 1 \in 0 .. 2 * ByteBits
    BY <2>1, <2>3
  <2>5. TwoTo[bitPos + 1] = 2 * mask /\ mask \in Nat \ {0}
    BY <2>1, <2>2, <2>4, TwoToIs
  <2>6. BitOf(0, mask) = 0
    <3>1. BitOf(0, mask) \in {0, 1} /\ 0 % (2 * mask) = (0 % mask) + BitOf(0, mask) * mask
      BY <2>5, BitOfRemainder
    <3>2. 0 % mask = 0 /\ 0 % (2 * mask) = 0
      <4>1. ASSUME NEW m \in Nat \ {0} PROVE 0 % m = 0
        <5>1. 0 = m * 0 + 0 /\ 0 \in 0 .. m - 1
          OBVIOUS
        <5> QED BY <5>1, RemainderFits
      <4>2. 2 * mask \in Nat \ {0}
        BY <2>5
      <4> QED BY <2>5, <4>1, <4>2
    <3> QED BY <2>5, <3>1, <3>2
  <2> QED BY <1>1, <1>2, <2>1, <2>2, <2>4, <2>5, <2>6
<1>3. fields[1].max = U16 /\ index > 1 => starts[2] = 2 * ByteBits
  BY DEF PacketInv, SizeBits
<1>4. starts[1] = 0
  BY DEF PacketInv
<1> QED BY <1>1, <1>2, <1>3, <1>4 DEF SizeBits

LEMMA SizeBitsWriteNext ==
    ASSUME CodecInv, PacketInv, WriteNext
    PROVE  SizeBits' /\ starts'[1] = 0
<1>1. /\ phase = "write" /\ phase' = phase /\ UNCHANGED fields
      /\ ~Continues(tmp, mask, fields[index].max)
      /\ index' = index + 1 /\ starts' = Append(starts, bitPos)
  BY DEF WriteNext
<1>2. PICK n \in Nat : n = index /\ n >= 1
  BY DEF CodecInv, WriterInv, WriterTypes
<1>3. starts \in Seq(Nat) /\ Len(starts) = n /\ bitPos \in Nat
  BY <1>2, BufferAssumption DEF CodecInv, WriterInv, WriterTypes
<1>4. /\ \A i \in 1 .. n : starts'[i] = starts[i]
      /\ starts'[n + 1] = bitPos
  BY <1>1, <1>3, AppendProperties
<1>5. starts'[1] = 0
  <2>1. 1 \in 1 .. n /\ starts[1] = 0
    BY <1>2 DEF PacketInv
  <2> QED BY <1>4, <2>1
<1>6. ASSUME fields[1].max = U16 PROVE starts'[2] = 2 * ByteBits
  <2>1. CASE n = 1
    <3>1. /\ bitPos \in 0 .. 2 * ByteBits
          /\ Continues(tmp, mask, fields[1].max) <=> bitPos < 2 * ByteBits
      BY <1>1, <1>2, <1>6, <2>1, SizeGoesOn
    <3>2. ~(bitPos < 2 * ByteBits) /\ 2 * ByteBits \in Nat
      BY <1>1, <1>2, <2>1, <3>1, BufferAssumption
    <3>3. bitPos = 2 * ByteBits
      BY <3>1, <3>2
    <3> QED BY <1>4, <2>1, <3>3
  <2>2. CASE n > 1
    <3>1. 2 \in 1 .. n
      BY <2>2
    <3>2. starts[2] = 2 * ByteBits
      BY <1>2, <1>6, <2>2 DEF PacketInv, SizeBits
    <3> QED BY <1>4, <3>1, <3>2
  <2> QED BY <1>2, <2>1, <2>2
<1>7. index' # 1
  BY <1>1, <1>2
<1> QED BY <1>1, <1>5, <1>6, <1>7 DEF SizeBits

(* While the packet is written, nothing of the handler changes.            *)
LEMMA WritingKeeps ==
    ASSUME CodecInv, PacketInv, WriteBit \/ WriteCut \/ WriteNext, UNCHANGED parse
    PROVE  PacketInv'
<1>1. phase = "write" /\ phase' \in {"write", "cut"} /\ UNCHANGED fields
  BY DEF WriteBit, WriteCut, WriteNext, writeVars
<1>2. SizeBits' /\ starts'[1] = 0
  <2>1. CASE WriteBit
    BY <2>1, SizeBitsWriteBit
  <2>2. CASE WriteNext
    BY <2>2, SizeBitsWriteNext
  <2>3. CASE WriteCut
    BY <2>3 DEF WriteCut, writeVars, PacketInv, SizeBits
  <2> QED BY <2>1, <2>2, <2>3
<1> QED BY <1>1, <1>2 DEF PacketInv

(* The reader is given the packet where its type begins.                   *)
LEMMA ReceiveReads ==
    ASSUME CodecInv, PacketInv, ReceivePacket
    PROVE  /\ PacketInv'
           /\ \E first \in 1 .. Len(fields) : BeginReading(first, starts[first])
<1>1. UNCHANGED parse /\ phase = "write"
  BY DEF ReceivePacket, BeginReading
<1>2. /\ IsBuilt(fields) /\ SizeBits /\ starts[1] = 0 /\ ParseInv(parse) /\ parse.part = "type"
      /\ parse.transport = IF fields[1].max = U16 THEN "TCP" ELSE "UDP"
  BY <1>1 DEF PacketInv
<1>3. Len(fields) \in Nat /\ index \in 1 .. Len(fields) + 1
  BY LenProperties DEF CodecInv, WriterInv, WriterTypes
<1>4. \E first \in {1, 2}, r \in Expected(parse) :
          /\ first <= Len(fields) /\ BeginReading(first, starts[first])
          /\ Suffix(fields, r, first)
  <2>1. CASE fields \in Then(SizePart, Typed("TCP"))
    <3>1. /\ fields[1].max = U16 /\ Tail(fields) \in Typed("TCP")
          /\ Suffix(fields, Tail(fields), 2) /\ Len(fields) >= 2
      BY <2>1, TcpParts
    <3>2. parse.transport = "TCP"
      BY <1>2, <3>1
    <3>3. BeginReading(2, 2 * ByteBits)
      BY <3>2 DEF ReceivePacket
    <3>4. index > 1
      BY <1>3, <3>1, <3>3 DEF BeginReading
    <3>5. starts[2] = 2 * ByteBits
      BY <1>2, <3>1, <3>4 DEF SizeBits
    <3>6. Expected(parse) = Typed("TCP")
      BY <1>2, <3>2 DEF Expected
    <3> QED BY <3>1, <3>3, <3>5, <3>6
  <2>2. CASE fields \in Typed("UDP") /\ fields[1].max = UdpCount
    <3>1. parse.transport = "UDP"
      BY <1>2, <2>2, RangesAssumption
    <3>2. BeginReading(1, 0)
      BY <3>1 DEF ReceivePacket
    <3>3. Expected(parse) = Typed("UDP")
      BY <1>2, <3>1 DEF Expected
    <3>4. Suffix(fields, fields, 1) /\ Len(fields) >= 1
      BY <2>2, UdpParts
    <3> QED BY <1>2, <2>2, <3>2, <3>3, <3>4
  <2> QED BY <1>2, <2>1, <2>2 DEF IsBuilt
<1>5. PICK first \in {1, 2}, r \in Expected(parse) :
          /\ first <= Len(fields) /\ BeginReading(first, starts[first])
          /\ Suffix(fields, r, first)
  BY <1>4
<1>6. phase' = "read" /\ rindex' = first /\ UNCHANGED <<fields, starts, index>>
  BY <1>5 DEF BeginReading, writeVars
<1>7. SizeBits'
  BY <1>2, <1>6 DEF SizeBits
<1>8. PacketInv'
  BY <1>1, <1>2, <1>5, <1>6, <1>7 DEF PacketInv
<1>9. first \in 1 .. Len(fields)
  BY <1>3, <1>5
<1> QED BY <1>5, <1>8, <1>9

(* What the handler has before it.                                         *)
LEMMA NextIsRead ==
    ASSUME CodecInv, PacketInv, phase = "read", parse.part # "end"
    PROVE  /\ rindex \in 1 .. Len(fields)
           /\ fields[rindex].part = parse.part /\ fields[rindex].max = MaxOf(parse)
           /\ \A v : v \in Nat /\ (fields[rindex].value < fields[rindex].max => v = fields[rindex].value)
                 => /\ ParseInv(After(parse, v))
                    /\ \E r \in Expected(After(parse, v)) : Suffix(fields, r, rindex + 1)
<1>1. PICK k : k = rindex
  OBVIOUS
<1>2. PICK r \in Expected(parse) : Suffix(fields, r, k)
  BY <1>1 DEF PacketInv
<1>3. ParseInv(parse)
  BY DEF PacketInv
<1>4. Reads(parse, r)
  BY <1>2, <1>3, EveryPartReads
<1>5. Len(fields) \in Nat /\ k \in 1 .. Len(fields) + 1
  BY <1>1, WrittenAndRead
<1>6. /\ r \in Seq(AnyField) /\ r # <<>> /\ Len(r) = Len(fields) + 1 - k
      /\ \A i \in 1 .. Len(r) : r[i] = fields[k + i - 1]
  BY <1>2, <1>4 DEF Suffix, Reads, Fields
<1>7. Len(r) \in Nat /\ Len(r) # 0
  BY <1>6, LenProperties, EmptySeq
<1>8. k \in 1 .. Len(fields) /\ r[1] = fields[k]
  <2>1. 1 \in 1 .. Len(r) /\ k + 1 - 1 = k
    BY <1>5, <1>7
  <2>2. r[1] = fields[k + 1 - 1]
    BY <1>6, <2>1
  <2> QED BY <1>5, <1>6, <1>7, <2>1, <2>2
<1>9. PICK t : t = Tail(r)
  OBVIOUS
<1>10. Suffix(fields, t, k + 1)
  <2>1. t \in Seq(AnyField) /\ Len(t) = Len(r) - 1 /\ \A i \in 1 .. Len(t) : t[i] = r[i + 1]
    BY <1>6, <1>9, HeadTailProperties
  <2>2. ASSUME NEW i \in 1 .. Len(t) PROVE t[i] = fields[(k + 1) + i - 1]
    <3>1. i + 1 \in 1 .. Len(r) /\ k + (i + 1) - 1 = (k + 1) + i - 1
      BY <1>5, <1>7, <2>1
    <3>2. r[i + 1] = fields[k + (i + 1) - 1]
      BY <1>6, <3>1
    <3> QED BY <2>1, <3>1, <3>2
  <2>3. Len(t) = Len(fields) + 1 - (k + 1)
    BY <1>5, <1>6, <1>7, <2>1
  <2> QED BY <2>1, <2>2, <2>3 DEF Suffix, Fields
<1>11. ASSUME NEW v, v \in Nat, fields[k].value < fields[k].max => v = fields[k].value
       PROVE  ParseInv(After(parse, v)) /\ t \in Expected(After(parse, v))
  <2>1. ReadAs(v, r)
    BY <1>8, <1>11 DEF ReadAs
  <2> QED BY <1>4, <1>9, <2>1 DEF Reads
<1>12. fields[k].part = parse.part /\ fields[k].max = MaxOf(parse)
  BY <1>4, <1>8 DEF Reads
<1> QED BY <1>1, <1>8, <1>10, <1>11, <1>12

(* An integer that kept to its range is read as it was written.            *)
LEMMA RightValue ==
    ASSUME CodecInv, rindex \in 1 .. Len(fields), ReadNext(fields[rindex].max)
    PROVE  rvalue \in Nat /\ (fields[rindex].value < fields[rindex].max => rvalue = fields[rindex].value)
<1>1. PICK k : k = rindex
  OBVIOUS
<1>2. phase = "read" /\ ~Continues(rvalue, rmask, fields[k].max) /\ k \in 1 .. Len(fields)
  BY <1>1 DEF ReadNext
<1>3. rindex <= Len(fields) /\ Len(fields) \in Nat
  BY <1>2, WrittenAndRead
<1>4. /\ starts[k] \in 0 .. starts[k + 1] /\ starts[k + 1] \in 0 .. bitPos /\ bitPos \in Nat
      /\ rbitPos \in starts[k] .. starts[k + 1]
      /\ ~(rbitPos < starts[k + 1])
      /\ rbitPos = starts[k + 1] => written[k] = [mask |-> rmask, tmp |-> rvalue]
  BY <1>1, <1>2, <1>3, ReaderFollows, WrittenAndRead
<1>5. rbitPos = starts[k + 1]
  BY <1>4
<1>6. written[k].mask = rmask /\ written[k].tmp = rvalue
  BY <1>4, <1>5
<1>7. Finished(k)
  BY <1>2, WrittenAndRead
<1>8. rvalue = fields[k].value % rmask
  BY <1>6, <1>7 DEF Finished, Holds
<1>9. rmask \in Nat \ {0} /\ rvalue \in Nat
  BY DEF CodecInv, ReaderInv
<1>10. fields[k].value \in 0 .. Word - 1 /\ fields[k].max \in Nat
  BY <1>2, FieldHasType DEF CodecInv, WriterInv, WriterTypes
<1>11. fields[k].value < fields[k].max => rvalue = fields[k].value
  BY <1>2, <1>8, <1>9, <1>10, WholeValue
<1> QED BY <1>1, <1>9, <1>11

LEMMA ReadIntReads ==
    ASSUME CodecInv, PacketInv, ReadInt
    PROVE  /\ PacketInv'
           /\ rindex <= Len(fields) /\ (ReadBit(fields[rindex].max) \/ ReadNext(fields[rindex].max))
<1>1. phase = "read" /\ parse.part # "end"
  BY DEF ReadInt, ReadBit, ReadNext
<1>2. rindex \in 1 .. Len(fields) /\ fields[rindex].max = MaxOf(parse)
  BY <1>1, NextIsRead
<1>3. rindex <= Len(fields) /\ rindex \in Nat
  BY <1>1, <1>2, WrittenAndRead
<1>4. /\ IsBuilt(fields) /\ starts[1] = 0 /\ SizeBits /\ ParseInv(parse)
      /\ \E r \in Expected(parse) : Suffix(fields, r, rindex)
  BY <1>1 DEF PacketInv
<1>5. CASE ReadBit(MaxOf(parse)) /\ UNCHANGED parse
  <2>1. phase' = "read" /\ UNCHANGED <<fields, starts, index, rindex>>
    BY <1>5 DEF ReadBit, writeVars
  <2>2. SizeBits'
    BY <1>4, <2>1 DEF SizeBits
  <2>3. PacketInv'
    BY <1>3, <1>4, <1>5, <2>1, <2>2, <1>2 DEF PacketInv
  <2> QED BY <1>2, <1>3, <1>5, <2>3
<1>6. CASE ReadNext(MaxOf(parse)) /\ parse' = After(parse, rvalue)
  <2>1. phase' = "read" /\ rindex' = rindex + 1 /\ UNCHANGED <<fields, starts, index>>
    BY <1>1, <1>6 DEF ReadNext, writeVars
  <2>2. SizeBits'
    BY <1>4, <2>1 DEF SizeBits
  <2>3. rvalue \in Nat /\ (fields[rindex].value < fields[rindex].max => rvalue = fields[rindex].value)
    BY <1>2, <1>6, RightValue
  <2>4. /\ ParseInv(After(parse, rvalue))
        /\ \E r \in Expected(After(parse, rvalue)) : Suffix(fields, r, rindex + 1)
    BY <1>1, <2>3, NextIsRead
  <2>5. ParseInv(parse') /\ \E r \in Expected(parse') : Suffix(fields', r, rindex')
    BY <1>6, <2>1, <2>4
  <2>6. rindex' >= 1
    BY <1>3, <1>2, <2>1
  <2>7. PacketInv'
    BY <1>4, <2>1, <2>2, <2>5, <2>6 DEF PacketInv
  <2> QED BY <1>2, <1>3, <1>6, <2>7
<1> QED BY <1>5, <1>6 DEF ReadInt

LEMMA ReturnEnds ==
    ASSUME CodecInv, PacketInv, HandlerReturns
    PROVE  PacketInv' /\ rindex > Len(fields) /\ EndReading
<1>1. /\ phase = "read" /\ phase' = "done" /\ parse.part = "end"
      /\ UNCHANGED <<fields, starts, index, parse>> /\ EndReading
  BY DEF HandlerReturns, EndReading, writeVars
<1>2. PICK r \in Expected(parse) : Suffix(fields, r, rindex)
  BY <1>1 DEF PacketInv
<1>3. r = <<>>
  BY <1>1, <1>2 DEF Expected, Nothing
<1>4. Len(r) = 0 /\ Len(r) = Len(fields) + 1 - rindex
  BY <1>2, <1>3 DEF Suffix
<1>5. Len(fields) \in Nat /\ rindex \in 1 .. Len(fields) + 1
  BY <1>1, WrittenAndRead
<1>6. rindex > Len(fields)
  BY <1>4, <1>5
<1>7. PacketInv'
  BY <1>1 DEF PacketInv, SizeBits
<1> QED BY <1>1, <1>6, <1>7

LEMMA PacketStep ==
    CodecInv /\ PacketInv /\ [PacketsNext]_packetVars => PacketInv' /\ [CodecNext]_codecVars
<1> SUFFICES ASSUME CodecInv, PacketInv, [PacketsNext]_packetVars
             PROVE  PacketInv' /\ [CodecNext]_codecVars
  OBVIOUS
<1>1. CASE (WriteBit \/ WriteCut \/ WriteNext) /\ UNCHANGED parse
  BY <1>1, WritingKeeps DEF CodecNext
<1>2. CASE ReceivePacket
  BY <1>2, ReceiveReads DEF CodecNext
<1>3. CASE ReadInt
  BY <1>3, ReadIntReads DEF CodecNext
<1>4. CASE HandlerReturns
  BY <1>4, ReturnEnds DEF CodecNext
<1>5. CASE UNCHANGED packetVars
  <2>1. UNCHANGED codecVars /\ UNCHANGED parse
    BY <1>5 DEF packetVars
  <2>2. UNCHANGED <<phase, fields, index, mask, tmp, bitPos, starts, rindex>>
    BY <2>1 DEF codecVars, writeVars, readVars
  <2>3. PacketInv'
    BY <2>1, <2>2 DEF PacketInv, SizeBits
  <2> QED BY <2>1, <2>3
<1> QED BY <1>1, <1>2, <1>3, <1>4, <1>5 DEF PacketsNext

LEMMA PacketsInvariant == PacketsSpec => [](CodecInv /\ PacketInv)
<1>1. PacketsInit => CodecInv /\ PacketInv
  BY InitCodec, InitPacket DEF PacketsInit
<1>2. CodecInv /\ PacketInv /\ [PacketsNext]_packetVars => (CodecInv /\ PacketInv)'
  BY PacketStep, StepKeepsCodec
<1> QED BY <1>1, <1>2, PTL DEF PacketsSpec

(* The handlers of client and server ask for the ranges their packets were *)
(* written with, in that order and all of them: a run of Packets is one of *)
(* BitCodec (NetMessage.h:14).                                             *)
THEOREM PacketsImplementCodec == PacketsSpec => ImplementsCodec
<1>1. PacketsInit => CodecInit
  BY DEF PacketsInit
<1>2. CodecInv /\ PacketInv /\ [PacketsNext]_packetVars => [CodecNext]_codecVars
  BY PacketStep
<1> QED BY <1>1, <1>2, PacketsInvariant, PTL DEF PacketsSpec, ImplementsCodec, CodecSpec

(* Each integer that a handler reads is the one that the writer put there  *)
(* for it, also where the next one has the same range.                     *)
THEOREM HandlersRead == PacketsSpec => []HandlersReadTheirParts
<1>1. CodecInv /\ PacketInv => HandlersReadTheirParts
  <2> SUFFICES ASSUME CodecInv, PacketInv, phase = "read", parse.part # "end"
               PROVE  rindex <= Len(fields) /\ fields[rindex].part = parse.part
    BY DEF HandlersReadTheirParts
  <2>1. rindex \in 1 .. Len(fields) /\ fields[rindex].part = parse.part
    BY NextIsRead
  <2>2. Len(fields) \in Nat
    BY WrittenAndRead
  <2> QED BY <2>1, <2>2
<1> QED BY <1>1, PacketsInvariant, PTL

(* So what BitCodec promises holds of every packet of the game.            *)
THEOREM PacketsSurvive == PacketsSpec => [](ReaderInStep /\ ValuesSurvive /\ ReadsStayInside)
<1>1. CodecSpec => []ReaderInStep /\ []ValuesSurvive /\ []ReadsStayInside
  BY ReaderStaysInStep, ValuesAlwaysSurvive, ReaderStaysInside
<1>2. PacketsSpec => CodecSpec
  BY PacketsImplementCodec DEF ImplementsCodec
<1> QED BY <1>1, <1>2, PTL
===============================================================================
