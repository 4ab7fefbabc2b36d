-------------------------------- MODULE Packets --------------------------------
(***************************************************************************)
(* The packets of the game: what each function that builds one writes      *)
(* (client: NetworkService::SendTCPPacket and InputNetMessage::Serialize;  *)
(* server: Match::BuildIntro, MatchManager::UpdateResults,                 *)
(* HandlePacketTimeSync), and what each handler on the other side reads,   *)
(* which learns from the values it has read how the packet goes on.  The   *)
(* bits are those of BitCodec, and what has to hold is that the two sides  *)
(* agree: the reader asks for the ranges that were written, in order.      *)
(*                                                                         *)
(* A TCP packet begins with two bytes that are written as the integer 0    *)
(* and then overwritten with GetByteSize; whoever cuts packets out of the  *)
(* stream takes them off, and the reader starts behind them.               *)
(***************************************************************************)
EXTENDS BitCodec, SequencesExt

CONSTANTS
    U8, U16, U32,      \* the greatest value of each type, used as its bound
    TcpCount,          \* TCPPacketType::COUNT
    UdpCount,          \* UDPPacketType::COUNT
    IntentCount,       \* InputIntent::COUNT
    MaxMatchPlayer,    \* MatchConstants::MAX_MATCH_PLAYER
    \* what the builders are called with
    Names, Ports, MatchIds, Times, Intents,
    Conns              \* the players of a match, as Match::conn has them

VARIABLE
    parse    \* what the handler expects next: transport, kind, part, and its counters

packetVars == <<codecVars, parse>>

-----------------------------------------------------------------------------
(* The parts of packets and the ranges both sides name for them            *)

TcpTypes == <<"MATCH_REQUEST", "MATCH_CANCEL", "MATCH_INTRO", "TIME_SYNC_REQ",
              "TIME_SYNC_RES", "MATCH_INTRO_SUCCESS", "MATCH_INTRO_FAILED", "MATCH_START">>

UdpTypes == <<"HELLO", "WELCOME", "INPUT">>

Types(transport) == IF transport = "TCP" THEN TcpTypes ELSE UdpTypes

TypeCount(transport) == IF transport = "TCP" THEN TcpCount ELSE UdpCount

NumberOf(transport, kind) ==
    CHOOSE n \in 0 .. Len(Types(transport)) - 1 : Types(transport)[n + 1] = kind

WriteInt(part, v, m) == [part |-> part, value |-> v, max |-> m]

-----------------------------------------------------------------------------
(* What is written                                                         *)

TcpHeader(kind) == <<WriteInt("size", 0, U16), WriteInt("type", NumberOf("TCP", kind), TcpCount)>>

Text(name) == <<WriteInt("nameSize", Len(name), U16)>> \o [i \in 1 .. Len(name) |-> WriteInt("char", name[i], U8)]

(* NetworkService::SendTCPPacket of the client *)
SendTCPPacket(kind, name, port, matchId) ==
    TcpHeader(kind) \o
    CASE kind = "MATCH_REQUEST" -> Text(name) \o <<WriteInt("port", port, U16)>>
      [] kind \in {"MATCH_CANCEL", "MATCH_INTRO_SUCCESS", "MATCH_INTRO_FAILED"} ->
            <<WriteInt("matchId", matchId, U16)>>
      [] kind = "TIME_SYNC_REQ" -> <<>>

(* Match's MATCH_INTRO to player me; conn is what it knows of the players. *)
IntroOfPlayer(c) ==
    <<WriteInt("playerId", c.playerId, U8)>> \o Text(c.name) \o <<WriteInt("addr", c.addr, U32), WriteInt("port", c.port, U16)>>

MatchIntro(matchId, conn, me) ==
    TcpHeader("MATCH_INTRO") \o <<WriteInt("matchId", matchId, U16), WriteInt("playerNum", MaxMatchPlayer, U8)>>
    \o FlattenSeq([k \in 1 .. MaxMatchPlayer |-> IntroOfPlayer(conn[k])])
    \o <<WriteInt("myId", conn[me].playerId, U8)>>

MatchStart(time) == TcpHeader("MATCH_START") \o <<WriteInt("time", time, U32)>>

HandlePacketTimeSync(time) == TcpHeader("TIME_SYNC_RES") \o <<WriteInt("time", time, U32)>>

(* NetworkService::BuildUDPPacket; an INPUT goes on with what              *)
(* InputNetMessage::Serialize writes.                                      *)
BuildUDPPacket(kind) == <<WriteInt("type", NumberOf("UDP", kind), UdpCount)>>

Serialize(tick, down, held) ==
    BuildUDPPacket("INPUT")
    \o <<WriteInt("tick", tick, U32), WriteInt("down", down, IntentCount), WriteInt("held", held, IntentCount)>>

(* Every packet that client or server may send. *)
Built ==
    {SendTCPPacket("MATCH_REQUEST", name, port, 0) : name \in Names, port \in Ports}
    \cup {SendTCPPacket(kind, <<>>, 0, id) :
            kind \in {"MATCH_CANCEL", "MATCH_INTRO_SUCCESS", "MATCH_INTRO_FAILED", "TIME_SYNC_REQ"},
            id \in MatchIds}
    \cup {MatchIntro(id, conn, me) : id \in MatchIds, conn \in Conns, me \in 1 .. MaxMatchPlayer}
    \cup {MatchStart(time) : time \in Times}
    \cup {HandlePacketTimeSync(time) : time \in Times}
    \cup {BuildUDPPacket(kind) : kind \in {"HELLO", "WELCOME"}}
    \cup {Serialize(tick, down, held) : tick \in Times, down \in Intents, held \in Intents}

ASSUME BuildersAssumption == Messages \subseteq Built

(* COUNT is the last enumerator, and the bounds are those of the types.    *)
ASSUME RangesAssumption ==
    /\ {U8, U16, U32, TcpCount, UdpCount, IntentCount} \subseteq Nat
    /\ Len(TcpTypes) <= TcpCount
    /\ Len(UdpTypes) <= UdpCount /\ UdpCount # U16

(* The two numbers that a handler counts its rounds by are in their ranges *)
(* (a value at the bound would lose its last bit): a name of 65535         *)
(* characters would not fit the buffer.                                    *)
ASSUME CountsAssumption ==
    /\ MaxMatchPlayer \in Nat /\ MaxMatchPlayer < U8
    /\ \A name \in Names : name \in Seq(Nat) /\ Len(name) < U16
    /\ Ports \cup MatchIds \cup Times \cup Intents \subseteq Nat
    /\ Conns \subseteq [1 .. MaxMatchPlayer -> [playerId : Nat, name : Names, addr : Nat, port : Nat]]

(* A uint16_t has the bits of two bytes.                                   *)
TwoTo[n \in 0 .. 2 * ByteBits] == IF n = 0 THEN 1 ELSE 2 * TwoTo[n - 1]

ASSUME SizeAssumption == U16 = TwoTo[2 * ByteBits] - 1

-----------------------------------------------------------------------------
(* What is read.  parse.part names the integer the handler asks for next,  *)
(* chars and players are the rounds its loops have left.                   *)

MaxOf(p) ==
    CASE p.part = "type" -> TypeCount(p.transport)
      [] p.part \in {"matchId", "nameSize", "port"} -> U16
      [] p.part \in {"playerNum", "playerId", "char", "myId"} -> U8
      [] p.part \in {"addr", "time", "tick"} -> U32
      [] p.part \in {"down", "held"} -> IntentCount

(* The first part each handler reads; the switch over the type. *)
Handler(kind) ==
    CASE kind = "MATCH_REQUEST" -> "nameSize"
      [] kind \in {"MATCH_CANCEL", "MATCH_INTRO_SUCCESS", "MATCH_INTRO_FAILED",
                   "MATCH_INTRO"} -> "matchId"
      [] kind \in {"TIME_SYNC_RES", "MATCH_START"} -> "time"
      [] kind = "INPUT" -> "tick"
      [] OTHER -> "end"

ReadType(p, v) ==
    LET kind == Types(p.transport)[v + 1]
    IN  [p EXCEPT !.kind = kind, !.part = Handler(kind)]

(* The name of a MATCH_REQUEST and of a player in a MATCH_INTRO is read by *)
(* the same loop; what follows it differs.                                 *)
AfterName(p) == [p EXCEPT !.chars = 0,
                          !.part = IF p.kind = "MATCH_INTRO" THEN "addr" ELSE "port"]

(* Mutant: the loop over the characters runs once more. *)
ReadNameAndOne(p, v) ==
    CASE p.part = "nameSize" -> [p EXCEPT !.part = "char", !.chars = v + 1]
      [] p.part = "char" /\ p.chars > 1 -> [p EXCEPT !.chars = @ - 1]
      [] OTHER -> AfterName(p)

ReadName(p, v) ==
    CASE p.part = "nameSize" /\ v > 0 -> [p EXCEPT !.part = "char", !.chars = v]
      [] p.part = "char" /\ p.chars > 1 -> [p EXCEPT !.chars = @ - 1]
      [] OTHER -> AfterName(p)

(* HandlePacketRequest of the server *)
ReadRequest(p, v) ==
    IF p.part \in {"nameSize", "char"} THEN ReadName(p, v) ELSE [p EXCEPT !.part = "end"]

(* HandleMatchIntroPacket of the client *)
ReadIntro(p, v) ==
    CASE p.part = "matchId" -> [p EXCEPT !.part = "playerNum"]
      [] p.part = "playerNum" -> [p EXCEPT !.players = v,
                                    !.part = IF v > 0 THEN "playerId" ELSE "myId"]
      [] p.part = "playerId" -> [p EXCEPT !.part = "nameSize"]
      [] p.part \in {"nameSize", "char"} -> ReadName(p, v)
      [] p.part = "addr" -> [p EXCEPT !.part = "port"]
      [] p.part = "port" -> [p EXCEPT !.players = @ - 1,
                               !.part = IF p.players > 1 THEN "playerId" ELSE "myId"]
      [] p.part = "myId" -> [p EXCEPT !.part = "end"]

(* HandleServerTimeSyncPacket and HandleMatchStartPacket of the client *)
ReadTime(p) == [p EXCEPT !.part = "end"]

(* Mutant: the order of declaration, which is not the order of Serialize. *)
DeserializeHeldFirst(p) ==
    [p EXCEPT !.part = CASE p.part = "tick" -> "held"
                         [] p.part = "held" -> "down"
                         [] p.part = "down" -> "end"]

(* InputNetMessage::Deserialize *)
Deserialize(p) ==
    [p EXCEPT !.part = CASE p.part = "tick" -> "down"
                         [] p.part = "down" -> "held"
                         [] p.part = "held" -> "end"]

After(p, v) ==
    CASE p.part = "type" -> ReadType(p, v)
      [] p.part # "type" /\ p.kind = "MATCH_INTRO" -> ReadIntro(p, v)
      [] p.part = "time" -> ReadTime(p)
      [] p.part \in {"tick", "down", "held"} -> Deserialize(p)
      [] OTHER -> ReadRequest(p, v)

-----------------------------------------------------------------------------
PacketsInit ==
    /\ CodecInit
    /\ parse = [transport |-> IF fields[1].max = U16 THEN "TCP" ELSE "UDP",
                kind |-> "", part |-> "type", chars |-> 0, players |-> 0]

(* ExtractPacket has taken the two bytes of the size off a TCP packet. *)
ReceivePacket ==
    /\ IF parse.transport = "TCP" THEN BeginReading(2, 2 * ByteBits) ELSE BeginReading(1, 0)
    /\ UNCHANGED parse

ReadInt ==
    /\ parse.part # "end"
    /\ \/ ReadBit(MaxOf(parse)) /\ UNCHANGED parse
       \/ ReadNext(MaxOf(parse)) /\ parse' = After(parse, rvalue)

HandlerReturns ==
    /\ parse.part = "end"
    /\ EndReading
    /\ UNCHANGED parse

PacketsNext ==
    \/ (WriteBit \/ WriteCut \/ WriteNext) /\ UNCHANGED parse
    \/ ReceivePacket
    \/ ReadInt
    \/ HandlerReturns

PacketsSpec == PacketsInit /\ [][PacketsNext]_packetVars

-----------------------------------------------------------------------------
(* Properties                                                              *)

PacketsTypeOK ==
    /\ CodecTypeOK
    /\ parse.transport \in {"TCP", "UDP"}
    /\ parse.kind \in {""} \cup {Types(parse.transport)[n] : n \in 1 .. Len(Types(parse.transport))}
    /\ parse.chars \in Nat /\ parse.players \in Nat

(* Serialize() and Deserialize() must remain strictly symmetric            *)
(* (NetMessage.h:14): whatever the packet, its handler asks for the ranges *)
(* that were written, all of them and no more, starting where the size     *)
(* field ends.  So everything BitCodec promises holds of the packets.      *)
ImplementsCodec == CodecSpec

(* The handler takes each integer for what its writer meant, also where    *)
(* two neighbours have the same range (down and held, port and matchId).   *)
HandlersReadTheirParts ==
    phase = "read" /\ parse.part # "end" =>
        rindex <= Len(fields) /\ fields[rindex].part = parse.part
===============================================================================
