---------------------------- MODULE HandshakeProofs ----------------------------
(***************************************************************************)
(* Proofs about Handshake: that a WELCOME only comes from an address that  *)
(* its receiver knows, and that a MATCH_START finds a client that does not *)
(* ask again too early in the lobby, with a fresh clock offset.            *)
(*                                                                         *)
(* The second argument is about one such client (OneMatchInv), whatever    *)
(* the others do: the order of the packets on its two connections, and     *)
(* what the server has of it, decide what a packet finds when it is        *)
(* handled.  Of the server they use only what MatchService promises.       *)
(***************************************************************************)
EXTENDS Handshake, SequenceLemmas

ServerPackets ==
    [type : {"MATCH_REQUEST"}] \cup [type : {"TIME_SYNC_REQ"}, at : MatchIds]
    \cup [type : {"MATCH_INTRO_SUCCESS"}, matchId : MatchIds]

ClientPackets ==
    [type : {"MATCH_INTRO"}, matchId : MatchIds, addresses : [PlayerIds -> Addresses],
     playerId : PlayerIds]
    \cup [type : {"TIME_SYNC_RES"}, at : MatchIds]
    \cup [type : {"MATCH_START"}, matchId : MatchIds]

States == {"NSS_Uninitialized", "NSS_Hello", "NSS_Lobby", "NSS_Starting", "NSS_Playing"}

AddressMaps == UNION {[as -> PlayerIds] : as \in SUBSET Addresses}

(* TypeOK, and that the queues and the maps are made of what they hold.    *)
TypeInv ==
    /\ netState_ \in [Clients -> States]
    /\ matchID_ \in [Clients -> 0 .. MaxMatches]
    /\ playerID_ \in [Clients -> PlayerIds]
    /\ peerConnected \in [Clients -> [PlayerIds -> BOOLEAN] \cup {<<>>}]
    /\ conn \in [Clients -> [PlayerIds -> Addresses] \cup {<<>>}]
    /\ addToId \in [Clients -> AddressMaps]
    /\ sendTime \in [Clients -> 0 .. MaxMatches]
    /\ serverTimeOffset \in [Clients -> [own : 0 .. MaxMatches, server : 0 .. MaxMatches]]
    /\ heard \in [Clients -> SUBSET Clients]
    /\ requested \in [Clients -> 0 .. MaxRequests]
    /\ asked \in [Clients -> {"none", "one", "more"}]
    /\ datagrams \in SUBSET UdpPacket
    /\ toServer \in [Clients -> Seq(ServerPackets)]
    /\ toClient \in [Clients -> Seq(ClientPackets)]
    /\ inBuffer \in [Clients -> Nat]
    /\ waiting \in SUBSET Clients
    /\ DOMAIN offers \in SUBSET MatchRequest
    /\ matches \in Seq(Match)
    /\ Len(matches) <= MaxMatches

(* A client in a match has its vectors and maps; every address that it may *)
(* have greeted, and from which it may be welcomed, is in addToId.         *)
AddressInv ==
    /\ \A c \in Clients : matchID_[c] = 0 => conn[c] = <<>> /\ DOMAIN addToId[c] = {}
    /\ \A c \in Clients :
          matchID_[c] # 0 =>
              /\ peerConnected[c] \in [PlayerIds -> BOOLEAN]
              /\ conn[c] \in [PlayerIds -> Addresses]
              /\ \A p \in PlayerIds : conn[c][p] \in DOMAIN addToId[c]
    /\ \A c, d \in Clients :
          Hello(c, d) \in datagrams \/ Welcome(d, c) \in datagrams =>
              matchID_[c] # 0 /\ d \in DOMAIN addToId[c]

(***************************************************************************)
(* What holds of a client that does not ask for a match again before the   *)
(* one that it asked for has begun.                                        *)
(***************************************************************************)
Acked(m, c) == c \in matches[m].acked

Started(m) == m \in DOMAIN matches /\ matches[m].over /\ AllAcked(m)

Asking(c) == \E i \in 1 .. Len(toServer[c]) : toServer[c][i].type = "MATCH_REQUEST"

(* Not in a match, nor waiting for one: the server owes the client nothing. *)
Settled(c) ==
    /\ toClient[c] = <<>>
    /\ c \notin waiting
    /\ \A m \in DOMAIN matches : Playing(m, c) => matches[m].over
    /\ \A i \in 1 .. Len(toServer[c]) : toServer[c][i].type # "TIME_SYNC_REQ"

(* It has at most one request on its way, and only when it is free.        *)
PlaceInv(c) ==
    /\ asked[c] = "none" \/ Asking(c) => Settled(c)
    /\ asked[c] = "none" => ~ Asking(c)
    /\ \A i, j \in 1 .. Len(toServer[c]) :
          toServer[c][i].type = "MATCH_REQUEST" /\ toServer[c][j].type = "MATCH_REQUEST" => i = j

(* Not over for the client.                                                *)
Open(m, c) ==
    \/ ~ matches[m].over
    \/ \E i \in 1 .. Len(toClient[c]) :
          toClient[c][i].type = "MATCH_START" /\ toClient[c][i].matchId = m

(* While a match that is open has the client, it waits for no other and is *)
(* in no later one.                                                        *)
RosterInv(c) ==
    \A m \in DOMAIN matches :
        Playing(m, c) /\ Open(m, c) =>
            /\ c \notin waiting
            /\ \A n \in DOMAIN matches : Playing(n, c) => n <= m

(* It has been introduced to matches of its own, in the order in which     *)
(* they were made.                                                         *)
IntroInv(c) ==
    /\ matchID_[c] # 0 => matchID_[c] \in DOMAIN matches /\ Playing(matchID_[c], c)
    /\ \A i \in 1 .. Len(toClient[c]) :
          toClient[c][i].type = "MATCH_INTRO" =>
              LET m == toClient[c][i].matchId
              IN  /\ m \in DOMAIN matches /\ Playing(m, c) /\ matchID_[c] < m
                  /\ \A j \in 1 .. i - 1 :
                        toClient[c][j].type = "MATCH_INTRO" => toClient[c][j].matchId < m

(* It has been in match m, and connected to all of its peers.              *)
Reported(c, m) ==
    /\ m \in DOMAIN matches
    /\ m <= matchID_[c]
    /\ m = matchID_[c] => netState_[c] \in {"NSS_Lobby", "NSS_Starting", "NSS_Playing"}

(* It reports no match before it is connected in it.                       *)
ReportInv(c) ==
    /\ \A m \in DOMAIN matches : Acked(m, c) => Reported(c, m)
    /\ \A i \in 1 .. Len(toServer[c]) :
          toServer[c][i].type = "MATCH_INTRO_SUCCESS" => Reported(c, toServer[c][i].matchId)

(* A MATCH_START is the last packet to a client, which is in that lobby.   *)
StartInv(c) ==
    /\ \A i \in 1 .. Len(toClient[c]) :
          toClient[c][i].type = "MATCH_START" =>
              LET m == toClient[c][i].matchId
              IN  /\ i = Len(toClient[c])
                  /\ Started(m) /\ Playing(m, c)
                  /\ netState_[c] = "NSS_Lobby" /\ matchID_[c] = m
    /\ netState_[c] \in {"NSS_Starting", "NSS_Playing"} =>
          matchID_[c] # 0 /\ Started(matchID_[c])

(* The TIME_SYNC_REQ of its match is on its way, before the report of it;  *)
(* or its answer is; or the answer has been handled, the last there was.   *)
SyncAsked(c) ==
    \E i \in 1 .. Len(toServer[c]) :
        /\ toServer[c][i].type = "TIME_SYNC_REQ" /\ toServer[c][i].at = matchID_[c]
        /\ \A j \in 1 .. i :
              ~ (toServer[c][j].type = "MATCH_INTRO_SUCCESS" /\ toServer[c][j].matchId = matchID_[c])
        /\ ~ Acked(matchID_[c], c)

SyncAnswered(c) ==
    \E i \in 1 .. Len(toClient[c]) :
        toClient[c][i].type = "TIME_SYNC_RES" /\ toClient[c][i].at = matchID_[c]

SyncDone(c) ==
    /\ serverTimeOffset[c] = [own |-> matchID_[c], server |-> matchID_[c]]
    /\ \A i \in 1 .. Len(toServer[c]) : toServer[c][i].type # "TIME_SYNC_REQ"
    /\ \A i \in 1 .. Len(toClient[c]) : toClient[c][i].type # "TIME_SYNC_RES"

(* The requests and the answers of a client come in the order of their     *)
(* matches, and every request after every answer to an earlier one.        *)
SyncInv(c) ==
    /\ sendTime[c] = matchID_[c]
    /\ \A i \in 1 .. Len(toServer[c]) :
          toServer[c][i].type = "TIME_SYNC_REQ" =>
              /\ toServer[c][i].at <= matchID_[c]
              /\ \A j \in 1 .. i - 1 :
                    toServer[c][j].type = "TIME_SYNC_REQ" => toServer[c][j].at < toServer[c][i].at
              /\ \A j \in 1 .. Len(toClient[c]) :
                    toClient[c][j].type = "TIME_SYNC_RES" => toClient[c][j].at < toServer[c][i].at
    /\ \A i \in 1 .. Len(toClient[c]) :
          toClient[c][i].type = "TIME_SYNC_RES" =>
              /\ toClient[c][i].at <= matchID_[c]
              /\ \A j \in 1 .. i - 1 :
                    toClient[c][j].type = "TIME_SYNC_RES" => toClient[c][j].at < toClient[c][i].at
    /\ matchID_[c] # 0 => SyncAsked(c) \/ SyncAnswered(c) \/ SyncDone(c)
    /\ netState_[c] \in {"NSS_Starting", "NSS_Playing"} => SyncDone(c)

OneMatchInv(c) ==
    PlaceInv(c) /\ RosterInv(c) /\ IntroInv(c) /\ ReportInv(c) /\ StartInv(c) /\ SyncInv(c)

OnlyMatchInv == \A c \in Clients : asked[c] # "more" => OneMatchInv(c)

-----------------------------------------------------------------------------
LEMMA AppendAt ==
  ASSUME NEW S, NEW s \in Seq(S), NEW e \in S
  PROVE  /\ Append(s, e) \in Seq(S)
         /\ Len(s) \in Nat
         /\ Len(Append(s, e)) = Len(s) + 1
         /\ Append(s, e) # <<>>
         /\ \A i \in 1 .. Len(s) : Append(s, e)[i] = s[i]
         /\ Append(s, e)[Len(s) + 1] = e
BY AppendProperties, LenProperties

LEMMA TailAt ==
  ASSUME NEW S, NEW s \in Seq(S), s # <<>>
  PROVE  /\ Len(s) \in Nat \ {0}
         /\ Head(s) = s[1] /\ Head(s) \in S
         /\ Tail(s) \in Seq(S)
         /\ Len(Tail(s)) = Len(s) - 1
         /\ \A i \in 1 .. Len(s) - 1 : Tail(s)[i] = s[i + 1]
BY HeadTailProperties, EmptySeq

LEMMA ServerPacketParts ==
  ASSUME NEW p \in ServerPackets
  PROVE  /\ p.type \in {"MATCH_REQUEST", "TIME_SYNC_REQ", "MATCH_INTRO_SUCCESS"}
         /\ p.type = "TIME_SYNC_REQ" => p.at \in MatchIds
         /\ p.type = "MATCH_INTRO_SUCCESS" => p.matchId \in MatchIds
BY DEF ServerPackets

LEMMA ClientPacketParts ==
  ASSUME NEW p \in ClientPackets
  PROVE  /\ p.type \in {"MATCH_INTRO", "TIME_SYNC_RES", "MATCH_START"}
         /\ p.type = "MATCH_INTRO" => /\ p.matchId \in MatchIds
                                       /\ p.addresses \in [PlayerIds -> Addresses]
                                       /\ p.playerId \in PlayerIds
         /\ p.type = "TIME_SYNC_RES" => p.at \in MatchIds
         /\ p.type = "MATCH_START" => p.matchId \in MatchIds
BY DEF ClientPackets

LEMMA Kinds ==
  /\ [type |-> "MATCH_REQUEST"] \in ServerPackets
  /\ \A m \in MatchIds :
        /\ [type |-> "TIME_SYNC_REQ", at |-> m] \in ServerPackets
        /\ [type |-> "MATCH_INTRO_SUCCESS", matchId |-> m] \in ServerPackets
        /\ [type |-> "TIME_SYNC_RES", at |-> m] \in ClientPackets
        /\ [type |-> "MATCH_START", matchId |-> m] \in ClientPackets
        /\ \A as \in [PlayerIds -> Addresses], p \in PlayerIds :
              Intro(m, as, p) \in ClientPackets
BY DEF ServerPackets, ClientPackets, Intro

LEMMA TakenParts ==
  ASSUME TypeInv, NEW c \in Clients, NEW type, Taken(c, type)
  PROVE  /\ toClient[c] # <<>>
         /\ Head(toClient[c]) \in ClientPackets /\ Head(toClient[c]).type = type
         /\ toClient' = [toClient EXCEPT ![c] = Tail(@)]
         /\ toClient' \in [Clients -> Seq(ClientPackets)]
         /\ inBuffer' \in [Clients -> Nat]
<1>1. /\ inBuffer[c] < Len(toClient[c]) /\ inBuffer[c] \in Nat
      /\ Head(toClient[c]).type = type
      /\ toClient' = [toClient EXCEPT ![c] = Tail(@)]
  BY DEF Taken, TypeInv
<1>2. PICK k \in 0 .. Len(toClient[c]) - 1 : inBuffer' = [inBuffer EXCEPT ![c] = k]
  BY DEF Taken
<1>3. toClient[c] \in Seq(ClientPackets)
  BY DEF TypeInv
<1>4. toClient[c] # <<>>
  <2>1. Len(<<>>) = 0
    OBVIOUS
  <2> QED BY <1>1, <2>1
<1>5. Head(toClient[c]) \in ClientPackets /\ Tail(toClient[c]) \in Seq(ClientPackets)
  BY <1>3, <1>4, TailAt
<1>6. k \in Nat
  BY <1>2, <1>3, LenProperties
<1> QED BY <1>1, <1>2, <1>4, <1>5, <1>6 DEF TypeInv

LEMMA PlayersExist == PlayerIds # {} /\ 0 \in PlayerIds /\ PlayerIds \subseteq Nat
BY SizeAssumption DEF PlayerIds

(* What the address maps of a client become.                               *)
LEMMA WithTypes ==
  ASSUME TypeInv, NEW c \in Clients, NEW as \in [PlayerIds -> Addresses], NEW self \in PlayerIds
  PROVE  /\ [Resized(peerConnected[c]) EXCEPT ![self] = TRUE] \in [PlayerIds -> BOOLEAN]
         /\ WithPlayers(c, as) \in [PlayerIds -> Addresses]
         /\ WithAddresses(c, as) \in AddressMaps
         /\ DOMAIN addToId[c] \subseteq DOMAIN WithAddresses(c, as)
         /\ AddressesOf(as) \subseteq DOMAIN WithAddresses(c, as)
<1>1. [Resized(peerConnected[c]) EXCEPT ![self] = TRUE] \in [PlayerIds -> BOOLEAN]
  <2>1. peerConnected[c] \in [PlayerIds -> BOOLEAN] \cup {<<>>}
    BY DEF TypeInv
  <2>2. Resized(peerConnected[c]) \in [PlayerIds -> BOOLEAN]
    <3>1. CASE peerConnected[c] \in [PlayerIds -> BOOLEAN]
      BY <3>1 DEF Resized
    <3>2. CASE peerConnected[c] = <<>>
      <4>1. DOMAIN peerConnected[c] = {}
        BY <3>2
      <4> QED BY <4>1 DEF Resized
    <3> QED BY <2>1, <3>1, <3>2
  <2> QED BY <2>2
<1>2. WithPlayers(c, as) \in [PlayerIds -> Addresses]
  <2>1. conn[c] \in [PlayerIds -> Addresses] \cup {<<>>}
    BY DEF TypeInv
  <2>2. CASE conn[c] \in [PlayerIds -> Addresses]
    BY <2>2 DEF WithPlayers
  <2>3. CASE conn[c] = <<>>
    <3>1. DOMAIN conn[c] = {}
      BY <2>3
    <3> QED BY <3>1 DEF WithPlayers
  <2> QED BY <2>1, <2>2, <2>3
<1>3. addToId[c] \in AddressMaps
  BY DEF TypeInv
<1>4. PICK D \in SUBSET Addresses : addToId[c] \in [D -> PlayerIds]
  BY <1>3 DEF AddressMaps
<1>5. AddressesOf(as) \in SUBSET Addresses
  BY DEF AddressesOf
<1>6. \A a \in AddressesOf(as) : IdOf(as, a) \in PlayerIds
  <2> SUFFICES ASSUME NEW a \in AddressesOf(as) PROVE IdOf(as, a) \in PlayerIds
    OBVIOUS
  <2> DEFINE at == {p \in PlayerIds : as[p] = a}
  <2>1. at # {} /\ at \subseteq 0 .. MatchSize - 1
    BY DEF AddressesOf, PlayerIds
  <2>2. \E p \in at : \A q \in at : p <= q
    <3>1. at \in SUBSET Nat /\ at # {}
      BY <2>1, PlayersExist
    <3> HIDE DEF at
    <3> QED BY <3>1, LeastExists
  <2>3. \E p \in PlayerIds : as[p] = a /\ \A q \in PlayerIds : as[q] = a => p <= q
    BY <2>2
  <2> QED BY <2>3 DEF IdOf
<1>7. WithAddresses(c, as) \in [D \cup AddressesOf(as) -> PlayerIds]
  BY <1>4, <1>6 DEF WithAddresses
<1>8. D \cup AddressesOf(as) \in SUBSET Addresses
  BY <1>4, <1>5
<1> QED BY <1>1, <1>2, <1>4, <1>7, <1>8 DEF AddressMaps
-----------------------------------------------------------------------------
(***************************************************************************)
(* What the handshake uses of the match maker, from what MatchService      *)
(* promises.                                                               *)
(***************************************************************************)
LEMMA RequestParts ==
  ASSUME NEW r \in MatchRequest
  PROVE  r.sessionId \in Clients /\ r.address \in Addresses /\ r.retryCount \in 0 .. MaxRetry
BY DEF MatchRequest

LEMMA LiveMatch ==
  ASSUME NEW m \in DOMAIN live
  PROVE  /\ m \in DOMAIN matches /\ ~ matches[m].over
         /\ live[m].players = matches[m].players /\ live[m].acked = matches[m].acked
         /\ Service!AllReported(m) <=> AllAcked(m)
<1>1. /\ m \in DOMAIN matches /\ ~ matches[m].over
      /\ live[m] = [players |-> matches[m].players, acked |-> matches[m].acked]
  BY DEF live
<1>2. live[m].players = matches[m].players /\ live[m].acked = matches[m].acked
  BY <1>1
<1> QED BY <1>1, <1>2 DEF Service!AllReported, Service!SessionsIn, Service!Players, PlayerIds, AllAcked

LEMMA Ended ==
  ASSUME TypeInv, NEW m \in DOMAIN matches, matches' = [matches EXCEPT ![m].over = TRUE]
  PROVE  matches' \in Seq(Match) /\ Len(matches') = Len(matches)
<1>1. matches[m] \in Match /\ m \in 1 .. Len(matches)
  BY ElementOfSeq, LenProperties DEF TypeInv
<1>2. [matches[m] EXCEPT !.over = TRUE] \in Match
  BY <1>1 DEF Match
<1>3. matches' = [matches EXCEPT ![m] = [matches[m] EXCEPT !.over = TRUE]]
  OBVIOUS
<1> QED BY <1>1, <1>2, <1>3, ExceptSeq DEF TypeInv

LEMMA AskEffect ==
  ASSUME TypeInv, NEW c \in Clients, ReceiveMatchRequest(c)
  PROVE  waiting' = waiting \cup {c} /\ DOMAIN offers' \in SUBSET MatchRequest
<1> DEFINE new == [sessionId |-> c, address |-> c, enqueueTime |-> 0, retryCount |-> 0]
<1>1. /\ waiting' = waiting \cup {c}
      /\ offers' = Service!(+)(offers, Service!SetToBag({new}))
  BY DEF ReceiveMatchRequest, Service!Ask
<1>2. new \in MatchRequest
  BY SizeAssumption DEF MatchRequest, Addresses
<1> HIDE DEF new
<1>3. DOMAIN offers' = DOMAIN offers \cup {new}
  BY <1>1 DEF Service!(+), Service!SetToBag
<1> QED BY <1>1, <1>2, <1>3 DEF TypeInv

LEMMA ForgetEffect ==
  ASSUME TypeInv, ForgetRequest
  PROVE  UNCHANGED <<waiting, matches>> /\ DOMAIN offers' \in SUBSET MatchRequest
<1>1. PICK r \in DOMAIN offers :
        offers' = Service!(-)(offers, Service!SetToBag({r})) /\ waiting' = waiting
  BY DEF ForgetRequest, Service!Forget
<1>2. DOMAIN offers' \subseteq DOMAIN offers
  BY <1>1 DEF Service!(-)
<1> QED BY <1>1, <1>2 DEF TypeInv, ForgetRequest

(* Whoever is drawn did wait, and does so no longer.                       *)
LEMMA DrawEffect ==
  ASSUME TypeInv, CreateMatch
  PROVE  \E roster \in [PlayerIds -> MatchRequest] :
         /\ matches' = Append(matches, [players |-> roster, acked |-> {}, over |-> FALSE])
         /\ toClient' = [c \in Clients |->
                IF \E p \in PlayerIds : roster[p].sessionId = c
                THEN LET p == CHOOSE q \in PlayerIds : roster[q].sessionId = c
                     IN  Append(toClient[c], Intro(Len(matches) + 1,
                                                   [q \in PlayerIds |-> roster[q].address], p))
                ELSE toClient[c]]
         /\ \A p \in PlayerIds : /\ roster[p].sessionId \in Clients /\ roster[p].address \in Addresses
                                 /\ roster[p].sessionId \in waiting
                                 /\ roster[p].sessionId \notin waiting'
         /\ waiting' \subseteq waiting
         /\ DOMAIN offers' \subseteq DOMAIN offers
<1>1. PICK roster \in [PlayerIds -> DOMAIN offers] :
         /\ matches' = Append(matches, [players |-> roster, acked |-> {}, over |-> FALSE])
         /\ Service!Draw(Len(matches) + 1, roster)
         /\ toClient' = [c \in Clients |->
                IF \E p \in PlayerIds : roster[p].sessionId = c
                THEN LET p == CHOOSE q \in PlayerIds : roster[q].sessionId = c
                     IN  Append(toClient[c], Intro(Len(matches) + 1,
                                                   [q \in PlayerIds |-> roster[q].address], p))
                ELSE toClient[c]]
  BY DEF CreateMatch
<1>2. roster \in [PlayerIds -> MatchRequest]
  BY DEF TypeInv
<1>3. \A p \in PlayerIds : roster[p].sessionId \in Clients /\ roster[p].address \in Addresses
  BY <1>2, RequestParts
<1>4. /\ Service!SessionsIn(roster) \subseteq waiting
      /\ waiting' = waiting \ Service!SessionsIn(roster)
      /\ offers' = Service!(-)(offers, Service!SetToBag({roster[i] : i \in Service!Players}))
  BY <1>1 DEF Service!Draw
<1>5. \A p \in PlayerIds : roster[p].sessionId \in Service!SessionsIn(roster)
  BY DEF Service!SessionsIn, Service!Players, PlayerIds
<1>6. DOMAIN offers' \subseteq DOMAIN offers
  BY <1>4 DEF Service!(-)
<1> QED BY <1>1, <1>2, <1>3, <1>4, <1>5, <1>6

LEMMA ReportEffect ==
  ASSUME TypeInv, NEW c \in Clients, ReceiveIntroSuccess(c)
  PROVE  /\ UNCHANGED <<waiting, offers>>
         /\ LET m == Head(toServer[c]).matchId
            IN  \/ matches' = matches
                \/ /\ m \in DOMAIN matches /\ ~ matches[m].over
                   /\ matches' = [matches EXCEPT ![m].acked = @ \cup {c}]
BY LiveMatch DEF ReceiveIntroSuccess, Service!Report, Service!Counts, serverVars

LEMMA StartEffect ==
  ASSUME NEW m \in MatchIds, StartMatch(m)
  PROVE  /\ m \in DOMAIN matches /\ ~ matches[m].over /\ AllAcked(m)
         /\ matches' = [matches EXCEPT ![m].over = TRUE]
         /\ UNCHANGED <<waiting, offers>>
BY LiveMatch DEF StartMatch, Service!Start

(* Nobody waits again but the players of the match.                        *)
LEMMA GiveUpEffect ==
  ASSUME TypeInv, NEW m \in MatchIds, GiveUpMatch(m)
  PROVE  /\ m \in DOMAIN matches /\ ~ matches[m].over /\ ~ AllAcked(m)
         /\ matches' = [matches EXCEPT ![m].over = TRUE]
         /\ waiting' \in SUBSET Clients
         /\ \A c \in waiting' : c \in waiting \/ Playing(m, c)
         /\ DOMAIN offers' \in SUBSET MatchRequest
<1> DEFINE tries == Service!SecondTries(m, 0)
<1>1. /\ m \in DOMAIN live /\ ~ Service!AllReported(m)
      /\ matches' = [matches EXCEPT ![m].over = TRUE]
      /\ waiting' = waiting \cup {r.sessionId : r \in tries}
      /\ offers' = Service!(+)(offers, Service!SetToBag(tries))
  BY DEF GiveUpMatch, Service!GiveUp
<1>2. m \in DOMAIN matches /\ ~ matches[m].over /\ ~ AllAcked(m)
  BY <1>1, LiveMatch
<1>3. \A p \in PlayerIds : matches[m].players[p] \in MatchRequest
  <2>1. matches[m] \in Match
    BY <1>2, ElementOfSeq, LenProperties DEF TypeInv
  <2> QED BY <2>1 DEF Match
<1>4. \A r \in tries : r \in MatchRequest /\ Playing(m, r.sessionId)
  <2> SUFFICES ASSUME NEW r \in tries PROVE r \in MatchRequest /\ Playing(m, r.sessionId)
    OBVIOUS
  <2>1. PICK p \in PlayerIds :
          /\ matches[m].players[p].retryCount < MaxRetry
          /\ r = [sessionId |-> matches[m].players[p].sessionId, address |-> NoAddress,
                  enqueueTime |-> 0, retryCount |-> matches[m].players[p].retryCount + 1]
    BY <1>1, LiveMatch DEF Service!SecondTries, Service!Players, PlayerIds
  <2>2. /\ matches[m].players[p].sessionId \in Clients
        /\ matches[m].players[p].retryCount \in 0 .. MaxRetry
    BY <1>3, RequestParts
  <2>3. matches[m].players[p].retryCount + 1 \in 0 .. MaxRetry
    BY <2>1, <2>2, SizeAssumption
  <2>4. r \in MatchRequest
    BY <2>1, <2>2, <2>3 DEF MatchRequest, Addresses
  <2>5. r.sessionId = matches[m].players[p].sessionId
    BY <2>1
  <2> QED BY <2>4, <2>5 DEF Playing
<1> HIDE DEF tries
<1>5. DOMAIN offers' = DOMAIN offers \cup tries
  BY <1>1 DEF Service!(+), Service!SetToBag
<1>6. \A r \in tries : r.sessionId \in Clients
  BY <1>4, RequestParts
<1> QED BY <1>1, <1>2, <1>4, <1>5, <1>6 DEF TypeInv
-----------------------------------------------------------------------------
LEMMA InitType == Init => TypeInv /\ AddressInv
<1> SUFFICES ASSUME Init PROVE TypeInv /\ AddressInv
  OBVIOUS
<1>1. <<>> \in AddressMaps
  <2>1. DOMAIN <<>> = {}
    OBVIOUS
  <2>2. <<>> \in [{} -> PlayerIds]
    OBVIOUS
  <2> QED BY <2>2 DEF AddressMaps
<1>2. TypeInv
  BY <1>1, SizeAssumption, PlayersExist DEF Init, TypeInv, States, Service!EmptyBag, Service!SetToBag
<1>3. AddressInv
  BY DEF Init, AddressInv
<1> QED BY <1>2, <1>3

LEMMA SendType ==
  ASSUME TypeInv, NEW c \in Clients, NEW p \in ServerPackets, Send(c, p)
  PROVE  toServer' \in [Clients -> Seq(ServerPackets)]
BY AppendAt DEF TypeInv, Send

LEMMA IntroType ==
  ASSUME TypeInv, NEW c \in Clients, HandleMatchIntro(c)
  PROVE  TypeInv'
<1> DEFINE intro == Head(toClient[c])
           m     == intro.matchId
           self  == intro.playerId
<1>1. /\ intro \in ClientPackets /\ intro.type = "MATCH_INTRO"
      /\ Tail(toClient[c]) \in Seq(ClientPackets)
  BY TakenParts, TailAt DEF HandleMatchIntro, TypeInv
<1>2. /\ m \in MatchIds /\ m \in 0 .. MaxMatches
      /\ self \in PlayerIds /\ intro.addresses \in [PlayerIds -> Addresses]
  BY <1>1, ClientPacketParts, SizeAssumption DEF MatchIds
<1>3. /\ toServer' \in [Clients -> Seq(ServerPackets)]
      /\ toClient' \in [Clients -> Seq(ClientPackets)] /\ inBuffer' \in [Clients -> Nat]
  <2>1. Send(c, [type |-> "TIME_SYNC_REQ", at |-> m]) /\ Taken(c, "MATCH_INTRO")
    BY DEF HandleMatchIntro
  <2> HIDE DEF m
  <2> QED BY <1>2, <2>1, Kinds, SendType, TakenParts
<1>4. /\ peerConnected' \in [Clients -> [PlayerIds -> BOOLEAN] \cup {<<>>}]
      /\ conn' \in [Clients -> [PlayerIds -> Addresses] \cup {<<>>}]
      /\ addToId' \in [Clients -> AddressMaps]
  <2>1. /\ peerConnected' = [peerConnected EXCEPT ![c] = [Resized(@) EXCEPT ![self] = TRUE]]
        /\ conn' = [conn EXCEPT ![c] = WithPlayers(c, intro.addresses)]
        /\ addToId' = [addToId EXCEPT ![c] = WithAddresses(c, intro.addresses)]
    BY DEF HandleMatchIntro
  <2> HIDE DEF intro, self
  <2> QED BY <1>2, <2>1, WithTypes DEF TypeInv
<1>5. datagrams' \in SUBSET UdpPacket
  <2>1. datagrams' = datagrams \cup {Hello(c, d) : d \in Peers(c, conn'[c], self)}
    BY DEF HandleMatchIntro
  <2>2. Peers(c, conn'[c], self) \subseteq Clients
    BY DEF Peers
  <2>3. \A d \in Clients : Hello(c, d) \in UdpPacket
    BY DEF Hello, UdpPacket
  <2> QED BY <2>1, <2>2, <2>3 DEF TypeInv
<1>6. /\ netState_' \in [Clients -> States]
      /\ matchID_' \in [Clients -> 0 .. MaxMatches]
      /\ playerID_' \in [Clients -> PlayerIds]
      /\ sendTime' \in [Clients -> 0 .. MaxMatches]
      /\ heard' \in [Clients -> SUBSET Clients]
  <2>1. /\ netState_' = [netState_ EXCEPT ![c] = "NSS_Hello"]
        /\ matchID_' = [matchID_ EXCEPT ![c] = m]
        /\ playerID_' = [playerID_ EXCEPT ![c] = self]
        /\ sendTime' = [sendTime EXCEPT ![c] = m]
        /\ heard' = [heard EXCEPT ![c] = {}]
    BY DEF HandleMatchIntro, OwnReading
  <2> HIDE DEF m, self
  <2> QED BY <1>2, <2>1 DEF TypeInv, States
<1>7. UNCHANGED <<serverTimeOffset, requested, asked, waiting, offers, matches>>
  BY DEF HandleMatchIntro, serverVars
<1> HIDE DEF m, self, intro
<1> QED BY <1>3, <1>4, <1>5, <1>6, <1>7 DEF TypeInv

LEMMA WelcomeType ==
  ASSUME TypeInv, AddressInv, NEW c \in Clients, NEW d \in Clients, HandleWelcome(c, d)
  PROVE  TypeInv'
<1>1. matchID_[c] \in MatchIds
  <2>1. d \in DOMAIN addToId[c]
    BY DEF HandleWelcome
  <2>2. matchID_[c] # 0
    BY <2>1 DEF AddressInv
  <2>3. matchID_[c] \in 0 .. MaxMatches
    BY DEF TypeInv
  <2> QED BY <2>2, <2>3, SizeAssumption DEF MatchIds
<1>2. addToId[c][d] \in PlayerIds
  BY DEF HandleWelcome, TypeInv, AddressMaps
<1>3. peerConnected' \in [Clients -> [PlayerIds -> BOOLEAN] \cup {<<>>}]
  <2>1. peerConnected[c] \in [PlayerIds -> BOOLEAN]
    BY <1>1 DEF HandleWelcome, AddressInv
  <2>2. peerConnected' = [peerConnected EXCEPT ![c] = [@ EXCEPT ![addToId[c][d]] = TRUE]]
    BY DEF HandleWelcome
  <2> QED BY <1>2, <2>1, <2>2 DEF TypeInv
<1>4. toServer' \in [Clients -> Seq(ServerPackets)]
  <2>1. \/ Send(c, [type |-> "MATCH_INTRO_SUCCESS", matchId |-> matchID_[c]])
        \/ toServer' = toServer
    BY DEF HandleWelcome
  <2> QED BY <1>1, <2>1, Kinds, SendType DEF TypeInv
<1>5. netState_' \in [Clients -> States] /\ heard' \in [Clients -> SUBSET Clients]
  <2>1. netState_' = [netState_ EXCEPT ![c] = "NSS_Lobby"] \/ netState_' = netState_
    BY DEF HandleWelcome
  <2>2. heard' = [heard EXCEPT ![c] = @ \cup {d}]
    BY DEF HandleWelcome
  <2> QED BY <2>1, <2>2 DEF TypeInv, States
<1>6. UNCHANGED <<matchID_, playerID_, conn, addToId, sendTime, serverTimeOffset, requested, asked,
                  datagrams, toClient, inBuffer, waiting, offers, matches>>
  BY DEF HandleWelcome, serverVars
<1> QED BY <1>3, <1>4, <1>5, <1>6 DEF TypeInv

LEMMA CreateType ==
  ASSUME TypeInv, CreateMatch
  PROVE  TypeInv'
<1>1. PICK roster \in [PlayerIds -> MatchRequest] :
        /\ matches' = Append(matches, [players |-> roster, acked |-> {}, over |-> FALSE])
        /\ toClient' = [c \in Clients |->
               IF \E p \in PlayerIds : roster[p].sessionId = c
               THEN LET p == CHOOSE q \in PlayerIds : roster[q].sessionId = c
                    IN  Append(toClient[c], Intro(Len(matches) + 1,
                                                  [q \in PlayerIds |-> roster[q].address], p))
               ELSE toClient[c]]
        /\ \A p \in PlayerIds : /\ roster[p].sessionId \in Clients /\ roster[p].address \in Addresses
                                /\ roster[p].sessionId \in waiting
                                /\ roster[p].sessionId \notin waiting'
        /\ waiting' \subseteq waiting
        /\ DOMAIN offers' \subseteq DOMAIN offers
  BY DrawEffect
<1>2. \A p \in PlayerIds : roster[p].sessionId \in Clients /\ roster[p].address \in Addresses
  BY <1>1
<1>3. /\ Len(matches) \in Nat /\ Len(matches) + 1 \in MatchIds
      /\ Len(matches) < MaxMatches
  BY SizeAssumption, LenProperties DEF CreateMatch, TypeInv, MatchIds
<1>4. matches' \in Seq(Match) /\ Len(matches') <= MaxMatches
  <2> DEFINE new == [players |-> roster, acked |-> {}, over |-> FALSE]
  <2>1. new \in Match
    BY DEF Match
  <2>2. matches \in Seq(Match) /\ matches' = Append(matches, new)
    BY <1>1 DEF TypeInv
  <2> HIDE DEF new
  <2> QED BY <1>3, <2>1, <2>2, AppendAt, SizeAssumption
<1>5. toClient' \in [Clients -> Seq(ClientPackets)]
  <2> SUFFICES ASSUME NEW c \in Clients PROVE toClient'[c] \in Seq(ClientPackets)
    BY <1>1
  <2> DEFINE as == [q \in PlayerIds |-> roster[q].address]
             p  == CHOOSE q \in PlayerIds : roster[q].sessionId = c
  <2>1. CASE \E q \in PlayerIds : roster[q].sessionId = c
    <3>1. p \in PlayerIds /\ as \in [PlayerIds -> Addresses]
      BY <1>2, <2>1
    <3>2. toClient'[c] = Append(toClient[c], Intro(Len(matches) + 1, as, p))
      BY <1>1, <2>1
    <3> HIDE DEF p, as
    <3>3. Intro(Len(matches) + 1, as, p) \in ClientPackets
      BY <1>3, <3>1, Kinds
    <3>4. toClient[c] \in Seq(ClientPackets)
      BY DEF TypeInv
    <3>5. \A s \in Seq(ClientPackets), e \in ClientPackets : Append(s, e) \in Seq(ClientPackets)
      BY AppendAt
    <3> QED BY <3>2, <3>3, <3>4, <3>5, Zenon
  <2>2. CASE ~ \E q \in PlayerIds : roster[q].sessionId = c
    BY <1>1, <2>2 DEF TypeInv
  <2> QED BY <2>1, <2>2
<1>6. waiting' \in SUBSET Clients /\ DOMAIN offers' \in SUBSET MatchRequest
  BY <1>1 DEF TypeInv
<1>7. UNCHANGED <<clientVars, requested, asked, inBuffer, datagrams, toServer>>
  BY DEF CreateMatch
<1> QED BY <1>4, <1>5, <1>6, <1>7 DEF TypeInv, clientVars

LEMMA TypeStep == TypeInv /\ AddressInv /\ [Next]_vars => TypeInv'
<1> SUFFICES ASSUME TypeInv, AddressInv, [Next]_vars PROVE TypeInv'
  OBVIOUS
<1>1. ASSUME NEW c \in Clients, SendMatchRequest(c) PROVE TypeInv'
  <2>1. toServer' \in [Clients -> Seq(ServerPackets)]
    BY <1>1, Kinds, SendType DEF SendMatchRequest
  <2>2. requested' \in [Clients -> 0 .. MaxRequests]
    BY <1>1, SizeAssumption DEF SendMatchRequest, TypeInv
  <2>3. asked' \in [Clients -> {"none", "one", "more"}]
    BY <1>1 DEF SendMatchRequest, TypeInv
  <2> QED BY <1>1, <2>1, <2>2, <2>3 DEF SendMatchRequest, clientVars, TypeInv, serverVars
<1>2. ASSUME NEW c \in Clients, HandleMatchIntro(c) PROVE TypeInv'
  BY <1>2, IntroType
<1>3. ASSUME NEW c \in Clients, HandleServerTimeSync(c) PROVE TypeInv'
  <2>1. Head(toClient[c]) \in ClientPackets /\ Head(toClient[c]).type = "TIME_SYNC_RES"
    BY <1>3, TakenParts DEF HandleServerTimeSync
  <2>2. Head(toClient[c]).at \in 0 .. MaxMatches
    BY <2>1, ClientPacketParts, SizeAssumption DEF MatchIds
  <2>3. toClient' \in [Clients -> Seq(ClientPackets)] /\ inBuffer' \in [Clients -> Nat]
    BY <1>3, TakenParts DEF HandleServerTimeSync
  <2>4. serverTimeOffset' \in [Clients -> [own : 0 .. MaxMatches, server : 0 .. MaxMatches]]
    BY <1>3, <2>2 DEF HandleServerTimeSync, TypeInv
  <2> QED BY <1>3, <2>3, <2>4 DEF HandleServerTimeSync, TypeInv, serverVars
<1>4. ASSUME NEW c \in Clients, HandleMatchStart(c) PROVE TypeInv'
  <2>1. toClient' \in [Clients -> Seq(ClientPackets)] /\ inBuffer' \in [Clients -> Nat]
    BY <1>4, TakenParts DEF HandleMatchStart
  <2>2. netState_' \in [Clients -> States]
    <3>1. netState_' = netState_ \/ netState_' = [netState_ EXCEPT ![c] = "NSS_Starting"]
      BY <1>4 DEF HandleMatchStart
    <3>2. netState_ \in [Clients -> States]
      BY DEF TypeInv
    <3> QED BY <3>1, <3>2 DEF States
  <2>3. asked' \in [Clients -> {"none", "one", "more"}]
    <3>1. asked' = asked \/ asked' = [asked EXCEPT ![c] = IF @ = "one" THEN "none" ELSE @]
      BY <1>4 DEF HandleMatchStart
    <3>2. asked \in [Clients -> {"none", "one", "more"}]
      BY DEF TypeInv
    <3> QED BY <3>1, <3>2
  <2> QED BY <1>4, <2>1, <2>2, <2>3 DEF HandleMatchStart, TypeInv, serverVars
<1>5. ASSUME NEW c \in Clients, TryStartGame(c) PROVE TypeInv'
  <2>1. netState_' \in [Clients -> States]
    BY <1>5 DEF TryStartGame, TypeInv, States
  <2> QED BY <1>5, <2>1 DEF TryStartGame, TypeInv, serverVars
<1>6. ASSUME NEW c \in Clients, NEW d \in Clients, HandleHello(c, d) PROVE TypeInv'
  <2>1. Welcome(c, d) \in UdpPacket
    BY DEF UdpPacket, Welcome
  <2>2. datagrams' = datagrams \cup {Welcome(c, d)}
    BY <1>6 DEF HandleHello
  <2>3. UNCHANGED <<clientVars, requested, asked, toServer, toClient, inBuffer, waiting, offers,
                    matches>>
    BY <1>6 DEF HandleHello, serverVars
  <2> QED BY <2>1, <2>2, <2>3 DEF TypeInv, clientVars
<1>7. ASSUME NEW c \in Clients, NEW d \in Clients, HandleWelcome(c, d) PROVE TypeInv'
  BY <1>7, WelcomeType
<1>8. ASSUME NEW c \in Clients, ServerReceive(c) PROVE TypeInv'
  <2>1. /\ Head(toServer[c]) \in ServerPackets
        /\ Tail(toServer[c]) \in Seq(ServerPackets)
    BY <1>8, TailAt
       DEF ServerReceive, ReceiveMatchRequest, ReceiveTimeSync, ReceiveIntroSuccess, Received, TypeInv
  <2>2. /\ toServer' = [toServer EXCEPT ![c] = Tail(@)]
        /\ UNCHANGED <<clientVars, requested, asked, inBuffer, datagrams>>
    BY <1>8 DEF ServerReceive, ReceiveMatchRequest, ReceiveTimeSync, ReceiveIntroSuccess, Received
  <2>3. toServer' \in [Clients -> Seq(ServerPackets)]
    BY <2>1, <2>2 DEF TypeInv
  <2>4. CASE ReceiveMatchRequest(c)
    <3>1. waiting' \in SUBSET Clients /\ DOMAIN offers' \in SUBSET MatchRequest
      BY <2>4, AskEffect DEF TypeInv
    <3>2. UNCHANGED <<toClient, matches>>
      BY <2>4 DEF ReceiveMatchRequest
    <3> QED BY <2>2, <2>3, <3>1, <3>2 DEF TypeInv, clientVars
  <2>5. CASE ReceiveTimeSync(c)
    <3>1. [type |-> "TIME_SYNC_RES", at |-> Head(toServer[c]).at] \in ClientPackets
      BY <2>1, <2>5, ServerPacketParts, Kinds DEF ReceiveTimeSync, Received
    <3>2. toClient' \in [Clients -> Seq(ClientPackets)]
      BY <2>5, <3>1, AppendAt DEF ReceiveTimeSync, TypeInv
    <3>3. UNCHANGED <<waiting, offers, matches>>
      BY <2>5 DEF ReceiveTimeSync, serverVars
    <3> QED BY <2>2, <2>3, <3>2, <3>3 DEF TypeInv, clientVars
  <2>6. CASE ReceiveIntroSuccess(c)
    <3>1. matches' \in Seq(Match) /\ Len(matches') = Len(matches)
      <4> DEFINE m == Head(toServer[c]).matchId
      <4>1. \/ matches' = matches
            \/ m \in DOMAIN matches /\ matches' = [matches EXCEPT ![m].acked = @ \cup {c}]
        BY <2>6, ReportEffect
      <4> HIDE DEF m
      <4>2. CASE m \in DOMAIN matches /\ matches' = [matches EXCEPT ![m].acked = @ \cup {c}]
        <5>1. matches[m] \in Match /\ m \in 1 .. Len(matches)
          BY <4>2, ElementOfSeq, LenProperties DEF TypeInv
        <5>2. [matches[m] EXCEPT !.acked = @ \cup {c}] \in Match
          BY <5>1 DEF Match
        <5>3. matches' = [matches EXCEPT ![m] = [matches[m] EXCEPT !.acked = @ \cup {c}]]
          BY <4>2
        <5> QED BY <5>1, <5>2, <5>3, ExceptSeq DEF TypeInv
      <4> QED BY <4>1, <4>2 DEF TypeInv
    <3>2. UNCHANGED <<waiting, offers, toClient>>
      BY <2>6, ReportEffect DEF ReceiveIntroSuccess
    <3> QED BY <2>2, <2>3, <3>1, <3>2 DEF TypeInv, clientVars
  <2> QED BY <1>8, <2>4, <2>5, <2>6 DEF ServerReceive
<1>9. CASE CreateMatch
  BY <1>9, CreateType
<1>10. ASSUME NEW m \in MatchIds, StartMatch(m) PROVE TypeInv'
  <2>1. matches' \in Seq(Match) /\ Len(matches') = Len(matches) /\ UNCHANGED <<waiting, offers>>
    BY <1>10, StartEffect, Ended
  <2>2. toClient' \in [Clients -> Seq(ClientPackets)]
    <3>1. [type |-> "MATCH_START", matchId |-> m] \in ClientPackets
      BY Kinds
    <3> QED BY <1>10, <3>1, AppendAt DEF StartMatch, TypeInv
  <2> QED BY <1>10, <2>1, <2>2 DEF StartMatch, TypeInv, clientVars
<1>11. ASSUME NEW m \in MatchIds, GiveUpMatch(m) PROVE TypeInv'
  <2>1. /\ matches' \in Seq(Match) /\ Len(matches') = Len(matches)
        /\ waiting' \in SUBSET Clients /\ DOMAIN offers' \in SUBSET MatchRequest
    BY <1>11, GiveUpEffect, Ended
  <2> QED BY <1>11, <2>1 DEF GiveUpMatch, TypeInv, clientVars
<1>12. CASE ForgetRequest
  <2>1. UNCHANGED <<waiting, matches>> /\ DOMAIN offers' \in SUBSET MatchRequest
    BY <1>12, ForgetEffect
  <2> QED BY <1>12, <2>1 DEF ForgetRequest, TypeInv, clientVars
<1>13. CASE UNCHANGED vars
  BY <1>13 DEF vars, clientVars, serverVars, TypeInv
<1> QED BY <1>1, <1>2, <1>3, <1>4, <1>5, <1>6, <1>7, <1>8, <1>9, <1>10, <1>11, <1>12, <1>13
        DEF Next, Client, Receive, ReceiveTCP, ReceiveUDP
-----------------------------------------------------------------------------
LEMMA PacketsDiffer ==
  /\ \A a, b, c, d : Hello(a, b) # Welcome(c, d)
  /\ \A a, b, c, d : Hello(a, b) = Hello(c, d) => a = c /\ b = d
  /\ \A a, b, c, d : Welcome(a, b) = Welcome(c, d) => a = c /\ b = d
<1> USE DEF Hello, Welcome
<1>1. ASSUME NEW a, NEW b, NEW c, NEW d PROVE Hello(a, b) # Welcome(c, d)
  <2>1. Hello(a, b).type = "HELLO" /\ Welcome(c, d).type = "WELCOME"
    OBVIOUS
  <2> HIDE DEF Hello, Welcome
  <2> QED BY <2>1
<1>2. ASSUME NEW a, NEW b, NEW c, NEW d, Hello(a, b) = Hello(c, d) PROVE a = c /\ b = d
  <2>1. Hello(a, b).from = a /\ Hello(a, b).to = b /\ Hello(c, d).from = c /\ Hello(c, d).to = d
    OBVIOUS
  <2> HIDE DEF Hello
  <2> QED BY <1>2, <2>1
<1>3. ASSUME NEW a, NEW b, NEW c, NEW d, Welcome(a, b) = Welcome(c, d) PROVE a = c /\ b = d
  <2>1. Welcome(a, b).from = a /\ Welcome(a, b).to = b /\ Welcome(c, d).from = c /\ Welcome(c, d).to = d
    OBVIOUS
  <2> HIDE DEF Welcome
  <2> QED BY <1>3, <2>1
<1> HIDE DEF Hello, Welcome
<1> QED BY <1>1, <1>2, <1>3

LEMMA IntroAddresses ==
  ASSUME TypeInv, AddressInv, NEW c \in Clients, HandleMatchIntro(c)
  PROVE  AddressInv'
<1> DEFINE intro == Head(toClient[c])
           m     == intro.matchId
           self  == intro.playerId
           as    == intro.addresses
<1>1. /\ m \in MatchIds /\ self \in PlayerIds /\ as \in [PlayerIds -> Addresses]
  <2>1. intro \in ClientPackets /\ intro.type = "MATCH_INTRO"
    BY TakenParts DEF HandleMatchIntro
  <2> QED BY <2>1, ClientPacketParts
<1>2. /\ peerConnected' = [peerConnected EXCEPT ![c] = [Resized(@) EXCEPT ![self] = TRUE]]
      /\ conn' = [conn EXCEPT ![c] = WithPlayers(c, as)]
      /\ addToId' = [addToId EXCEPT ![c] = WithAddresses(c, as)]
      /\ matchID_' = [matchID_ EXCEPT ![c] = m]
      /\ datagrams' = datagrams \cup {Hello(c, d) : d \in Peers(c, conn'[c], self)}
  BY DEF HandleMatchIntro
<1> HIDE DEF intro, m, self, as
<1>3. /\ peerConnected'[c] = [Resized(peerConnected[c]) EXCEPT ![self] = TRUE]
      /\ conn'[c] = WithPlayers(c, as)
      /\ addToId'[c] = WithAddresses(c, as)
      /\ matchID_'[c] = m /\ m # 0
      /\ \A d \in Clients \ {c} : /\ peerConnected'[d] = peerConnected[d]
                                   /\ conn'[d] = conn[d]
                                   /\ addToId'[d] = addToId[d]
                                   /\ matchID_'[d] = matchID_[d]
  BY <1>1, <1>2 DEF TypeInv, MatchIds
<1>4. \A p \in PlayerIds : conn'[c][p] \in DOMAIN addToId'[c]
  <2> SUFFICES ASSUME NEW p \in PlayerIds PROVE conn'[c][p] \in DOMAIN addToId'[c]
    OBVIOUS
  <2>1. CASE p \in DOMAIN conn[c]
    <3>1. conn[c] \in [PlayerIds -> Addresses] \cup {<<>>} /\ conn[c] # <<>>
      BY <2>1 DEF TypeInv
    <3>2. matchID_[c] # 0 \/ matchID_[c] = 0
      OBVIOUS
    <3>3. CASE matchID_[c] # 0
      <4>1. conn[c][p] \in DOMAIN addToId[c]
        BY <3>3 DEF AddressInv
      <4>2. conn'[c][p] = conn[c][p]
        BY <1>3, <2>1 DEF WithPlayers
      <4> QED BY <1>1, <1>3, <4>1, <4>2, WithTypes
    <3>4. CASE matchID_[c] = 0
      <4>1. conn[c] = <<>>
        BY <3>4 DEF AddressInv
      <4> QED BY <3>1, <4>1
    <3> QED BY <3>3, <3>4
  <2>2. CASE p \notin DOMAIN conn[c]
    <3>1. conn'[c][p] = as[p]
      BY <1>3, <2>2 DEF WithPlayers
    <3>2. as[p] \in AddressesOf(as)
      BY DEF AddressesOf
    <3> QED BY <1>1, <1>3, <3>1, <3>2, WithTypes
  <2> QED BY <2>1, <2>2
<1>5. \A d \in Clients :
         matchID_'[d] # 0 =>
             /\ peerConnected'[d] \in [PlayerIds -> BOOLEAN]
             /\ conn'[d] \in [PlayerIds -> Addresses]
             /\ \A p \in PlayerIds : conn'[d][p] \in DOMAIN addToId'[d]
  <2> SUFFICES ASSUME NEW d \in Clients, matchID_'[d] # 0
               PROVE  /\ peerConnected'[d] \in [PlayerIds -> BOOLEAN]
                      /\ conn'[d] \in [PlayerIds -> Addresses]
                      /\ \A p \in PlayerIds : conn'[d][p] \in DOMAIN addToId'[d]
    OBVIOUS
  <2>1. CASE d = c
    <3>1. /\ peerConnected'[c] \in [PlayerIds -> BOOLEAN]
          /\ conn'[c] \in [PlayerIds -> Addresses]
      <4>1. /\ [Resized(peerConnected[c]) EXCEPT ![self] = TRUE] \in [PlayerIds -> BOOLEAN]
            /\ WithPlayers(c, as) \in [PlayerIds -> Addresses]
        BY <1>1, WithTypes
      <4> QED BY <1>3, <4>1
    <3> QED BY <1>4, <2>1, <3>1
  <2>2. CASE d # c
    BY <1>3, <2>2 DEF AddressInv
  <2> QED BY <2>1, <2>2
<1>6. \A d \in Clients : matchID_'[d] = 0 => conn'[d] = <<>> /\ DOMAIN addToId'[d] = {}
  BY <1>3 DEF AddressInv
<1>7. DOMAIN addToId[c] \subseteq DOMAIN addToId'[c]
  BY <1>1, <1>3, WithTypes
<1>8. ASSUME NEW a \in Clients, NEW b \in Clients,
             Hello(a, b) \in datagrams' \/ Welcome(b, a) \in datagrams'
      PROVE  matchID_'[a] # 0 /\ b \in DOMAIN addToId'[a]
  <2>1. CASE Hello(a, b) \in datagrams \/ Welcome(b, a) \in datagrams
    <3>1. matchID_[a] # 0 /\ b \in DOMAIN addToId[a]
      BY <2>1 DEF AddressInv
    <3>2. CASE a = c
      BY <1>3, <1>7, <3>1, <3>2
    <3>3. CASE a # c
      BY <1>3, <3>1, <3>3
    <3> QED BY <3>2, <3>3
  <2>2. CASE a = c /\ b \in Peers(c, conn'[c], self)
    <3>1. PICK p \in PlayerIds : b = conn'[c][p]
      BY <2>2 DEF Peers
    <3> QED BY <1>3, <1>4, <2>2, <3>1
  <2>3. ASSUME Hello(a, b) \notin datagrams, Hello(a, b) \in datagrams'
        PROVE  a = c /\ b \in Peers(c, conn'[c], self)
    <3>1. PICK d \in Peers(c, conn'[c], self) : Hello(a, b) = Hello(c, d)
      BY <1>2, <2>3
    <3> QED BY <3>1, PacketsDiffer
  <2>4. Welcome(b, a) \in datagrams' => Welcome(b, a) \in datagrams
    BY <1>2, PacketsDiffer
  <2> QED BY <1>8, <2>1, <2>2, <2>3, <2>4
<1> QED BY <1>5, <1>8, <1>6 DEF AddressInv

LEMMA AddressStep == TypeInv /\ AddressInv /\ [Next]_vars => AddressInv'
<1> SUFFICES ASSUME TypeInv, AddressInv, [Next]_vars PROVE AddressInv'
  OBVIOUS
<1>1. CASE UNCHANGED <<matchID_, peerConnected, conn, addToId, datagrams>>
  BY <1>1 DEF AddressInv
<1>2. ASSUME NEW c \in Clients, HandleMatchIntro(c) PROVE AddressInv'
  BY <1>2, IntroAddresses
<1>3. ASSUME NEW c \in Clients, NEW d \in Clients, HandleHello(c, d) PROVE AddressInv'
  <2>1. /\ Hello(d, c) \in datagrams
        /\ datagrams' = datagrams \cup {Welcome(c, d)}
        /\ UNCHANGED <<matchID_, peerConnected, conn, addToId>>
    BY <1>3 DEF HandleHello, clientVars
  <2> QED BY <2>1, PacketsDiffer DEF AddressInv
<1>4. ASSUME NEW c \in Clients, NEW d \in Clients, HandleWelcome(c, d) PROVE AddressInv'
  <2>1. /\ UNCHANGED <<matchID_, conn, addToId, datagrams>>
        /\ \A e \in Clients : e # c => peerConnected'[e] = peerConnected[e]
        /\ peerConnected'[c] = [peerConnected[c] EXCEPT ![addToId[c][d]] = TRUE]
    BY <1>4 DEF HandleWelcome, TypeInv
  <2>2. matchID_[c] # 0 => peerConnected'[c] \in [PlayerIds -> BOOLEAN]
    <3>1. matchID_[c] # 0 => peerConnected[c] \in [PlayerIds -> BOOLEAN]
      BY DEF AddressInv
    <3>2. \A p : \A f \in [PlayerIds -> BOOLEAN] : [f EXCEPT ![p] = TRUE] \in [PlayerIds -> BOOLEAN]
      OBVIOUS
    <3> QED BY <2>1, <3>1, <3>2
  <2> QED BY <2>1, <2>2 DEF AddressInv
<1>5. CASE CreateMatch \/ ForgetRequest
  BY <1>1, <1>5 DEF CreateMatch, ForgetRequest, clientVars
<1>6. ASSUME NEW m \in MatchIds, StartMatch(m) \/ GiveUpMatch(m) PROVE AddressInv'
  BY <1>1, <1>6 DEF StartMatch, GiveUpMatch, clientVars
<1>7. ASSUME NEW c \in Clients, ServerReceive(c) \/ SendMatchRequest(c) PROVE AddressInv'
  BY <1>1, <1>7 DEF ServerReceive, ReceiveMatchRequest, ReceiveTimeSync, ReceiveIntroSuccess,
                    Received, SendMatchRequest, clientVars
<1>8. ASSUME NEW c \in Clients,
             HandleServerTimeSync(c) \/ HandleMatchStart(c) \/ TryStartGame(c)
      PROVE  AddressInv'
  BY <1>1, <1>8 DEF HandleServerTimeSync, HandleMatchStart, TryStartGame
<1>9. CASE UNCHANGED vars
  BY <1>1, <1>9 DEF vars, clientVars
<1> QED BY <1>2, <1>3, <1>4, <1>5, <1>6, <1>7, <1>8, <1>9
        DEF Next, Client, Receive, ReceiveTCP, ReceiveUDP

(* The types, and where the addresses of the datagrams come from.          *)
THEOREM AddressesAreKnown == Spec => [](TypeInv /\ AddressInv)
BY InitType, TypeStep, AddressStep, PTL DEF Spec

(* However late a WELCOME comes, GetPeerPlayerID finds its sender and the  *)
(* vector of connections has a place for it.                               *)
THEOREM OnlyPeersWelcome == Spec => []WelcomesAreExpected
<1>1. TypeInv /\ AddressInv => WelcomesAreExpected
  <2> SUFFICES ASSUME TypeInv, AddressInv, NEW w \in datagrams, w.type = "WELCOME"
               PROVE  /\ w.from \in DOMAIN addToId[w.to]
                      /\ addToId[w.to][w.from] \in DOMAIN peerConnected[w.to]
    BY DEF WelcomesAreExpected
  <2>1. w.from \in Clients /\ w.to \in Clients /\ w = Welcome(w.from, w.to)
    BY DEF TypeInv, UdpPacket, Welcome
  <2>2. matchID_[w.to] # 0 /\ w.from \in DOMAIN addToId[w.to]
    BY <2>1 DEF AddressInv
  <2>3. peerConnected[w.to] \in [PlayerIds -> BOOLEAN]
    BY <2>1, <2>2 DEF AddressInv
  <2>4. addToId[w.to][w.from] \in PlayerIds
    BY <2>1, <2>2 DEF TypeInv, AddressMaps
  <2> QED BY <2>2, <2>3, <2>4
<1> QED BY <1>1, AddressesAreKnown, PTL
-----------------------------------------------------------------------------
LEMMA MatchFacts ==
  ASSUME TypeInv
  PROVE  /\ DOMAIN matches = 1 .. Len(matches) /\ Len(matches) \in Nat
         /\ DOMAIN matches \subseteq MatchIds
         /\ \A m \in DOMAIN matches : m \in Nat \ {0} /\ matches[m] \in Match
<1>1. matches \in Seq(Match) /\ Len(matches) <= MaxMatches
  BY DEF TypeInv
<1>2. DOMAIN matches = 1 .. Len(matches) /\ Len(matches) \in Nat
  BY <1>1, LenProperties
<1> QED BY <1>1, <1>2, ElementOfSeq, SizeAssumption DEF MatchIds

LEMMA StartedIsAcked ==
  ASSUME NEW m, Started(m)
  PROVE  \A c : Playing(m, c) => Acked(m, c)
BY DEF Started, AllAcked, Playing, Acked

(* What a step leaves alone of a client keeps its invariant, whatever      *)
(* matches of others it creates.                                           *)
LEMMA ElsewhereRest ==
  ASSUME NEW c \in Clients, OneMatchInv(c),
         netState_'[c] = netState_[c], matchID_'[c] = matchID_[c],
         sendTime'[c] = sendTime[c], serverTimeOffset'[c] = serverTimeOffset[c],
         toServer'[c] = toServer[c], toClient'[c] = toClient[c],
         DOMAIN matches \subseteq DOMAIN matches',
         \A n \in DOMAIN matches' : n \notin DOMAIN matches => ~ Acked(n, c)',
         \A n \in DOMAIN matches : /\ (Playing(n, c)' <=> Playing(n, c))
                                   /\ (Acked(n, c)' <=> Acked(n, c))
                                   /\ Started(n) => Started(n)'
  PROVE  IntroInv(c)' /\ ReportInv(c)' /\ StartInv(c)' /\ SyncInv(c)'
<1>1. IntroInv(c) /\ ReportInv(c) /\ StartInv(c) /\ SyncInv(c)
  BY DEF OneMatchInv
<1>2. IntroInv(c)'
  BY <1>1 DEF IntroInv
<1>3. ReportInv(c)'
  BY <1>1 DEF ReportInv, Reported
<1>4. StartInv(c)'
  <2>1. \A n : Started(n) => n \in DOMAIN matches
    BY DEF Started
  <2> QED BY <1>1, <2>1 DEF StartInv
<1>5. SyncInv(c)'
  <2>1. matchID_[c] # 0 => matchID_[c] \in DOMAIN matches
    BY <1>1 DEF IntroInv
  <2>2. (SyncAnswered(c)' <=> SyncAnswered(c)) /\ (SyncDone(c)' <=> SyncDone(c))
    BY DEF SyncAnswered, SyncDone
  <2>3. matchID_[c] # 0 => (SyncAsked(c)' <=> SyncAsked(c))
    BY <2>1 DEF SyncAsked
  <2> QED BY <1>1, <2>2, <2>3 DEF SyncInv
<1> QED BY <1>2, <1>3, <1>4, <1>5

LEMMA Elsewhere ==
  ASSUME NEW c \in Clients, OneMatchInv(c),
         netState_'[c] = netState_[c], matchID_'[c] = matchID_[c],
         sendTime'[c] = sendTime[c], serverTimeOffset'[c] = serverTimeOffset[c],
         asked'[c] = asked[c],
         toServer'[c] = toServer[c], toClient'[c] = toClient[c],
         c \in waiting' => c \in waiting,
         DOMAIN matches \subseteq DOMAIN matches',
         \A n \in DOMAIN matches' :
            n \notin DOMAIN matches => ~ Playing(n, c)' /\ ~ Acked(n, c)',
         \A n \in DOMAIN matches : /\ (Playing(n, c)' <=> Playing(n, c))
                                   /\ matches[n].over => matches'[n].over
                                   /\ (Acked(n, c)' <=> Acked(n, c))
                                   /\ Started(n) => Started(n)'
  PROVE  OneMatchInv(c)'
<1>1. PlaceInv(c) /\ RosterInv(c)
  BY DEF OneMatchInv
<1>2. PlaceInv(c)'
  <2>1. Settled(c) => Settled(c)'
    BY DEF Settled
  <2>2. Asking(c)' <=> Asking(c)
    BY DEF Asking
  <2> QED BY <1>1, <2>1, <2>2 DEF PlaceInv
<1>3. RosterInv(c)'
  <2>1. \A n \in DOMAIN matches : Open(n, c)' => Open(n, c)
    BY DEF Open
  <2> QED BY <1>1, <2>1 DEF RosterInv
<1> QED BY <1>2, <1>3, ElsewhereRest DEF OneMatchInv

(* A step that changes no match and no request.                            *)
LEMMA OthersKeep ==
  ASSUME NEW c \in Clients, OneMatchInv(c),
         netState_'[c] = netState_[c], matchID_'[c] = matchID_[c],
         sendTime'[c] = sendTime[c], serverTimeOffset'[c] = serverTimeOffset[c],
         asked'[c] = asked[c],
         toServer'[c] = toServer[c], toClient'[c] = toClient[c],
         UNCHANGED <<waiting, matches>>
  PROVE  OneMatchInv(c)'
<1>1. /\ DOMAIN matches' = DOMAIN matches
      /\ \A n \in DOMAIN matches : /\ (Playing(n, c)' <=> Playing(n, c))
                                   /\ (Acked(n, c)' <=> Acked(n, c))
                                   /\ Started(n) => Started(n)'
  BY DEF Playing, Acked, Started, AllAcked
<1> QED BY <1>1, Elsewhere

LEMMA PlaceKept ==
  ASSUME NEW c \in Clients, PlaceInv(c), ~ Settled(c), asked'[c] = asked[c],
         Asking(c)' => Asking(c)
  PROVE  PlaceInv(c)'
BY DEF PlaceInv, Asking

(* Matches and requests as before, and so what is said of them alone.      *)
LEMMA SameMatches ==
  ASSUME UNCHANGED <<waiting, matches>>
  PROVE  /\ DOMAIN matches' = DOMAIN matches
         /\ \A n : Started(n)' <=> Started(n)
         /\ \A n, c : (Playing(n, c)' <=> Playing(n, c)) /\ (Acked(n, c)' <=> Acked(n, c))
BY DEF Playing, Acked, Started, AllAcked

LEMMA RosterKept ==
  ASSUME NEW c \in Clients, RosterInv(c), UNCHANGED <<waiting, matches>>,
         \A i \in 1 .. Len(toClient'[c]) :
            toClient'[c][i].type = "MATCH_START" =>
                \E j \in 1 .. Len(toClient[c]) : toClient[c][j] = toClient'[c][i]
  PROVE  RosterInv(c)'
<1>1. \A n : Open(n, c)' => Open(n, c)
  BY DEF Open
<1> QED BY <1>1, SameMatches DEF RosterInv
-----------------------------------------------------------------------------
LEMMA ToServer ==
  ASSUME TypeInv, NEW c \in Clients, NEW p \in ServerPackets, Send(c, p)
  PROVE  /\ Len(toServer[c]) \in Nat
         /\ Len(toServer'[c]) = Len(toServer[c]) + 1
         /\ \A i \in 1 .. Len(toServer'[c]) :
               toServer'[c][i] = IF i = Len(toServer[c]) + 1 THEN p ELSE toServer[c][i]
<1>1. toServer[c] \in Seq(ServerPackets) /\ toServer'[c] = Append(toServer[c], p)
  BY DEF TypeInv, Send
<1>2. /\ Len(toServer[c]) \in Nat
      /\ Len(toServer'[c]) = Len(toServer[c]) + 1
      /\ \A i \in 1 .. Len(toServer[c]) : toServer'[c][i] = toServer[c][i]
      /\ toServer'[c][Len(toServer[c]) + 1] = p
  BY <1>1, AppendAt
<1> QED BY <1>2

(* A free client asks for a match.                                         *)
LEMMA RequestStep ==
  ASSUME TypeInv, NEW c \in Clients, OneMatchInv(c), SendMatchRequest(c), asked'[c] # "more"
  PROVE  OneMatchInv(c)'
<1>1. /\ PlaceInv(c) /\ RosterInv(c) /\ IntroInv(c) /\ ReportInv(c) /\ StartInv(c) /\ SyncInv(c)
  BY DEF OneMatchInv
<1>2. asked[c] = "none" /\ asked'[c] = "one"
  BY DEF SendMatchRequest, TypeInv
<1>3. Settled(c) /\ ~ Asking(c)
  BY <1>1, <1>2 DEF PlaceInv
<1>4. UNCHANGED <<clientVars, toClient, waiting, matches>>
  BY DEF SendMatchRequest, serverVars
<1>5. PICK n \in Nat :
      /\ n = Len(toServer[c])
      /\ Len(toServer'[c]) = n + 1
      /\ toServer'[c][n + 1].type = "MATCH_REQUEST"
      /\ \A i \in 1 .. n : toServer'[c][i] = toServer[c][i]
      /\ \A i \in 1 .. n + 1 : i # n + 1 => i \in 1 .. n
      /\ n + 1 \in 1 .. n + 1
  <2>1. PICK n \in Nat :
        /\ n = Len(toServer[c])
        /\ Len(toServer'[c]) = n + 1
        /\ \A i \in 1 .. Len(toServer'[c]) :
              toServer'[c][i] = IF i = n + 1 THEN [type |-> "MATCH_REQUEST"] ELSE toServer[c][i]
    BY Kinds, ToServer DEF SendMatchRequest
  <2>2. /\ \A i \in 1 .. n : i \in 1 .. n + 1 /\ i # n + 1
        /\ \A i \in 1 .. n + 1 : i # n + 1 => i \in 1 .. n
        /\ n + 1 \in 1 .. n + 1
    OBVIOUS
  <2> QED BY <2>1, <2>2
<1>6. \A i \in 1 .. n + 1 :
         /\ toServer'[c][i].type # "MATCH_REQUEST" => i \in 1 .. n /\ toServer'[c][i] = toServer[c][i]
         /\ toServer'[c][i].type # "TIME_SYNC_REQ"
         /\ toServer'[c][i].type = "MATCH_REQUEST" => i = n + 1
  BY <1>3, <1>5 DEF Settled, Asking
<1>7. PlaceInv(c)'
  <2>1. Settled(c)'
    BY <1>3, <1>4, <1>5, <1>6, SameMatches DEF Settled
  <2>2. \A i, j \in 1 .. Len(toServer'[c]) :
           toServer'[c][i].type = "MATCH_REQUEST" /\ toServer'[c][j].type = "MATCH_REQUEST" => i = j
    BY <1>5, <1>6
  <2> QED BY <1>2, <2>1, <2>2 DEF PlaceInv
<1>8. RosterInv(c)'
  BY <1>1, <1>4, RosterKept
<1>9. IntroInv(c)'
  BY <1>1, <1>4, SameMatches DEF IntroInv, clientVars
<1>10. ReportInv(c)'
  <2>1. \A m : Reported(c, m) => Reported(c, m)'
    BY <1>4 DEF Reported, clientVars
  <2>2. ASSUME NEW i \in 1 .. Len(toServer'[c]), toServer'[c][i].type = "MATCH_INTRO_SUCCESS"
        PROVE  \E m : m = toServer'[c][i].matchId /\ Reported(c, m)'
    BY <1>1, <1>5, <1>6, <2>1, <2>2 DEF ReportInv
  <2>3. \A m \in DOMAIN matches' : Acked(m, c)' => Reported(c, m)'
    BY <1>1, <1>4, <2>1, SameMatches DEF ReportInv
  <2> QED BY <2>2, <2>3 DEF ReportInv
<1>11. StartInv(c)'
  BY <1>1, <1>4, SameMatches DEF StartInv, clientVars
<1>12. SyncInv(c)'
  <2>1. \A i : i \notin 1 .. Len(toClient[c])
    BY <1>3 DEF Settled
  <2>2. matchID_[c] # 0 => SyncDone(c)
    BY <1>1, <1>3, <2>1 DEF SyncInv, SyncAsked, SyncAnswered, Settled
  <2>3. SyncDone(c) => SyncDone(c)'
    BY <1>4, <1>5, <1>6 DEF SyncDone, clientVars
  <2>4. /\ sendTime'[c] = matchID_'[c] /\ matchID_'[c] = matchID_[c] /\ netState_'[c] = netState_[c]
        /\ toClient'[c] = toClient[c]
    BY <1>1, <1>4 DEF SyncInv, clientVars
  <2> QED BY <1>1, <1>5, <1>6, <2>1, <2>2, <2>3, <2>4 DEF SyncInv
<1> QED BY <1>7, <1>8, <1>9, <1>10, <1>11, <1>12 DEF OneMatchInv

(* What a client that handles a packet from the server has of it.          *)
LEMMA FromServer ==
  ASSUME TypeInv, NEW c \in Clients, PlaceInv(c), NEW type, Taken(c, type)
  PROVE  /\ ~ Settled(c) /\ ~ Asking(c)
         /\ Len(toClient[c]) \in Nat \ {0}
         /\ Len(toClient'[c]) = Len(toClient[c]) - 1
         /\ \A i \in 1 .. Len(toClient'[c]) :
               toClient'[c][i] = toClient[c][i + 1] /\ i + 1 \in 1 .. Len(toClient[c])
         /\ toClient[c][1] \in ClientPackets /\ toClient[c][1].type = type
         /\ Head(toClient[c]) = toClient[c][1] /\ 1 \in 1 .. Len(toClient[c])
<1>1. toClient[c] \in Seq(ClientPackets) /\ toClient[c] # <<>>
  BY TakenParts DEF TypeInv
<1>2. /\ toClient'[c] = Tail(toClient[c])
      /\ Head(toClient[c]) \in ClientPackets /\ Head(toClient[c]).type = type
  BY TakenParts DEF TypeInv
<1>3. ~ Settled(c) /\ ~ Asking(c)
  BY <1>1 DEF Settled, PlaceInv
<1>4. /\ Len(toClient[c]) \in Nat \ {0}
      /\ Head(toClient[c]) = toClient[c][1]
      /\ Len(Tail(toClient[c])) = Len(toClient[c]) - 1
      /\ \A i \in 1 .. Len(toClient[c]) - 1 : Tail(toClient[c])[i] = toClient[c][i + 1]
  BY <1>1, TailAt
<1>5. \A i \in 1 .. Len(toClient[c]) - 1 : i + 1 \in 1 .. Len(toClient[c])
  BY <1>4
<1>6. 1 \in 1 .. Len(toClient[c])
  BY <1>4
<1> QED BY <1>2, <1>3, <1>4, <1>5, <1>6

LEMMA IntroStep ==
  ASSUME TypeInv, NEW c \in Clients, OneMatchInv(c), HandleMatchIntro(c)
  PROVE  OneMatchInv(c)'
<1>1. /\ PlaceInv(c) /\ RosterInv(c) /\ IntroInv(c) /\ ReportInv(c) /\ StartInv(c) /\ SyncInv(c)
  BY DEF OneMatchInv
<1>2. PICK m \in MatchIds : Head(toClient[c]).type = "MATCH_INTRO" /\ m = Head(toClient[c]).matchId
  BY TakenParts, ClientPacketParts DEF HandleMatchIntro
<1>3. /\ netState_'[c] = "NSS_Hello" /\ matchID_'[c] = m /\ sendTime'[c] = m
      /\ UNCHANGED <<waiting, matches, asked, serverTimeOffset>>
  BY <1>2 DEF HandleMatchIntro, TypeInv, OwnReading, serverVars
<1>4. /\ ~ Settled(c) /\ ~ Asking(c)
      /\ Len(toClient[c]) \in Nat \ {0}
      /\ Len(toClient'[c]) = Len(toClient[c]) - 1
      /\ \A i \in 1 .. Len(toClient'[c]) :
            toClient'[c][i] = toClient[c][i + 1] /\ i + 1 \in 1 .. Len(toClient[c])
      /\ Head(toClient[c]) = toClient[c][1] /\ 1 \in 1 .. Len(toClient[c])
  BY <1>1, FromServer DEF HandleMatchIntro
<1>5. PICK n \in Nat :
      /\ n = Len(toServer[c])
      /\ Len(toServer'[c]) = n + 1
      /\ \A i \in 1 .. Len(toServer'[c]) :
            toServer'[c][i] = IF i = n + 1 THEN [type |-> "TIME_SYNC_REQ", at |-> m]
                                           ELSE toServer[c][i]
  <2>1. Send(c, [type |-> "TIME_SYNC_REQ", at |-> m])
    BY <1>2 DEF HandleMatchIntro
  <2> QED BY <1>2, <2>1, Kinds, ToServer
<1>6. /\ m \in DOMAIN matches /\ Playing(m, c) /\ matchID_[c] < m
      /\ matchID_[c] \in Nat /\ m \in Nat
  BY <1>1, <1>2, <1>4 DEF IntroInv, TypeInv, MatchIds
<1>7. PlaceInv(c)'
  <2>1. Asking(c)' => Asking(c)
    <3> SUFFICES ASSUME NEW i \in 1 .. n + 1, toServer'[c][i].type = "MATCH_REQUEST"
                 PROVE  Asking(c)
      BY <1>5 DEF Asking
    <3>1. [type |-> "TIME_SYNC_REQ", at |-> m].type = "TIME_SYNC_REQ"
      OBVIOUS
    <3>2. i # n + 1
      BY <1>5, <3>1
    <3>3. i \in 1 .. Len(toServer[c]) /\ toServer'[c][i] = toServer[c][i]
      BY <1>5, <3>2
    <3> QED BY <3>3 DEF Asking
  <2> QED BY <1>1, <1>3, <1>4, <2>1, PlaceKept
<1>8. RosterInv(c)'
  BY <1>1, <1>3, <1>4, RosterKept
<1>9. IntroInv(c)'
  <2>1. m \in DOMAIN matches' /\ Playing(m, c)'
    BY <1>3, <1>6 DEF Playing
  <2>2. ASSUME NEW i \in 1 .. Len(toClient'[c]), toClient'[c][i].type = "MATCH_INTRO"
        PROVE  \E k \in MatchIds :
                  /\ k = toClient'[c][i].matchId
                  /\ k \in DOMAIN matches' /\ Playing(k, c)' /\ m < k
                  /\ \A j \in 1 .. i - 1 :
                        toClient'[c][j].type = "MATCH_INTRO" => toClient'[c][j].matchId < k
    <3>0. toClient'[c][i] = toClient[c][i + 1] /\ i + 1 \in 1 .. Len(toClient[c])
      BY <1>4
    <3>1. PICK k \in MatchIds :
          /\ k = toClient[c][i + 1].matchId
          /\ k \in DOMAIN matches /\ Playing(k, c)
          /\ \A j \in 1 .. (i + 1) - 1 : toClient[c][j].type = "MATCH_INTRO" => toClient[c][j].matchId < k
      BY <1>1, <2>2, <3>0, MatchFacts DEF IntroInv
    <3>2. m < k
      <4>1. 1 \in 1 .. (i + 1) - 1
        OBVIOUS
      <4> QED BY <1>2, <1>4, <3>1, <4>1
    <3>3. k \in DOMAIN matches' /\ Playing(k, c)'
      BY <1>3, <3>1 DEF Playing
    <3>4. \A j \in 1 .. i - 1 : toClient'[c][j] = toClient[c][j + 1] /\ j + 1 \in 1 .. (i + 1) - 1
      <4>1. Len(toClient'[c]) \in Nat
        BY <1>4
      <4>2. \A j \in 1 .. i - 1 : j \in 1 .. Len(toClient'[c]) /\ j + 1 \in 1 .. (i + 1) - 1
        BY <4>1
      <4> QED BY <1>4, <4>2
    <3>5. \A j \in 1 .. i - 1 :
             toClient'[c][j].type = "MATCH_INTRO" => toClient'[c][j].matchId < k
      BY <3>1, <3>4
    <3>6. k = toClient'[c][i].matchId
      BY <3>0, <3>1
    <3> QED BY <3>2, <3>3, <3>5, <3>6
  <2> QED BY <1>3, <2>1, <2>2 DEF IntroInv
<1>10. \A k : Reported(c, k) => Reported(c, k)' /\ k # m
  BY <1>3, <1>6, MatchFacts DEF Reported
<1>11. ReportInv(c)'
  <2>1. \A k \in DOMAIN matches' : Acked(k, c)' => Reported(c, k)'
    BY <1>1, <1>3, <1>10, SameMatches DEF ReportInv
  <2>2. ASSUME NEW i \in 1 .. Len(toServer'[c]), toServer'[c][i].type = "MATCH_INTRO_SUCCESS"
        PROVE  \E k : k = toServer'[c][i].matchId /\ Reported(c, k)'
    <3>1. i # n + 1
      <4>1. [type |-> "TIME_SYNC_REQ", at |-> m].type = "TIME_SYNC_REQ"
        OBVIOUS
      <4> QED BY <1>5, <2>2, <4>1
    <3>2. i \in 1 .. Len(toServer[c]) /\ toServer'[c][i] = toServer[c][i]
      BY <1>5, <3>1
    <3> QED BY <1>1, <1>10, <2>2, <3>2 DEF ReportInv
  <2> QED BY <2>1, <2>2 DEF ReportInv
<1>12. StartInv(c)'
  <2>1. ASSUME NEW i \in 1 .. Len(toClient'[c]), toClient'[c][i].type = "MATCH_START" PROVE FALSE
    <3>1. /\ toClient[c][i + 1].type = "MATCH_START"
          /\ toClient[c][i + 1].matchId = matchID_[c]
          /\ Started(matchID_[c]) /\ Playing(matchID_[c], c)
      BY <1>1, <1>4, <2>1 DEF StartInv
    <3>2. Open(matchID_[c], c) /\ matchID_[c] \in DOMAIN matches
      BY <1>4, <3>1 DEF Open, Started
    <3>3. m <= matchID_[c]
      BY <1>1, <1>6, <3>1, <3>2 DEF RosterInv
    <3> QED BY <1>6, <3>3
  <2> QED BY <1>3, <2>1 DEF StartInv
<1>13. SyncInv(c)'
  <2>1. \A i \in 1 .. n : toServer[c][i].type = "TIME_SYNC_REQ" => toServer[c][i].at < m
    <3>1. \A i \in 1 .. n : toServer[c][i].type = "TIME_SYNC_REQ" =>
             toServer[c][i].at <= matchID_[c] /\ toServer[c][i].at \in Nat
      BY <1>1, <1>5, ServerPacketParts, ElementOfSeq DEF SyncInv, TypeInv, MatchIds
    <3> QED BY <1>6, <3>1
  <2>2. \A i \in 1 .. Len(toClient[c]) :
           toClient[c][i].type = "TIME_SYNC_RES" => toClient[c][i].at < m
    <3>1. \A i \in 1 .. Len(toClient[c]) : toClient[c][i].type = "TIME_SYNC_RES" =>
             toClient[c][i].at <= matchID_[c] /\ toClient[c][i].at \in Nat
      BY <1>1, ClientPacketParts, ElementOfSeq DEF SyncInv, TypeInv, MatchIds
    <3> QED BY <1>6, <3>1
  <2>3. SyncAsked(c)'
    <3>1. ~ Acked(m, c)
      BY <1>1, <1>6, <1>10 DEF ReportInv
    <3>2. \A j \in 1 .. n : ~ (toServer[c][j].type = "MATCH_INTRO_SUCCESS" /\ toServer[c][j].matchId = m)
      BY <1>1, <1>5, <1>10 DEF ReportInv
    <3>3. n + 1 \in 1 .. Len(toServer'[c])
      BY <1>5
    <3>4. toServer'[c][n + 1] = [type |-> "TIME_SYNC_REQ", at |-> m]
      BY <1>5, <3>3
    <3>5. \A j \in 1 .. n + 1 :
             ~ (toServer'[c][j].type = "MATCH_INTRO_SUCCESS" /\ toServer'[c][j].matchId = m)
      BY <1>5, <3>2, <3>4
    <3>6. ~ Acked(m, c)'
      BY <1>3, <3>1 DEF Acked
    <3> QED BY <1>3, <3>3, <3>4, <3>5, <3>6 DEF SyncAsked
  <2>4. \A i \in 1 .. Len(toServer'[c]) :
           toServer'[c][i].type = "TIME_SYNC_REQ" =>
               /\ toServer'[c][i].at <= m
               /\ \A j \in 1 .. i - 1 :
                     toServer'[c][j].type = "TIME_SYNC_REQ" => toServer'[c][j].at < toServer'[c][i].at
               /\ \A j \in 1 .. Len(toClient'[c]) :
                     toClient'[c][j].type = "TIME_SYNC_RES" => toClient'[c][j].at < toServer'[c][i].at
    <3> SUFFICES ASSUME NEW i \in 1 .. Len(toServer'[c]), toServer'[c][i].type = "TIME_SYNC_REQ"
                 PROVE  /\ toServer'[c][i].at <= m
                        /\ \A j \in 1 .. i - 1 :
                              toServer'[c][j].type = "TIME_SYNC_REQ" => toServer'[c][j].at < toServer'[c][i].at
                        /\ \A j \in 1 .. Len(toClient'[c]) :
                              toClient'[c][j].type = "TIME_SYNC_RES" => toClient'[c][j].at < toServer'[c][i].at
      OBVIOUS
    <3>0. toServer'[c][i].type = "TIME_SYNC_REQ"
      OBVIOUS
    <3>1. CASE i = n + 1
      <4>1. toServer'[c][i].at = m
        BY <1>5, <3>1
      <4>2. \A j \in 1 .. i - 1 : toServer'[c][j] = toServer[c][j] /\ j \in 1 .. n
        BY <1>5, <3>1
      <4>3. \A j \in 1 .. Len(toClient'[c]) :
               toClient'[c][j].type = "TIME_SYNC_RES" => toClient'[c][j].at < m
        BY <1>4, <2>2
      <4> QED BY <1>6, <2>1, <4>1, <4>2, <4>3
    <3>2. CASE i # n + 1
      <4>1. toServer'[c][i] = toServer[c][i] /\ i \in 1 .. n
        BY <1>5, <3>2
      <4>2. toServer[c][i].at \in Nat
        BY <1>5, <4>1, ServerPacketParts, ElementOfSeq DEF TypeInv, MatchIds
      <4>3. toServer[c][i].at <= m
        BY <1>6, <2>1, <4>1, <4>2
      <4>4. \A j \in 1 .. i - 1 : toServer'[c][j] = toServer[c][j]
        BY <1>5, <4>1
      <4>5. /\ \A j \in 1 .. i - 1 :
                  toServer[c][j].type = "TIME_SYNC_REQ" => toServer[c][j].at < toServer[c][i].at
            /\ \A j \in 1 .. Len(toClient[c]) :
                  toClient[c][j].type = "TIME_SYNC_RES" => toClient[c][j].at < toServer[c][i].at
        BY <1>1, <1>5, <3>0, <4>1 DEF SyncInv
      <4>6. \A j \in 1 .. Len(toClient'[c]) :
                  toClient'[c][j].type = "TIME_SYNC_RES" => toClient'[c][j].at < toServer[c][i].at
        BY <1>4, <4>5
      <4> QED BY <4>1, <4>3, <4>4, <4>5, <4>6
    <3> QED BY <3>1, <3>2
  <2>5. \A i \in 1 .. Len(toClient'[c]) :
           toClient'[c][i].type = "TIME_SYNC_RES" =>
               /\ toClient'[c][i].at <= m
               /\ \A j \in 1 .. i - 1 :
                     toClient'[c][j].type = "TIME_SYNC_RES" => toClient'[c][j].at < toClient'[c][i].at
    <3> SUFFICES ASSUME NEW i \in 1 .. Len(toClient'[c]), toClient'[c][i].type = "TIME_SYNC_RES"
                 PROVE  /\ toClient'[c][i].at <= m
                        /\ \A j \in 1 .. i - 1 :
                              toClient'[c][j].type = "TIME_SYNC_RES" => toClient'[c][j].at < toClient'[c][i].at
      OBVIOUS
    <3>1. /\ toClient'[c][i] = toClient[c][i + 1] /\ i + 1 \in 1 .. Len(toClient[c])
          /\ \A j \in 1 .. i - 1 : toClient'[c][j] = toClient[c][j + 1] /\ j + 1 \in 1 .. (i + 1) - 1
      BY <1>4
    <3>2. toClient[c][i + 1].at \in Nat
      BY <3>1, ClientPacketParts, ElementOfSeq DEF TypeInv, MatchIds
    <3>3. \A j \in 1 .. (i + 1) - 1 :
             toClient[c][j].type = "TIME_SYNC_RES" => toClient[c][j].at < toClient[c][i + 1].at
      BY <1>1, <3>1 DEF SyncInv
    <3>4. toClient[c][i + 1].at < m
      BY <2>2, <3>1
    <3>5. \A j \in 1 .. i - 1 :
             toClient'[c][j].type = "TIME_SYNC_RES" => toClient'[c][j].at < toClient'[c][i].at
      BY <3>1, <3>3
    <3> QED BY <1>6, <3>1, <3>2, <3>4, <3>5
  <2> QED BY <1>3, <2>3, <2>4, <2>5 DEF SyncInv
<1> QED BY <1>7, <1>8, <1>9, <1>11, <1>12, <1>13 DEF OneMatchInv

LEMMA WelcomeStep ==
  ASSUME TypeInv, AddressInv, NEW c \in Clients, NEW d \in Clients, OneMatchInv(c), HandleWelcome(c, d)
  PROVE  OneMatchInv(c)'
<1>1. /\ PlaceInv(c) /\ RosterInv(c) /\ IntroInv(c) /\ ReportInv(c) /\ StartInv(c) /\ SyncInv(c)
  BY DEF OneMatchInv
<1>2. UNCHANGED <<matchID_, sendTime, serverTimeOffset, asked, toClient, waiting, matches>>
  BY DEF HandleWelcome, serverVars
<1>3. PICK m \in MatchIds : m = matchID_[c]
  <2>1. d \in DOMAIN addToId[c]
    BY DEF HandleWelcome
  <2>2. matchID_[c] # 0
    BY <2>1, Zenon DEF AddressInv
  <2>3. matchID_[c] \in 0 .. MaxMatches
    BY DEF TypeInv
  <2>4. matchID_[c] \in 1 .. MaxMatches
    BY <2>2, <2>3, SizeAssumption
  <2> QED BY <2>4 DEF MatchIds
<1>5. CASE UNCHANGED <<toServer, netState_>>
  BY <1>2, <1>5, OthersKeep
<1>6. CASE /\ Send(c, [type |-> "MATCH_INTRO_SUCCESS", matchId |-> m])
           /\ netState_' = [netState_ EXCEPT ![c] = "NSS_Lobby"]
  <2>1. PICK n \in Nat :
        /\ n = Len(toServer[c])
        /\ Len(toServer'[c]) = n + 1
        /\ \A i \in 1 .. Len(toServer'[c]) :
              toServer'[c][i] = IF i = n + 1 THEN [type |-> "MATCH_INTRO_SUCCESS", matchId |-> m]
                                             ELSE toServer[c][i]
    BY <1>6, Kinds, ToServer
  <2>2. /\ toServer'[c][n + 1].type = "MATCH_INTRO_SUCCESS" /\ toServer'[c][n + 1].matchId = m
        /\ \A i \in 1 .. Len(toServer'[c]) :
              toServer'[c][i].type # "MATCH_INTRO_SUCCESS" =>
                  i \in 1 .. n /\ toServer'[c][i] = toServer[c][i]
        /\ \A i \in 1 .. n : i \in 1 .. n + 1 /\ toServer'[c][i] = toServer[c][i]
    <3>1. \A i \in 1 .. n : i \in 1 .. n + 1 /\ i # n + 1
      OBVIOUS
    <3>2. n + 1 \in 1 .. n + 1
      OBVIOUS
    <3>3. \A i \in 1 .. n + 1 : i # n + 1 => i \in 1 .. n
      OBVIOUS
    <3> QED BY <2>1, <3>1, <3>2, <3>3
  <2>3. netState_'[c] = "NSS_Lobby" /\ matchID_'[c] = m /\ m # 0
    BY <1>2, <1>3, <1>6 DEF TypeInv, MatchIds
  <2>4. PlaceInv(c)'
    <3>1. Settled(c) => Settled(c)'
      BY <1>2, <2>1, <2>2, SameMatches DEF Settled
    <3>2. Asking(c)' => Asking(c)
      BY <2>1, <2>2 DEF Asking
    <3>3. ASSUME NEW i \in 1 .. Len(toServer'[c]), NEW j \in 1 .. Len(toServer'[c]),
                 toServer'[c][i].type = "MATCH_REQUEST", toServer'[c][j].type = "MATCH_REQUEST"
          PROVE  i = j
      <4>1. /\ i \in 1 .. n /\ toServer'[c][i] = toServer[c][i]
            /\ j \in 1 .. n /\ toServer'[c][j] = toServer[c][j]
        BY <2>2, <3>3
      <4> QED BY <1>1, <2>1, <3>3, <4>1 DEF PlaceInv
    <3> QED BY <1>1, <1>2, <3>1, <3>2, <3>3 DEF PlaceInv
  <2>5. RosterInv(c)'
    BY <1>1, <1>2, RosterKept
  <2>6. IntroInv(c)'
    BY <1>1, <1>2, SameMatches DEF IntroInv
  <2>7. ReportInv(c)'
    <3>1. \A k : Reported(c, k) => Reported(c, k)'
      BY <1>2, <2>3 DEF Reported
    <3>2. Reported(c, m)'
      BY <1>1, <1>2, <1>3, <2>3 DEF Reported, IntroInv, MatchIds
    <3>3. \A k \in DOMAIN matches' : Acked(k, c)' => Reported(c, k)'
      BY <1>1, <1>2, <3>1, SameMatches DEF ReportInv
    <3>4. ASSUME NEW i \in 1 .. Len(toServer'[c]), toServer'[c][i].type = "MATCH_INTRO_SUCCESS"
          PROVE  \E k : k = toServer'[c][i].matchId /\ Reported(c, k)'
      <4>1. CASE i = n + 1
        BY <2>2, <3>2, <4>1
      <4>2. CASE i # n + 1
        <5>1. i \in 1 .. n /\ toServer'[c][i] = toServer[c][i]
          BY <2>1, <4>2
        <5> QED BY <1>1, <2>1, <3>1, <3>4, <5>1 DEF ReportInv
      <4> QED BY <4>1, <4>2
    <3> QED BY <3>3, <3>4 DEF ReportInv
  <2>8. StartInv(c)'
    <3>1. \A k : Started(k) => Started(k)'
      BY <1>2, SameMatches
    <3> QED BY <1>1, <1>2, <2>3, <3>1, SameMatches DEF StartInv
  <2>9. SyncInv(c)'
    <3>1. (SyncAnswered(c) => SyncAnswered(c)')
      BY <1>2 DEF SyncAnswered
    <3>2. SyncDone(c) => SyncDone(c)'
      BY <1>2, <2>1, <2>2 DEF SyncDone
    <3>3. ASSUME SyncAsked(c) PROVE SyncAsked(c)'
      <4>1. PICK i \in 1 .. n :
              /\ toServer[c][i].type = "TIME_SYNC_REQ" /\ toServer[c][i].at = m
              /\ \A j \in 1 .. i :
                    ~ (toServer[c][j].type = "MATCH_INTRO_SUCCESS" /\ toServer[c][j].matchId = m)
              /\ ~ Acked(m, c)
        BY <1>3, <2>1, <3>3 DEF SyncAsked
      <4>2. i \in 1 .. n + 1 /\ \A j \in 1 .. i : toServer'[c][j] = toServer[c][j]
        BY <2>2
      <4>3. i \in 1 .. i
        OBVIOUS
      <4>4. ~ Acked(m, c)'
        BY <1>2, <4>1, SameMatches
      <4> QED BY <2>1, <2>3, <4>1, <4>2, <4>3, <4>4 DEF SyncAsked
    <3>4. \A i \in 1 .. Len(toServer'[c]) :
             toServer'[c][i].type = "TIME_SYNC_REQ" =>
                 /\ toServer'[c][i].at <= matchID_'[c]
                 /\ \A j \in 1 .. i - 1 :
                       toServer'[c][j].type = "TIME_SYNC_REQ" => toServer'[c][j].at < toServer'[c][i].at
                 /\ \A j \in 1 .. Len(toClient'[c]) :
                       toClient'[c][j].type = "TIME_SYNC_RES" => toClient'[c][j].at < toServer'[c][i].at
      <4> SUFFICES ASSUME NEW i \in 1 .. Len(toServer'[c]), toServer'[c][i].type = "TIME_SYNC_REQ"
                   PROVE  /\ toServer'[c][i].at <= matchID_'[c]
                          /\ \A j \in 1 .. i - 1 :
                                toServer'[c][j].type = "TIME_SYNC_REQ" => toServer'[c][j].at < toServer'[c][i].at
                          /\ \A j \in 1 .. Len(toClient'[c]) :
                                toClient'[c][j].type = "TIME_SYNC_RES" => toClient'[c][j].at < toServer'[c][i].at
        OBVIOUS
      <4>1. i \in 1 .. n /\ toServer'[c][i] = toServer[c][i]
        BY <2>2
      <4>2. \A j \in 1 .. i - 1 : toServer'[c][j] = toServer[c][j]
        BY <2>2, <4>1
      <4> QED BY <1>1, <1>2, <2>1, <4>1, <4>2 DEF SyncInv
    <3>5. sendTime'[c] = matchID_'[c]
      BY <1>1, <1>2 DEF SyncInv
    <3>6. \A i \in 1 .. Len(toClient'[c]) :
             toClient'[c][i].type = "TIME_SYNC_RES" =>
                 /\ toClient'[c][i].at <= matchID_'[c]
                 /\ \A j \in 1 .. i - 1 :
                       toClient'[c][j].type = "TIME_SYNC_RES" => toClient'[c][j].at < toClient'[c][i].at
      BY <1>1, <1>2 DEF SyncInv
    <3>7. SyncAsked(c)' \/ SyncAnswered(c)' \/ SyncDone(c)'
      BY <1>1, <1>3, <2>3, <3>1, <3>2, <3>3 DEF SyncInv
    <3> QED BY <2>3, <3>4, <3>5, <3>6, <3>7 DEF SyncInv
  <2> QED BY <2>4, <2>5, <2>6, <2>7, <2>8, <2>9 DEF OneMatchInv
<1> QED BY <1>3, <1>5, <1>6 DEF HandleWelcome

LEMMA TimeSyncStep ==
  ASSUME TypeInv, NEW c \in Clients, OneMatchInv(c), HandleServerTimeSync(c)
  PROVE  OneMatchInv(c)'
<1>1. /\ PlaceInv(c) /\ RosterInv(c) /\ IntroInv(c) /\ ReportInv(c) /\ StartInv(c) /\ SyncInv(c)
  BY DEF OneMatchInv
<1>2. PICK k \in MatchIds : Head(toClient[c]).type = "TIME_SYNC_RES" /\ k = Head(toClient[c]).at
  BY TakenParts, ClientPacketParts DEF HandleServerTimeSync
<1>3. /\ UNCHANGED <<netState_, matchID_, sendTime, asked, toServer, waiting, matches>>
      /\ serverTimeOffset'[c] = [own |-> sendTime[c], server |-> k]
  BY <1>2 DEF HandleServerTimeSync, TypeInv, serverVars
<1>4. /\ ~ Settled(c) /\ ~ Asking(c)
      /\ Len(toClient[c]) \in Nat \ {0}
      /\ Len(toClient'[c]) = Len(toClient[c]) - 1
      /\ \A i \in 1 .. Len(toClient'[c]) :
            toClient'[c][i] = toClient[c][i + 1] /\ i + 1 \in 1 .. Len(toClient[c])
      /\ Head(toClient[c]) = toClient[c][1] /\ 1 \in 1 .. Len(toClient[c])
  BY <1>1, FromServer DEF HandleServerTimeSync
<1>6. PlaceInv(c)'
  <2>1. Asking(c)' => Asking(c)
    BY <1>3 DEF Asking
  <2> QED BY <1>1, <1>3, <1>4, <2>1, PlaceKept
<1>7. RosterInv(c)'
  BY <1>1, <1>3, <1>4, RosterKept
<1>8. IntroInv(c)'
  <2>1. matchID_'[c] # 0 => matchID_'[c] \in DOMAIN matches' /\ Playing(matchID_[c], c)'
    BY <1>1, <1>3, SameMatches DEF IntroInv, Playing
  <2>2. ASSUME NEW i \in 1 .. Len(toClient'[c]), toClient'[c][i].type = "MATCH_INTRO"
        PROVE  \E m \in MatchIds :
                  /\ m = toClient'[c][i].matchId
                  /\ m \in DOMAIN matches' /\ Playing(m, c)' /\ matchID_'[c] < m
                  /\ \A j \in 1 .. i - 1 :
                        toClient'[c][j].type = "MATCH_INTRO" => toClient'[c][j].matchId < m
    <3>1. toClient'[c][i] = toClient[c][i + 1] /\ i + 1 \in 1 .. Len(toClient[c])
      BY <1>4
    <3>2. PICK m \in MatchIds :
          /\ m = toClient[c][i + 1].matchId
          /\ m \in DOMAIN matches /\ Playing(m, c) /\ matchID_[c] < m
          /\ \A j \in 1 .. (i + 1) - 1 : toClient[c][j].type = "MATCH_INTRO" => toClient[c][j].matchId < m
      BY <1>1, <2>2, <3>1, MatchFacts DEF IntroInv
    <3>3. \A j \in 1 .. i - 1 : toClient'[c][j] = toClient[c][j + 1] /\ j + 1 \in 1 .. (i + 1) - 1
      <4>1. \A j \in 1 .. i - 1 : j \in 1 .. Len(toClient'[c]) /\ j + 1 \in 1 .. (i + 1) - 1
        BY <1>4
      <4> QED BY <1>4, <4>1
    <3>4. m \in DOMAIN matches' /\ Playing(m, c)' /\ matchID_'[c] < m /\ m = toClient'[c][i].matchId
      BY <1>3, <3>1, <3>2, SameMatches
    <3>5. \A j \in 1 .. i - 1 : toClient'[c][j].type = "MATCH_INTRO" => toClient'[c][j].matchId < m
      BY <3>2, <3>3
    <3> QED BY <3>4, <3>5
  <2>3. matchID_'[c] # 0 => Playing(matchID_[c], c)'
    BY <2>1
  <2> QED BY <1>1, <1>3, <2>2, SameMatches DEF IntroInv
<1>9. ReportInv(c)'
  <2>1. \A m : Reported(c, m) => Reported(c, m)'
    BY <1>3 DEF Reported
  <2> QED BY <1>1, <1>3, <2>1, SameMatches DEF ReportInv
<1>10. StartInv(c)'
  <2>1. ASSUME NEW i \in 1 .. Len(toClient'[c]), toClient'[c][i].type = "MATCH_START"
        PROVE  \E m : /\ m = toClient'[c][i].matchId
                      /\ i = Len(toClient'[c])
                      /\ Started(m)' /\ Playing(m, c)'
                      /\ netState_'[c] = "NSS_Lobby" /\ matchID_'[c] = m
    <3>1. toClient'[c][i] = toClient[c][i + 1] /\ i + 1 \in 1 .. Len(toClient[c])
      BY <1>4
    <3>2. PICK m : /\ m = toClient[c][i + 1].matchId /\ i + 1 = Len(toClient[c])
                   /\ Started(m) /\ Playing(m, c)
                   /\ netState_[c] = "NSS_Lobby" /\ matchID_[c] = m
      BY <1>1, <2>1, <3>1 DEF StartInv
    <3>3. Started(m)' /\ Playing(m, c)'
      BY <1>3, <3>2, SameMatches
    <3>4. i = Len(toClient'[c])
      BY <1>4, <3>2
    <3> QED BY <1>3, <3>1, <3>2, <3>3, <3>4
  <2>2. \A m : Started(m) => Started(m)'
    BY <1>3, SameMatches
  <2> QED BY <1>1, <1>3, <2>1, <2>2 DEF StartInv
<1>11. /\ k \in Nat /\ matchID_[c] \in Nat /\ k <= matchID_[c] /\ sendTime[c] = matchID_[c]
       /\ matchID_[c] # 0
  <2>1. k \in Nat \ {0} /\ matchID_[c] \in Nat
    BY DEF TypeInv, MatchIds
  <2>2. k <= matchID_[c] /\ sendTime[c] = matchID_[c]
    BY <1>1, <1>2, <1>4 DEF SyncInv
  <2> QED BY <2>1, <2>2
<1>12. \A i \in 1 .. Len(toServer[c]) :
          toServer[c][i].type = "TIME_SYNC_REQ" =>
              toServer[c][i].at \in Nat /\ k < toServer[c][i].at /\ toServer[c][i].at <= matchID_[c]
  <2> SUFFICES ASSUME NEW i \in 1 .. Len(toServer[c]), toServer[c][i].type = "TIME_SYNC_REQ"
               PROVE  toServer[c][i].at \in Nat /\ k < toServer[c][i].at /\ toServer[c][i].at <= matchID_[c]
    OBVIOUS
  <2>1. toServer[c][i].at \in Nat
    BY ServerPacketParts, ElementOfSeq DEF TypeInv, MatchIds
  <2>2. /\ toServer[c][i].at <= matchID_[c]
        /\ \A j \in 1 .. Len(toClient[c]) :
              toClient[c][j].type = "TIME_SYNC_RES" => toClient[c][j].at < toServer[c][i].at
    BY <1>1 DEF SyncInv
  <2> QED BY <1>2, <1>4, <2>1, <2>2
<1>13. \A i \in 1 .. Len(toClient'[c]) :
          toClient'[c][i].type = "TIME_SYNC_RES" =>
              /\ toClient'[c][i].at \in Nat /\ k < toClient'[c][i].at /\ toClient'[c][i].at <= matchID_[c]
              /\ \A j \in 1 .. i - 1 :
                    toClient'[c][j].type = "TIME_SYNC_RES" => toClient'[c][j].at < toClient'[c][i].at
  <2> SUFFICES ASSUME NEW i \in 1 .. Len(toClient'[c]), toClient'[c][i].type = "TIME_SYNC_RES"
               PROVE  /\ toClient'[c][i].at \in Nat /\ k < toClient'[c][i].at
                      /\ toClient'[c][i].at <= matchID_[c]
                      /\ \A j \in 1 .. i - 1 :
                            toClient'[c][j].type = "TIME_SYNC_RES" => toClient'[c][j].at < toClient'[c][i].at
    OBVIOUS
  <2>1. toClient'[c][i] = toClient[c][i + 1] /\ i + 1 \in 1 .. Len(toClient[c])
    BY <1>4
  <2>2. /\ toClient[c][i + 1].at <= matchID_[c]
        /\ \A j \in 1 .. (i + 1) - 1 :
              toClient[c][j].type = "TIME_SYNC_RES" => toClient[c][j].at < toClient[c][i + 1].at
    BY <1>1, <2>1 DEF SyncInv
  <2>3. toClient[c][i + 1].at \in Nat
    BY <2>1, ClientPacketParts, ElementOfSeq DEF TypeInv, MatchIds
  <2>4. k < toClient[c][i + 1].at
    <3>1. 1 \in 1 .. (i + 1) - 1
      OBVIOUS
    <3> QED BY <1>2, <1>4, <2>2, <3>1
  <2>5. \A j \in 1 .. i - 1 : toClient'[c][j] = toClient[c][j + 1] /\ j + 1 \in 1 .. (i + 1) - 1
    <3>1. \A j \in 1 .. i - 1 : j \in 1 .. Len(toClient'[c]) /\ j + 1 \in 1 .. (i + 1) - 1
      BY <1>4
    <3> QED BY <1>4, <3>1
  <2> QED BY <2>1, <2>2, <2>3, <2>4, <2>5
<1>14. SyncInv(c)'
  <2>1. netState_[c] \notin {"NSS_Starting", "NSS_Playing"}
    BY <1>1, <1>2, <1>4 DEF SyncInv, SyncDone
  <2>2. ASSUME SyncAsked(c) PROVE SyncAsked(c)'
    BY <1>3, <2>2 DEF SyncAsked, Acked
  <2>3. CASE k = matchID_[c]
    <3>1. SyncDone(c)'
      BY <1>3, <1>11, <1>12, <1>13, <2>3 DEF SyncDone
    <3> QED BY <1>1, <1>3, <1>11, <1>12, <1>13, <2>1, <2>3, <3>1 DEF SyncInv
  <2>4. CASE k # matchID_[c]
    <3>1. ~ SyncDone(c)
      BY <1>2, <1>4 DEF SyncDone
    <3>2. ASSUME SyncAnswered(c) PROVE SyncAnswered(c)'
      <4>1. PICK i \in 1 .. Len(toClient[c]) :
              toClient[c][i].type = "TIME_SYNC_RES" /\ toClient[c][i].at = matchID_[c]
        BY <3>2 DEF SyncAnswered
      <4>2. i # 1
        BY <1>2, <1>4, <2>4, <4>1
      <4>3. i - 1 \in 1 .. Len(toClient'[c]) /\ (i - 1) + 1 = i
        BY <1>4, <4>2
      <4>4. toClient'[c][i - 1] = toClient[c][i]
        BY <1>4, <4>3
      <4> QED BY <1>3, <4>1, <4>3, <4>4 DEF SyncAnswered
    <3>3. SyncAsked(c)' \/ SyncAnswered(c)'
      BY <1>1, <1>11, <2>2, <3>1, <3>2 DEF SyncInv
    <3>4. \A i \in 1 .. Len(toServer'[c]) :
             toServer'[c][i].type = "TIME_SYNC_REQ" =>
                 /\ toServer'[c][i].at <= matchID_'[c]
                 /\ \A j \in 1 .. i - 1 :
                       toServer'[c][j].type = "TIME_SYNC_REQ" => toServer'[c][j].at < toServer'[c][i].at
                 /\ \A j \in 1 .. Len(toClient'[c]) :
                       toClient'[c][j].type = "TIME_SYNC_RES" => toClient'[c][j].at < toServer'[c][i].at
      <4> SUFFICES ASSUME NEW i \in 1 .. Len(toServer'[c]), toServer'[c][i].type = "TIME_SYNC_REQ"
                   PROVE  /\ toServer'[c][i].at <= matchID_'[c]
                          /\ \A j \in 1 .. i - 1 :
                                toServer'[c][j].type = "TIME_SYNC_REQ" => toServer'[c][j].at < toServer'[c][i].at
                          /\ \A j \in 1 .. Len(toClient'[c]) :
                                toClient'[c][j].type = "TIME_SYNC_RES" => toClient'[c][j].at < toServer'[c][i].at
        OBVIOUS
      <4>1. \A j \in 1 .. Len(toClient[c]) :
               toClient[c][j].type = "TIME_SYNC_RES" => toClient[c][j].at < toServer[c][i].at
        BY <1>1, <1>3 DEF SyncInv
      <4>2. \A j \in 1 .. Len(toClient'[c]) :
               toClient'[c][j].type = "TIME_SYNC_RES" => toClient'[c][j].at < toServer[c][i].at
        BY <1>4, <4>1
      <4> QED BY <1>1, <1>3, <4>2 DEF SyncInv
    <3> QED BY <1>3, <1>11, <1>13, <2>1, <3>3, <3>4 DEF SyncInv
  <2> QED BY <2>3, <2>4
<1> QED BY <1>6, <1>7, <1>8, <1>9, <1>10, <1>14 DEF OneMatchInv

LEMMA StartStep ==
  ASSUME TypeInv, NEW c \in Clients, OneMatchInv(c), HandleMatchStart(c)
  PROVE  OneMatchInv(c)'
<1>1. /\ PlaceInv(c) /\ RosterInv(c) /\ IntroInv(c) /\ ReportInv(c) /\ StartInv(c) /\ SyncInv(c)
  BY DEF OneMatchInv
<1>2. /\ ~ Settled(c) /\ ~ Asking(c)
      /\ Len(toClient[c]) \in Nat \ {0}
      /\ Len(toClient'[c]) = Len(toClient[c]) - 1
      /\ Head(toClient[c]) = toClient[c][1] /\ 1 \in 1 .. Len(toClient[c])
  BY <1>1, FromServer DEF HandleMatchStart
<1>3. PICK m \in MatchIds :
      /\ Head(toClient[c]).type = "MATCH_START" /\ m = Head(toClient[c]).matchId
      /\ Len(toClient[c]) = 1
      /\ Started(m) /\ Playing(m, c) /\ netState_[c] = "NSS_Lobby" /\ matchID_[c] = m
  <2>1. PICK m \in MatchIds : Head(toClient[c]).type = "MATCH_START" /\ m = Head(toClient[c]).matchId
    BY TakenParts, ClientPacketParts DEF HandleMatchStart
  <2> QED BY <1>1, <1>2, <2>1 DEF StartInv
<1>4. Acked(m, c)
  BY <1>3, StartedIsAcked
<1>5. /\ UNCHANGED <<matchID_, sendTime, serverTimeOffset, toServer, waiting, matches>>
      /\ netState_'[c] = "NSS_Starting"
  BY <1>3 DEF HandleMatchStart, TypeInv, serverVars
<1>6. \A i : i \notin 1 .. Len(toClient'[c])
  BY <1>2, <1>3
<1>9. IntroInv(c)'
  BY <1>1, <1>5, <1>6, SameMatches DEF IntroInv
<1>10. ReportInv(c)'
  <2>1. \A k : Reported(c, k) => Reported(c, k)'
    BY <1>5 DEF Reported
  <2> QED BY <1>1, <1>5, <2>1, SameMatches DEF ReportInv
<1>11. m # 0
  BY DEF MatchIds
<1>12. StartInv(c)'
  <2>1. Started(m)'
    BY <1>3, <1>5, SameMatches
  <2> QED BY <1>3, <1>5, <1>6, <1>11, <2>1 DEF StartInv
<1>13. SyncDone(c)
  <2>1. ~ SyncAsked(c)
    BY <1>3, <1>4 DEF SyncAsked
  <2>2. ~ SyncAnswered(c)
    <3>1. \A i \in 1 .. Len(toClient[c]) : toClient[c][i].type = "MATCH_START"
      <4>1. \A i \in 1 .. 1 : i = 1
        OBVIOUS
      <4> QED BY <1>2, <1>3, <4>1
    <3> QED BY <3>1 DEF SyncAnswered
  <2> QED BY <1>1, <1>3, <1>11, <2>1, <2>2 DEF SyncInv
<1>14. SyncInv(c)'
  <2>1. SyncDone(c)'
    BY <1>5, <1>6, <1>13 DEF SyncDone
  <2> QED BY <1>1, <1>5, <1>6, <2>1 DEF SyncInv, SyncDone
<1>15. PlaceInv(c)'
  <2>1. m \in DOMAIN matches /\ Open(m, c) /\ matches[m].over
    BY <1>2, <1>3 DEF Open, Started
  <2>2. c \notin waiting
    BY <1>1, <1>3, <2>1 DEF RosterInv
  <2>3. ASSUME NEW n \in DOMAIN matches, Playing(n, c), ~ matches[n].over PROVE FALSE
    <3>1. Open(n, c)
      BY <2>3 DEF Open
    <3>2. n <= m /\ m <= n /\ n \in Nat /\ m \in Nat
      BY <1>1, <1>3, <2>1, <2>3, <3>1, MatchFacts DEF RosterInv
    <3> QED BY <2>1, <2>3, <3>2
  <2>4. toClient'[c] = <<>>
    <3>1. toClient'[c] \in Seq(ClientPackets)
      BY TakenParts DEF HandleMatchStart
    <3>2. Len(toClient'[c]) = 0
      BY <1>2, <1>3
    <3> QED BY <3>1, <3>2, EmptySeq
  <2>5. Settled(c)'
    BY <1>5, <1>13, <2>2, <2>3, <2>4, SameMatches DEF Settled, SyncDone
  <2>6. ~ Asking(c)'
    BY <1>2, <1>5 DEF Asking
  <2> QED BY <2>5, <2>6 DEF PlaceInv, Asking
<1>16. RosterInv(c)'
  BY <1>1, <1>5, <1>6, RosterKept
<1> QED BY <1>9, <1>10, <1>12, <1>14, <1>15, <1>16 DEF OneMatchInv

LEMMA PlayStep ==
  ASSUME TypeInv, NEW c \in Clients, OneMatchInv(c), TryStartGame(c)
  PROVE  OneMatchInv(c)'
<1>1. /\ PlaceInv(c) /\ RosterInv(c) /\ IntroInv(c) /\ ReportInv(c) /\ StartInv(c) /\ SyncInv(c)
  BY DEF OneMatchInv
<1>2. /\ UNCHANGED <<matchID_, sendTime, serverTimeOffset, asked, toServer, toClient, waiting, matches>>
      /\ netState_[c] = "NSS_Starting" /\ netState_'[c] = "NSS_Playing"
  BY DEF TryStartGame, TypeInv, serverVars
<1>3. PlaceInv(c)'
  <2>1. Settled(c) => Settled(c)'
    BY <1>2, SameMatches DEF Settled
  <2>2. Asking(c)' <=> Asking(c)
    BY <1>2 DEF Asking
  <2> QED BY <1>1, <1>2, <2>1, <2>2 DEF PlaceInv
<1>4. RosterInv(c)'
  BY <1>1, <1>2, RosterKept
<1>5. IntroInv(c)'
  BY <1>1, <1>2, SameMatches DEF IntroInv
<1>6. ReportInv(c)'
  <2>1. \A k : Reported(c, k) => Reported(c, k)'
    BY <1>2 DEF Reported
  <2> QED BY <1>1, <1>2, <2>1, SameMatches DEF ReportInv
<1>7. StartInv(c)'
  <2>1. \A k : Started(k) => Started(k)'
    BY <1>2, SameMatches
  <2> QED BY <1>1, <1>2, <2>1, SameMatches DEF StartInv
<1>8. SyncInv(c)'
  <2>1. SyncDone(c)' /\ SyncDone(c)
    BY <1>1, <1>2 DEF SyncInv, SyncDone
  <2> QED BY <1>1, <1>2, <2>1 DEF SyncInv
<1> QED BY <1>3, <1>4, <1>5, <1>6, <1>7, <1>8 DEF OneMatchInv

(* What the server has of a client whose packet it handles.                *)
LEMMA FromClient ==
  ASSUME TypeInv, NEW c \in Clients, NEW type, Received(c, type)
  PROVE  /\ Len(toServer[c]) \in Nat \ {0}
         /\ Len(toServer'[c]) = Len(toServer[c]) - 1
         /\ \A i \in 1 .. Len(toServer'[c]) :
               toServer'[c][i] = toServer[c][i + 1] /\ i + 1 \in 1 .. Len(toServer[c])
         /\ toServer[c][1].type = type
         /\ Head(toServer[c]) = toServer[c][1] /\ 1 \in 1 .. Len(toServer[c])
<1>1. toServer[c] \in Seq(ServerPackets) /\ toServer[c] # <<>> /\ Head(toServer[c]).type = type
  BY DEF TypeInv, Received
<1>2. toServer'[c] = Tail(toServer[c])
  BY DEF TypeInv, Received
<1>3. /\ Len(toServer[c]) \in Nat \ {0}
      /\ Head(toServer[c]) = toServer[c][1]
      /\ Len(Tail(toServer[c])) = Len(toServer[c]) - 1
      /\ \A i \in 1 .. Len(toServer[c]) - 1 : Tail(toServer[c])[i] = toServer[c][i + 1]
  BY <1>1, TailAt
<1>4. \A i \in 1 .. Len(toServer[c]) - 1 : i + 1 \in 1 .. Len(toServer[c])
  BY <1>3
<1>5. 1 \in 1 .. Len(toServer[c])
  BY <1>3
<1> QED BY <1>1, <1>2, <1>3, <1>4, <1>5

(* A request that the server takes is the only one, and of a free client.  *)
LEMMA ReceiveRequestStep ==
  ASSUME TypeInv, NEW c \in Clients, OneMatchInv(c), ReceiveMatchRequest(c)
  PROVE  OneMatchInv(c)'
<1>1. /\ PlaceInv(c) /\ RosterInv(c) /\ IntroInv(c) /\ ReportInv(c) /\ StartInv(c) /\ SyncInv(c)
  BY DEF OneMatchInv
<1>2. /\ Len(toServer[c]) \in Nat \ {0}
      /\ Len(toServer'[c]) = Len(toServer[c]) - 1
      /\ \A i \in 1 .. Len(toServer'[c]) :
            toServer'[c][i] = toServer[c][i + 1] /\ i + 1 \in 1 .. Len(toServer[c])
      /\ toServer[c][1].type = "MATCH_REQUEST"
      /\ Head(toServer[c]) = toServer[c][1] /\ 1 \in 1 .. Len(toServer[c])
  BY FromClient DEF ReceiveMatchRequest
<1>3. Asking(c) /\ Settled(c)
  BY <1>1, <1>2 DEF Asking, PlaceInv
<1>4. /\ UNCHANGED <<clientVars, asked, toClient, matches>>
      /\ waiting' = waiting \cup {c}
  BY AskEffect DEF ReceiveMatchRequest, Received
<1>5. \A n : /\ (Playing(n, c)' <=> Playing(n, c)) /\ (Acked(n, c)' <=> Acked(n, c))
             /\ (Started(n)' <=> Started(n))
  BY <1>4 DEF Playing, Acked, Started, AllAcked
<1>6. \A i : i \notin 1 .. Len(toClient[c])
  BY <1>3 DEF Settled
<1>7. \A i \in 1 .. Len(toServer'[c]) : toServer'[c][i].type \notin {"MATCH_REQUEST", "TIME_SYNC_REQ"}
  <2> SUFFICES ASSUME NEW i \in 1 .. Len(toServer'[c])
               PROVE  toServer'[c][i].type \notin {"MATCH_REQUEST", "TIME_SYNC_REQ"}
    OBVIOUS
  <2>1. i + 1 # 1 /\ i + 1 \in 1 .. Len(toServer[c]) /\ toServer'[c][i] = toServer[c][i + 1]
    BY <1>2
  <2> QED BY <1>1, <1>2, <1>3, <2>1 DEF PlaceInv, Settled
<1>8. PlaceInv(c)'
  <2>1. ~ Asking(c)'
    BY <1>7 DEF Asking
  <2>2. asked[c] # "none"
    BY <1>1, <1>3 DEF PlaceInv
  <2> QED BY <1>4, <2>1, <2>2 DEF PlaceInv, Asking
<1>9. RosterInv(c)'
  <2>1. \A n \in DOMAIN matches : Playing(n, c) => ~ Open(n, c)
    BY <1>3, <1>6 DEF Settled, Open
  <2>2. \A n \in DOMAIN matches : Open(n, c)' => Open(n, c)
    BY <1>4 DEF Open
  <2> QED BY <1>4, <1>5, <2>1, <2>2 DEF RosterInv
<1>10. IntroInv(c)'
  BY <1>1, <1>4, <1>5, <1>6 DEF IntroInv, clientVars
<1>11. ReportInv(c)'
  <2>1. \A m : Reported(c, m) => Reported(c, m)'
    BY <1>4 DEF Reported, clientVars
  <2>2. ASSUME NEW i \in 1 .. Len(toServer'[c]), toServer'[c][i].type = "MATCH_INTRO_SUCCESS"
        PROVE  \E m : m = toServer'[c][i].matchId /\ Reported(c, m)'
    BY <1>1, <1>2, <2>1, <2>2 DEF ReportInv
  <2>3. \A m \in DOMAIN matches' : Acked(m, c)' => Reported(c, m)'
    BY <1>1, <1>4, <1>5, <2>1 DEF ReportInv
  <2> QED BY <2>2, <2>3 DEF ReportInv
<1>12. StartInv(c)'
  BY <1>1, <1>4, <1>5, <1>6 DEF StartInv, clientVars
<1>13. SyncInv(c)'
  <2>1. matchID_[c] # 0 => SyncDone(c)
    BY <1>1, <1>3, <1>6 DEF SyncInv, SyncAsked, SyncAnswered, Settled
  <2>2. SyncDone(c) => SyncDone(c)'
    BY <1>4, <1>7 DEF SyncDone, clientVars
  <2>3. /\ sendTime'[c] = matchID_'[c] /\ matchID_'[c] = matchID_[c] /\ netState_'[c] = netState_[c]
        /\ toClient'[c] = toClient[c]
    BY <1>1, <1>4 DEF SyncInv, clientVars
  <2> QED BY <1>1, <1>6, <1>7, <2>1, <2>2, <2>3 DEF SyncInv
<1> QED BY <1>8, <1>9, <1>10, <1>11, <1>12, <1>13 DEF OneMatchInv

LEMMA ToClient ==
  ASSUME TypeInv, NEW c \in Clients, NEW p \in ClientPackets,
         toClient'[c] = Append(toClient[c], p)
  PROVE  \E n \in Nat :
         /\ n = Len(toClient[c])
         /\ Len(toClient'[c]) = n + 1
         /\ toClient'[c][n + 1] = p
         /\ \A i \in 1 .. n : i \in 1 .. n + 1 /\ toClient'[c][i] = toClient[c][i]
         /\ \A i \in 1 .. n + 1 : i # n + 1 => i \in 1 .. n
         /\ n + 1 \in 1 .. n + 1
<1>1. toClient[c] \in Seq(ClientPackets)
  BY DEF TypeInv
<1>2. PICK n \in Nat : n = Len(toClient[c])
  BY <1>1, AppendAt
<1>3. /\ Len(toClient'[c]) = n + 1
      /\ \A i \in 1 .. n : toClient'[c][i] = toClient[c][i]
      /\ toClient'[c][n + 1] = p
  BY <1>1, <1>2, AppendAt
<1>4. /\ \A i \in 1 .. n : i \in 1 .. n + 1
      /\ \A i \in 1 .. n + 1 : i # n + 1 => i \in 1 .. n
      /\ n + 1 \in 1 .. n + 1
  OBVIOUS
<1> QED BY <1>2, <1>3, <1>4

LEMMA ReceiveTimeSyncStep ==
  ASSUME TypeInv, NEW c \in Clients, OneMatchInv(c), ReceiveTimeSync(c)
  PROVE  OneMatchInv(c)'
<1>1. /\ PlaceInv(c) /\ RosterInv(c) /\ IntroInv(c) /\ ReportInv(c) /\ StartInv(c) /\ SyncInv(c)
  BY DEF OneMatchInv
<1>2. PICK k \in MatchIds : Head(toServer[c]).type = "TIME_SYNC_REQ" /\ k = Head(toServer[c]).at
  BY TailAt, ServerPacketParts DEF ReceiveTimeSync, Received, TypeInv
<1>3. /\ Len(toServer[c]) \in Nat \ {0}
      /\ Len(toServer'[c]) = Len(toServer[c]) - 1
      /\ \A i \in 1 .. Len(toServer'[c]) :
            toServer'[c][i] = toServer[c][i + 1] /\ i + 1 \in 1 .. Len(toServer[c])
      /\ Head(toServer[c]) = toServer[c][1] /\ 1 \in 1 .. Len(toServer[c])
  BY FromClient DEF ReceiveTimeSync
<1>4. /\ UNCHANGED <<clientVars, asked, waiting, matches>>
      /\ toClient'[c] = Append(toClient[c], [type |-> "TIME_SYNC_RES", at |-> k])
  BY <1>2 DEF ReceiveTimeSync, Received, TypeInv, serverVars
<1>5. PICK n \in Nat :
      /\ n = Len(toClient[c])
      /\ Len(toClient'[c]) = n + 1
      /\ toClient'[c][n + 1] = [type |-> "TIME_SYNC_RES", at |-> k]
      /\ \A i \in 1 .. n : i \in 1 .. n + 1 /\ toClient'[c][i] = toClient[c][i]
      /\ \A i \in 1 .. n + 1 : i # n + 1 => i \in 1 .. n
      /\ n + 1 \in 1 .. n + 1
  BY <1>4, Kinds, ToClient
<1>6. toClient'[c][n + 1].type = "TIME_SYNC_RES" /\ toClient'[c][n + 1].at = k
  BY <1>5
<1>7. \A i \in 1 .. n + 1 : toClient'[c][i].type # "TIME_SYNC_RES" =>
          i \in 1 .. n /\ toClient'[c][i] = toClient[c][i]
  BY <1>5, <1>6
<1>8. /\ k \in Nat /\ matchID_[c] \in Nat /\ k <= matchID_[c] /\ matchID_[c] # 0
      /\ \A j \in 1 .. n : toClient[c][j].type = "TIME_SYNC_RES" => toClient[c][j].at < k
  BY <1>1, <1>2, <1>3, <1>5 DEF SyncInv, TypeInv, MatchIds
<1>9. ~ SyncDone(c)
  BY <1>2, <1>3 DEF SyncDone
<1>10. \A i \in 1 .. n : toClient[c][i].type = "TIME_SYNC_RES" => toClient[c][i].at # matchID_[c]
  <2>1. \A i \in 1 .. n : toClient[c][i].type = "TIME_SYNC_RES" => toClient[c][i].at \in Nat
    BY <1>5, ClientPacketParts, ElementOfSeq DEF TypeInv, MatchIds
  <2> QED BY <1>8, <2>1
<1>11. SyncAsked(c)
  <2>1. ~ SyncAnswered(c)
    BY <1>5, <1>10 DEF SyncAnswered
  <2> QED BY <1>1, <1>8, <1>9, <2>1 DEF SyncInv
<1>12. netState_[c] \notin {"NSS_Starting", "NSS_Playing"}
  BY <1>1, <1>9 DEF SyncInv
<1>13. \A i \in 1 .. n : toClient[c][i].type # "MATCH_START"
  <2> SUFFICES ASSUME NEW i \in 1 .. n, toClient[c][i].type = "MATCH_START" PROVE FALSE
    OBVIOUS
  <2>1. PICK m : Started(m) /\ Playing(m, c) /\ matchID_[c] = m
    BY <1>1, <1>5 DEF StartInv
  <2>2. Acked(m, c)
    BY <2>1, StartedIsAcked
  <2> QED BY <1>11, <2>1, <2>2 DEF SyncAsked
<1>14. PlaceInv(c)'
  <2>1. ~ Settled(c)
    BY <1>2, <1>3 DEF Settled
  <2>2. Asking(c)' => Asking(c)
    BY <1>3 DEF Asking
  <2> QED BY <1>1, <1>4, <2>1, <2>2, PlaceKept
<1>15. RosterInv(c)'
  BY <1>1, <1>4, <1>5, <1>7, RosterKept
<1>16. IntroInv(c)'
  <2>1. \E m \in DOMAIN matches' : m = matchID_[c] /\ Playing(m, c)'
    <3>1. PICK m \in DOMAIN matches : m = matchID_[c] /\ Playing(m, c)
      BY <1>1, <1>8 DEF IntroInv
    <3> QED BY <1>4, <3>1, SameMatches
  <2>2. ASSUME NEW i \in 1 .. Len(toClient'[c]), toClient'[c][i].type = "MATCH_INTRO"
        PROVE  \E m \in MatchIds :
                  /\ m = toClient'[c][i].matchId
                  /\ m \in DOMAIN matches' /\ Playing(m, c)' /\ matchID_[c] < m
                  /\ \A j \in 1 .. i - 1 :
                        toClient'[c][j].type = "MATCH_INTRO" => toClient'[c][j].matchId < m
    <3>1. toClient'[c][i] = toClient[c][i] /\ i \in 1 .. n
      BY <1>5, <1>7, <2>2
    <3>2. PICK m \in MatchIds :
          /\ m = toClient[c][i].matchId
          /\ m \in DOMAIN matches /\ Playing(m, c) /\ matchID_[c] < m
          /\ \A j \in 1 .. i - 1 : toClient[c][j].type = "MATCH_INTRO" => toClient[c][j].matchId < m
      BY <1>1, <1>5, <2>2, <3>1, MatchFacts DEF IntroInv
    <3>3. \A j \in 1 .. i - 1 : toClient'[c][j] = toClient[c][j]
      <4>1. \A j \in 1 .. i - 1 : j \in 1 .. n
        BY <3>1
      <4> QED BY <1>5, <4>1
    <3>4. m \in DOMAIN matches' /\ Playing(m, c)' /\ matchID_[c] < m /\ m = toClient'[c][i].matchId
      BY <1>4, <3>1, <3>2, SameMatches
    <3>5. \A j \in 1 .. i - 1 : toClient'[c][j].type = "MATCH_INTRO" => toClient'[c][j].matchId < m
      BY <3>2, <3>3
    <3> QED BY <3>4, <3>5
  <2>3. matchID_'[c] = matchID_[c]
    BY <1>4 DEF clientVars
  <2> QED BY <2>1, <2>2, <2>3 DEF IntroInv
<1>17. ReportInv(c)'
  <2>1. \A m : Reported(c, m) => Reported(c, m)'
    BY <1>4 DEF Reported, clientVars
  <2>2. \A m \in DOMAIN matches' : Acked(m, c)' => Reported(c, m)'
    BY <1>1, <1>4, <2>1, SameMatches DEF ReportInv
  <2>3. ASSUME NEW i \in 1 .. Len(toServer'[c]), toServer'[c][i].type = "MATCH_INTRO_SUCCESS"
        PROVE  \E m : m = toServer'[c][i].matchId /\ Reported(c, m)'
    BY <1>1, <1>3, <2>1, <2>3 DEF ReportInv
  <2> QED BY <2>2, <2>3 DEF ReportInv
<1>18. StartInv(c)'
  BY <1>4, <1>5, <1>6, <1>7, <1>12, <1>13 DEF StartInv, clientVars
<1>19. SyncInv(c)'
  <2>1. matchID_'[c] = matchID_[c] /\ sendTime'[c] = matchID_[c] /\ netState_'[c] = netState_[c]
    BY <1>1, <1>4 DEF clientVars, SyncInv
  <2>2. ASSUME NEW i \in 1 .. Len(toServer'[c]), toServer'[c][i].type = "TIME_SYNC_REQ"
        PROVE  /\ toServer'[c][i].at <= matchID_'[c]
               /\ \A j \in 1 .. i - 1 :
                     toServer'[c][j].type = "TIME_SYNC_REQ" => toServer'[c][j].at < toServer'[c][i].at
               /\ \A j \in 1 .. Len(toClient'[c]) :
                     toClient'[c][j].type = "TIME_SYNC_RES" => toClient'[c][j].at < toServer'[c][i].at
    <3>1. toServer'[c][i] = toServer[c][i + 1] /\ i + 1 \in 1 .. Len(toServer[c])
      BY <1>3
    <3>2. /\ toServer[c][i + 1].at <= matchID_[c]
          /\ \A j \in 1 .. (i + 1) - 1 :
                toServer[c][j].type = "TIME_SYNC_REQ" => toServer[c][j].at < toServer[c][i + 1].at
          /\ \A j \in 1 .. n :
                toClient[c][j].type = "TIME_SYNC_RES" => toClient[c][j].at < toServer[c][i + 1].at
      BY <1>1, <1>5, <2>2, <3>1 DEF SyncInv
    <3>3. k < toServer[c][i + 1].at
      <4>1. 1 \in 1 .. (i + 1) - 1
        OBVIOUS
      <4> QED BY <1>2, <1>3, <3>2, <4>1
    <3>4. \A j \in 1 .. i - 1 : toServer'[c][j] = toServer[c][j + 1] /\ j + 1 \in 1 .. (i + 1) - 1
      BY <1>3
    <3>5. \A j \in 1 .. i - 1 :
             toServer'[c][j].type = "TIME_SYNC_REQ" => toServer'[c][j].at < toServer'[c][i].at
      BY <3>1, <3>2, <3>4
    <3>6. \A j \in 1 .. n + 1 :
             toClient'[c][j].type = "TIME_SYNC_RES" => toClient'[c][j].at < toServer'[c][i].at
      BY <1>5, <1>6, <3>1, <3>2, <3>3
    <3> QED BY <1>5, <2>1, <3>1, <3>2, <3>5, <3>6
  <2>3. ASSUME NEW i \in 1 .. Len(toClient'[c]), toClient'[c][i].type = "TIME_SYNC_RES"
        PROVE  /\ toClient'[c][i].at <= matchID_'[c]
               /\ \A j \in 1 .. i - 1 :
                     toClient'[c][j].type = "TIME_SYNC_RES" => toClient'[c][j].at < toClient'[c][i].at
    <3>1. CASE i = n + 1
      <4>1. \A j \in 1 .. i - 1 : j \in 1 .. n
        BY <3>1
      <4> QED BY <1>5, <1>6, <1>8, <2>1, <3>1, <4>1
    <3>2. CASE i # n + 1
      <4>1. i \in 1 .. n /\ toClient'[c][i] = toClient[c][i]
        BY <1>5, <3>2
      <4>2. \A j \in 1 .. i - 1 : toClient'[c][j] = toClient[c][j]
        <5>1. \A j \in 1 .. i - 1 : j \in 1 .. n
          BY <4>1
        <5> QED BY <1>5, <5>1
      <4>3. /\ toClient[c][i].at <= matchID_[c]
            /\ \A j \in 1 .. i - 1 :
                  toClient[c][j].type = "TIME_SYNC_RES" => toClient[c][j].at < toClient[c][i].at
        BY <1>1, <1>5, <2>3, <4>1 DEF SyncInv
      <4>4. toClient'[c][i].at <= matchID_'[c]
        BY <2>1, <4>1, <4>3
      <4>5. \A j \in 1 .. i - 1 :
               toClient'[c][j].type = "TIME_SYNC_RES" => toClient'[c][j].at < toClient'[c][i].at
        BY <4>1, <4>2, <4>3
      <4> QED BY <4>4, <4>5
    <3> QED BY <3>1, <3>2
  <2>4. SyncAsked(c)' \/ SyncAnswered(c)'
    <3>1. PICK i \in 1 .. Len(toServer[c]) :
            /\ toServer[c][i].type = "TIME_SYNC_REQ" /\ toServer[c][i].at = matchID_[c]
            /\ \A j \in 1 .. i :
                  ~ (toServer[c][j].type = "MATCH_INTRO_SUCCESS" /\ toServer[c][j].matchId = matchID_[c])
            /\ ~ Acked(matchID_[c], c)
      BY <1>11 DEF SyncAsked
    <3>2. CASE i = 1
      <4>1. k = matchID_[c]
        BY <1>2, <1>3, <3>1, <3>2
      <4>2. n + 1 \in 1 .. Len(toClient'[c])
        BY <1>5
      <4>3. toClient'[c][n + 1].type = "TIME_SYNC_RES" /\ toClient'[c][n + 1].at = matchID_'[c]
        BY <1>6, <2>1, <4>1
      <4> QED BY <4>2, <4>3 DEF SyncAnswered
    <3>3. CASE i # 1
      <4>1. i - 1 \in 1 .. Len(toServer'[c]) /\ (i - 1) + 1 = i
        BY <1>3, <3>3
      <4>2. toServer'[c][i - 1] = toServer[c][i]
        BY <1>3, <4>1
      <4>3. \A j \in 1 .. i - 1 : toServer'[c][j] = toServer[c][j + 1] /\ j + 1 \in 1 .. i
        BY <1>3, <4>1
      <4>4. ~ Acked(matchID_[c], c)'
        BY <1>4, <3>1 DEF Acked, clientVars
      <4>5. \A j \in 1 .. i - 1 :
               ~ (toServer'[c][j].type = "MATCH_INTRO_SUCCESS" /\ toServer'[c][j].matchId = matchID_[c])
        BY <3>1, <4>3
      <4>6. ~ Acked(matchID_[c], c)'
        BY <4>4
      <4> QED BY <2>1, <3>1, <4>1, <4>2, <4>5, <4>6 DEF SyncAsked
    <3> QED BY <3>2, <3>3
  <2> QED BY <1>12, <2>1, <2>2, <2>3, <2>4 DEF SyncInv
<1> QED BY <1>14, <1>15, <1>16, <1>17, <1>18, <1>19 DEF OneMatchInv

(* A report counts for one client in one match.                            *)
LEMMA ReportedMatches ==
  ASSUME TypeInv, NEW c \in Clients, ReceiveIntroSuccess(c)
  PROVE  /\ DOMAIN matches' = DOMAIN matches
         /\ \A n \in DOMAIN matches :
               /\ matches'[n].over = matches[n].over
               /\ \A d : Playing(n, d)' <=> Playing(n, d)
               /\ \A d : d # c \/ n # Head(toServer[c]).matchId => (Acked(n, d)' <=> Acked(n, d))
               /\ Started(n)' <=> Started(n)
<1> DEFINE k == Head(toServer[c]).matchId
<1>1. \/ matches' = matches
      \/ /\ k \in DOMAIN matches /\ ~ matches[k].over
         /\ matches' = [matches EXCEPT ![k].acked = @ \cup {c}]
  BY ReportEffect
<1> HIDE DEF k
<1>2. /\ DOMAIN matches' = DOMAIN matches
      /\ \A n \in DOMAIN matches :
            /\ matches'[n].players = matches[n].players /\ matches'[n].over = matches[n].over
            /\ n # k \/ matches[n].over => matches'[n] = matches[n]
            /\ \A d : d # c => (d \in matches'[n].acked <=> d \in matches[n].acked)
  <2>1. CASE matches' = matches
    BY <2>1
  <2>2. CASE /\ k \in DOMAIN matches /\ ~ matches[k].over
             /\ matches' = [matches EXCEPT ![k].acked = @ \cup {c}]
    <3>1. k \in DOMAIN matches /\ matches[k] \in Match
      BY <2>2, MatchFacts
    <3>2. matches'[k] = [matches[k] EXCEPT !.acked = @ \cup {c}]
      BY <2>2, <3>1
    <3>3. /\ matches'[k].players = matches[k].players
          /\ matches'[k].acked = matches[k].acked \cup {c}
          /\ matches'[k].over = matches[k].over
      BY <3>1, <3>2 DEF Match
    <3>4. \A n \in DOMAIN matches : n # k => matches'[n] = matches[n]
      BY <2>2
    <3>5. DOMAIN matches' = DOMAIN matches
      BY <2>2
    <3>6. ~ matches[k].over
      BY <2>2
    <3> QED BY <3>3, <3>4, <3>5, <3>6
  <2> QED BY <1>1, <2>1, <2>2
<1>3. \A n \in DOMAIN matches :
         /\ matches'[n].over = matches[n].over
         /\ \A d : Playing(n, d)' <=> Playing(n, d)
         /\ \A d : d # c \/ n # k => (Acked(n, d)' <=> Acked(n, d))
         /\ Started(n)' <=> Started(n)
  BY <1>2 DEF Playing, Acked, Started, AllAcked
<1> QED BY <1>2, <1>3 DEF k

LEMMA ReceiveSuccessStep ==
  ASSUME TypeInv, NEW c \in Clients, OneMatchInv(c), ReceiveIntroSuccess(c)
  PROVE  OneMatchInv(c)'
<1>1. /\ PlaceInv(c) /\ RosterInv(c) /\ IntroInv(c) /\ ReportInv(c) /\ StartInv(c) /\ SyncInv(c)
  BY DEF OneMatchInv
<1>2. PICK k \in MatchIds :
        Head(toServer[c]).type = "MATCH_INTRO_SUCCESS" /\ k = Head(toServer[c]).matchId
  BY TailAt, ServerPacketParts DEF ReceiveIntroSuccess, Received, TypeInv
<1>3. /\ Len(toServer[c]) \in Nat \ {0}
      /\ Len(toServer'[c]) = Len(toServer[c]) - 1
      /\ \A i \in 1 .. Len(toServer'[c]) :
            toServer'[c][i] = toServer[c][i + 1] /\ i + 1 \in 1 .. Len(toServer[c])
      /\ Head(toServer[c]) = toServer[c][1] /\ 1 \in 1 .. Len(toServer[c])
  BY FromClient DEF ReceiveIntroSuccess
<1>4. UNCHANGED <<clientVars, asked, toClient, waiting>>
  BY ReportEffect DEF ReceiveIntroSuccess, Received
<1>5. Reported(c, k)
  BY <1>1, <1>2, <1>3 DEF ReportInv
<1>7. DOMAIN matches' = DOMAIN matches
  BY ReportedMatches
<1>8. \A n \in DOMAIN matches :
         /\ matches'[n].over = matches[n].over
         /\ \A d : Playing(n, d)' <=> Playing(n, d)
         /\ n # k => (Acked(n, c)' <=> Acked(n, c))
         /\ Started(n)' <=> Started(n)
  BY <1>2, ReportedMatches
<1>10. PlaceInv(c)'
  <2>1. Settled(c) => Settled(c)'
    BY <1>3, <1>4, <1>7, <1>8 DEF Settled
  <2>2. Asking(c)' => Asking(c)
    BY <1>3 DEF Asking
  <2>3. ASSUME NEW i \in 1 .. Len(toServer'[c]), NEW j \in 1 .. Len(toServer'[c]),
               toServer'[c][i].type = "MATCH_REQUEST", toServer'[c][j].type = "MATCH_REQUEST"
        PROVE  i = j
    <3>1. /\ i + 1 \in 1 .. Len(toServer[c]) /\ toServer[c][i + 1].type = "MATCH_REQUEST"
          /\ j + 1 \in 1 .. Len(toServer[c]) /\ toServer[c][j + 1].type = "MATCH_REQUEST"
      BY <1>3, <2>3
    <3>2. i + 1 = j + 1
      BY <1>1, <3>1 DEF PlaceInv
    <3> QED BY <3>2
  <2> QED BY <1>1, <1>4, <2>1, <2>2, <2>3 DEF PlaceInv
<1>11. RosterInv(c)'
  <2>1. \A n \in DOMAIN matches : Open(n, c)' => Open(n, c)
    BY <1>4, <1>8 DEF Open
  <2> QED BY <1>1, <1>4, <1>7, <1>8, <2>1 DEF RosterInv
<1>12. IntroInv(c)'
  BY <1>1, <1>4, <1>7, <1>8 DEF IntroInv, clientVars
<1>13. \A n : Reported(c, n) => Reported(c, n)'
  BY <1>4, <1>7 DEF Reported, clientVars
<1>14. ReportInv(c)'
  <2>1. \A n \in DOMAIN matches' : Acked(n, c)' => Reported(c, n)'
    BY <1>1, <1>5, <1>7, <1>8, <1>13 DEF ReportInv
  <2>2. ASSUME NEW i \in 1 .. Len(toServer'[c]), toServer'[c][i].type = "MATCH_INTRO_SUCCESS"
        PROVE  \E m : m = toServer'[c][i].matchId /\ Reported(c, m)'
    BY <1>1, <1>3, <1>13, <2>2 DEF ReportInv
  <2> QED BY <2>1, <2>2 DEF ReportInv
<1>15. StartInv(c)'
  <2>1. \A n : Started(n) => n \in DOMAIN matches
    BY DEF Started
  <2> QED BY <1>1, <1>4, <1>8, <2>1 DEF StartInv, clientVars
<1>16. SyncInv(c)'
  <2>1. /\ matchID_'[c] = matchID_[c] /\ sendTime'[c] = matchID_[c] /\ netState_'[c] = netState_[c]
        /\ toClient'[c] = toClient[c] /\ serverTimeOffset'[c] = serverTimeOffset[c]
    BY <1>1, <1>4 DEF clientVars, SyncInv
  <2>2. ASSUME NEW i \in 1 .. Len(toServer'[c]), toServer'[c][i].type = "TIME_SYNC_REQ"
        PROVE  /\ toServer'[c][i].at <= matchID_'[c]
               /\ \A j \in 1 .. i - 1 :
                     toServer'[c][j].type = "TIME_SYNC_REQ" => toServer'[c][j].at < toServer'[c][i].at
               /\ \A j \in 1 .. Len(toClient'[c]) :
                     toClient'[c][j].type = "TIME_SYNC_RES" => toClient'[c][j].at < toServer'[c][i].at
    <3>1. toServer'[c][i] = toServer[c][i + 1] /\ i + 1 \in 1 .. Len(toServer[c])
      BY <1>3
    <3>2. /\ toServer[c][i + 1].at <= matchID_[c]
          /\ \A j \in 1 .. (i + 1) - 1 :
                toServer[c][j].type = "TIME_SYNC_REQ" => toServer[c][j].at < toServer[c][i + 1].at
          /\ \A j \in 1 .. Len(toClient[c]) :
                toClient[c][j].type = "TIME_SYNC_RES" => toClient[c][j].at < toServer[c][i + 1].at
      BY <1>1, <2>2, <3>1 DEF SyncInv
    <3>3. \A j \in 1 .. i - 1 : toServer'[c][j] = toServer[c][j + 1] /\ j + 1 \in 1 .. (i + 1) - 1
      <4>1. \A j \in 1 .. i - 1 : j \in 1 .. Len(toServer'[c]) /\ j + 1 \in 1 .. (i + 1) - 1
        BY <1>3
      <4> QED BY <1>3, <4>1
    <3>4. \A j \in 1 .. i - 1 :
             toServer'[c][j].type = "TIME_SYNC_REQ" => toServer'[c][j].at < toServer'[c][i].at
      BY <3>1, <3>2, <3>3
    <3> QED BY <2>1, <3>1, <3>2, <3>4
  <2>3. \A i \in 1 .. Len(toClient'[c]) :
           toClient'[c][i].type = "TIME_SYNC_RES" =>
               /\ toClient'[c][i].at <= matchID_'[c]
               /\ \A j \in 1 .. i - 1 :
                     toClient'[c][j].type = "TIME_SYNC_RES" => toClient'[c][j].at < toClient'[c][i].at
    BY <1>1, <2>1 DEF SyncInv
  <2>4. SyncAnswered(c) => SyncAnswered(c)'
    BY <2>1 DEF SyncAnswered
  <2>5. SyncDone(c) => SyncDone(c)'
    BY <1>3, <2>1 DEF SyncDone
  <2>6. ASSUME SyncAsked(c), matchID_[c] # 0 PROVE SyncAsked(c)'
    <3>1. PICK m \in DOMAIN matches : m = matchID_[c]
      BY <1>1, <2>6 DEF IntroInv
    <3>2. PICK i \in 1 .. Len(toServer[c]) :
            /\ toServer[c][i].type = "TIME_SYNC_REQ" /\ toServer[c][i].at = m
            /\ \A j \in 1 .. i :
                  ~ (toServer[c][j].type = "MATCH_INTRO_SUCCESS" /\ toServer[c][j].matchId = m)
            /\ ~ Acked(m, c)
      BY <2>6, <3>1 DEF SyncAsked
    <3>3. i # 1
      BY <1>2, <1>3, <3>2
    <3>4. k # m
      <4>1. 1 \in 1 .. i
        OBVIOUS
      <4> QED BY <1>2, <1>3, <3>2, <4>1
    <3>5. i - 1 \in 1 .. Len(toServer'[c]) /\ (i - 1) + 1 = i
      BY <1>3, <3>3
    <3>6. toServer'[c][i - 1] = toServer[c][i]
      BY <1>3, <3>5
    <3>7. \A j \in 1 .. i - 1 : toServer'[c][j] = toServer[c][j + 1] /\ j + 1 \in 1 .. i
      BY <1>3, <3>5
    <3>8. \A j \in 1 .. i - 1 :
             ~ (toServer'[c][j].type = "MATCH_INTRO_SUCCESS" /\ toServer'[c][j].matchId = m)
      BY <3>2, <3>7
    <3>9. ~ Acked(m, c)'
      BY <1>8, <3>2, <3>4
    <3> QED BY <2>1, <3>1, <3>2, <3>5, <3>6, <3>8, <3>9 DEF SyncAsked
  <2> QED BY <1>1, <2>1, <2>2, <2>3, <2>4, <2>5, <2>6 DEF SyncInv
<1> QED BY <1>10, <1>11, <1>12, <1>14, <1>15, <1>16 DEF OneMatchInv

LEMMA StartMatchStep ==
  ASSUME TypeInv, NEW c \in Clients, OneMatchInv(c), NEW m \in MatchIds, StartMatch(m)
  PROVE  OneMatchInv(c)'
<1>1. /\ m \in DOMAIN matches /\ ~ matches[m].over /\ AllAcked(m)
      /\ matches' = [matches EXCEPT ![m].over = TRUE]
      /\ UNCHANGED <<clientVars, asked, toServer, waiting>>
      /\ matches[m] \in Match /\ m \in Nat \ {0}
  BY StartEffect, MatchFacts DEF StartMatch
<1>2. /\ DOMAIN matches' = DOMAIN matches
      /\ matches'[m].players = matches[m].players /\ matches'[m].acked = matches[m].acked
      /\ matches'[m].over
      /\ \A n \in DOMAIN matches : n # m => matches'[n] = matches[n]
  BY <1>1 DEF Match
<1>3. \A n \in DOMAIN matches :
         /\ \A d : (Playing(n, d)' <=> Playing(n, d)) /\ (Acked(n, d)' <=> Acked(n, d))
         /\ (Started(n) => Started(n)')
  <2> SUFFICES ASSUME NEW n \in DOMAIN matches
               PROVE  /\ \A d : (Playing(n, d)' <=> Playing(n, d)) /\ (Acked(n, d)' <=> Acked(n, d))
                      /\ (Started(n) => Started(n)')
    OBVIOUS
  <2>1. CASE n = m
    BY <1>1, <1>2, <2>1 DEF Playing, Acked, Started, AllAcked
  <2>2. CASE n # m
    BY <1>2, <2>2 DEF Playing, Acked, Started, AllAcked
  <2> QED BY <2>1, <2>2
<1>4. Started(m)' /\ Open(m, c) /\ ~ Started(m) /\ \A d : Playing(m, d) => Acked(m, d)
  BY <1>1, <1>2 DEF Started, AllAcked, Open, Playing, Acked
<1>5. CASE ~ Playing(m, c)
  <2>1. toClient'[c] = toClient[c]
    BY <1>5 DEF StartMatch, StartedOf, Playing
  <2>2. \A n \in DOMAIN matches : matches[n].over => matches'[n].over
    BY <1>2
  <2> QED BY <1>1, <1>2, <1>3, <2>1, <2>2, Elsewhere DEF clientVars
<1>6. CASE Playing(m, c)
  <2>1. /\ PlaceInv(c) /\ RosterInv(c) /\ IntroInv(c) /\ ReportInv(c) /\ StartInv(c) /\ SyncInv(c)
    BY DEF OneMatchInv
  <2>2. toClient'[c] = Append(toClient[c], [type |-> "MATCH_START", matchId |-> m])
    BY <1>6 DEF StartMatch, StartedOf, Playing
  <2>3. PICK n \in Nat :
      /\ n = Len(toClient[c])
      /\ Len(toClient'[c]) = n + 1
      /\ toClient'[c][n + 1] = [type |-> "MATCH_START", matchId |-> m]
      /\ \A i \in 1 .. n : i \in 1 .. n + 1 /\ toClient'[c][i] = toClient[c][i]
      /\ \A i \in 1 .. n + 1 : i # n + 1 => i \in 1 .. n
      /\ n + 1 \in 1 .. n + 1
    BY <2>2, Kinds, ToClient
  <2>4. toClient'[c][n + 1].type = "MATCH_START" /\ toClient'[c][n + 1].matchId = m
    BY <2>3
  <2>5. \A i \in 1 .. n + 1 : toClient'[c][i].type # "MATCH_START" =>
            i \in 1 .. n /\ toClient'[c][i] = toClient[c][i]
    BY <2>3, <2>4
  <2>6. /\ matchID_'[c] = matchID_[c] /\ netState_'[c] = netState_[c] /\ sendTime'[c] = sendTime[c]
        /\ serverTimeOffset'[c] = serverTimeOffset[c]
        /\ asked'[c] = asked[c] /\ toServer'[c] = toServer[c]
    BY <1>1 DEF clientVars
  <2>7. matchID_[c] = m /\ netState_[c] = "NSS_Lobby"
    <3>1. Reported(c, m)
      BY <1>1, <1>4, <1>6, <2>1 DEF ReportInv
    <3>2. matchID_[c] \in Nat /\ m <= matchID_[c]
      BY <3>1 DEF Reported, TypeInv
    <3>3. matchID_[c] \in DOMAIN matches /\ Playing(matchID_[c], c)
      BY <1>1, <2>1, <3>2 DEF IntroInv
    <3>4. matchID_[c] <= m
      BY <1>1, <1>4, <1>6, <2>1, <3>3 DEF RosterInv
    <3>5. matchID_[c] = m
      BY <1>1, <3>2, <3>4
    <3>6. netState_[c] \notin {"NSS_Starting", "NSS_Playing"}
      BY <1>4, <2>1, <3>5 DEF StartInv
    <3> QED BY <3>1, <3>5, <3>6 DEF Reported
  <2>8. \A i \in 1 .. n : toClient[c][i].type # "MATCH_START"
    BY <1>4, <2>1, <2>3, <2>7 DEF StartInv
  <2>9. PlaceInv(c)'
    <3>1. ~ Settled(c)
      BY <1>1, <1>6 DEF Settled
    <3>2. Asking(c)' => Asking(c)
      BY <2>6 DEF Asking
    <3> QED BY <2>1, <2>6, <3>1, <3>2, PlaceKept
  <2>10. RosterInv(c)'
    <3>1. ASSUME NEW k \in DOMAIN matches, Open(k, c)' PROVE Open(k, c)
      <4>1. CASE k = m
        BY <1>4, <4>1
      <4>2. CASE k # m
        <5>1. CASE ~ matches'[k].over
          BY <1>2, <4>2, <5>1 DEF Open
        <5>2. CASE \E i \in 1 .. Len(toClient'[c]) :
                      toClient'[c][i].type = "MATCH_START" /\ toClient'[c][i].matchId = k
          BY <2>3, <2>4, <4>2, <5>2 DEF Open
        <5> QED BY <3>1, <5>1, <5>2 DEF Open
      <4> QED BY <4>1, <4>2
    <3> QED BY <1>1, <1>2, <1>3, <2>1, <3>1 DEF RosterInv
  <2>11. IntroInv(c)'
    <3>1. m \in DOMAIN matches' /\ Playing(m, c)' /\ matchID_'[c] = m
      BY <1>1, <1>2, <1>3, <1>6, <2>6, <2>7
    <3>2. ASSUME NEW i \in 1 .. Len(toClient'[c]), toClient'[c][i].type = "MATCH_INTRO"
          PROVE  \E k \in MatchIds :
                    /\ k = toClient'[c][i].matchId
                    /\ k \in DOMAIN matches' /\ Playing(k, c)' /\ matchID_'[c] < k
                    /\ \A j \in 1 .. i - 1 :
                          toClient'[c][j].type = "MATCH_INTRO" => toClient'[c][j].matchId < k
      <4>1. toClient'[c][i] = toClient[c][i] /\ i \in 1 .. n
        BY <2>3, <2>5, <3>2
      <4>2. PICK k \in MatchIds :
            /\ k = toClient[c][i].matchId
            /\ k \in DOMAIN matches /\ Playing(k, c) /\ matchID_[c] < k
            /\ \A j \in 1 .. i - 1 : toClient[c][j].type = "MATCH_INTRO" => toClient[c][j].matchId < k
        BY <2>1, <2>3, <3>2, <4>1, MatchFacts DEF IntroInv
      <4>3. \A j \in 1 .. i - 1 : toClient'[c][j] = toClient[c][j]
        <5>1. \A j \in 1 .. i - 1 : j \in 1 .. n
          BY <4>1
        <5> QED BY <2>3, <5>1
      <4>4. k \in DOMAIN matches' /\ Playing(k, c)' /\ matchID_'[c] < k /\ k = toClient'[c][i].matchId
        BY <1>2, <1>3, <2>6, <4>1, <4>2
      <4>5. \A j \in 1 .. i - 1 : toClient'[c][j].type = "MATCH_INTRO" => toClient'[c][j].matchId < k
        BY <4>2, <4>3
      <4> QED BY <4>4, <4>5
    <3> QED BY <3>1, <3>2 DEF IntroInv
  <2>12. ReportInv(c)'
    <3>1. \A k : Reported(c, k) => Reported(c, k)'
      BY <1>2, <2>6 DEF Reported
    <3> QED BY <1>2, <1>3, <2>1, <2>6, <3>1 DEF ReportInv
  <2>13. StartInv(c)'
    <3>1. Playing(m, c)'
      BY <1>1, <1>3, <1>6
    <3>2. ASSUME NEW i \in 1 .. Len(toClient'[c]), toClient'[c][i].type = "MATCH_START"
          PROVE  i = Len(toClient'[c]) /\ toClient'[c][i].matchId = m
      BY <2>3, <2>4, <2>8, <3>2
    <3> QED BY <1>4, <2>6, <2>7, <3>1, <3>2 DEF StartInv
  <2>14. SyncInv(c)'
    <3>1. \A i \in 1 .. Len(toServer'[c]) :
             toServer'[c][i].type = "TIME_SYNC_REQ" =>
                 /\ toServer'[c][i].at <= matchID_'[c]
                 /\ \A j \in 1 .. i - 1 :
                       toServer'[c][j].type = "TIME_SYNC_REQ" => toServer'[c][j].at < toServer'[c][i].at
                 /\ \A j \in 1 .. Len(toClient'[c]) :
                       toClient'[c][j].type = "TIME_SYNC_RES" => toClient'[c][j].at < toServer'[c][i].at
      <4>1. \A j \in 1 .. Len(toClient'[c]) : toClient'[c][j].type = "TIME_SYNC_RES" =>
               j \in 1 .. Len(toClient[c]) /\ toClient'[c][j] = toClient[c][j]
        BY <2>3, <2>4, <2>5
      <4> QED BY <2>1, <2>6, <4>1 DEF SyncInv
    <3>2. ASSUME NEW i \in 1 .. Len(toClient'[c]), toClient'[c][i].type = "TIME_SYNC_RES"
          PROVE  /\ toClient'[c][i].at <= matchID_'[c]
                 /\ \A j \in 1 .. i - 1 :
                       toClient'[c][j].type = "TIME_SYNC_RES" => toClient'[c][j].at < toClient'[c][i].at
      <4>1. i \in 1 .. n /\ toClient'[c][i] = toClient[c][i]
        BY <2>3, <2>4, <2>5, <3>2
      <4>2. \A j \in 1 .. i - 1 : toClient'[c][j] = toClient[c][j]
        <5>1. \A j \in 1 .. i - 1 : j \in 1 .. n
          BY <4>1
        <5> QED BY <2>3, <5>1
      <4>3. /\ toClient[c][i].at <= matchID_[c]
            /\ \A j \in 1 .. i - 1 :
                  toClient[c][j].type = "TIME_SYNC_RES" => toClient[c][j].at < toClient[c][i].at
        BY <2>1, <2>3, <3>2, <4>1 DEF SyncInv
      <4> QED BY <2>6, <4>1, <4>2, <4>3
    <3>3. SyncAnswered(c) => SyncAnswered(c)'
      BY <2>3, <2>6 DEF SyncAnswered
    <3>4. SyncDone(c) => SyncDone(c)'
      BY <2>3, <2>4, <2>5, <2>6 DEF SyncDone
    <3>5. ~ SyncAsked(c)
      BY <1>4, <1>6, <2>7 DEF SyncAsked
    <3> QED BY <1>1, <2>1, <2>6, <2>7, <3>1, <3>2, <3>3, <3>4, <3>5 DEF SyncInv
  <2> QED BY <2>9, <2>10, <2>11, <2>12, <2>13, <2>14 DEF OneMatchInv
<1> QED BY <1>5, <1>6

LEMMA GiveUpStep ==
  ASSUME TypeInv, NEW c \in Clients, OneMatchInv(c), NEW m \in MatchIds, GiveUpMatch(m)
  PROVE  OneMatchInv(c)'
<1>1. /\ m \in DOMAIN matches /\ ~ matches[m].over /\ ~ AllAcked(m)
      /\ matches' = [matches EXCEPT ![m].over = TRUE]
      /\ UNCHANGED <<clientVars, asked, toServer, toClient>>
      /\ matches[m] \in Match
  BY GiveUpEffect, MatchFacts DEF GiveUpMatch
<1>2. c \in waiting' => c \in waiting \/ Playing(m, c)
  BY GiveUpEffect
<1>3. /\ DOMAIN matches' = DOMAIN matches
      /\ matches'[m].players = matches[m].players /\ matches'[m].acked = matches[m].acked
      /\ \A n \in DOMAIN matches : n # m => matches'[n] = matches[n]
      /\ matches'[m].over
  BY <1>1 DEF Match
<1>4. Open(m, c) /\ ~ Started(m)
  BY <1>1 DEF Open, Started
<1>5. \A n \in DOMAIN matches :
         /\ (Playing(n, c)' <=> Playing(n, c)) /\ (Acked(n, c)' <=> Acked(n, c))
         /\ matches[n].over => matches'[n].over
         /\ Started(n) => Started(n)'
  <2> SUFFICES ASSUME NEW n \in DOMAIN matches
               PROVE  /\ (Playing(n, c)' <=> Playing(n, c)) /\ (Acked(n, c)' <=> Acked(n, c))
                      /\ (matches[n].over => matches'[n].over)
                      /\ (Started(n) => Started(n)')
    OBVIOUS
  <2>1. CASE n = m
    BY <1>3, <1>4, <2>1 DEF Playing, Acked
  <2>2. CASE n # m
    BY <1>3, <2>2 DEF Playing, Acked, Started, AllAcked
  <2> QED BY <2>1, <2>2
<1>6. CASE ~ Playing(m, c)
  BY <1>1, <1>2, <1>3, <1>5, <1>6, Elsewhere DEF clientVars
<1>7. CASE Playing(m, c)
  <2>1. PlaceInv(c) /\ RosterInv(c) /\ StartInv(c)
    BY DEF OneMatchInv
  <2>2. PlaceInv(c)'
    <3>1. ~ Settled(c)
      BY <1>1, <1>7 DEF Settled
    <3>2. (Asking(c)' => Asking(c)) /\ asked'[c] = asked[c]
      BY <1>1 DEF Asking
    <3> QED BY <2>1, <3>1, <3>2, PlaceKept
  <2>3. RosterInv(c)'
    <3>1. ASSUME NEW n \in DOMAIN matches, Playing(n, c), Open(n, c), n # m PROVE FALSE
      <4>1. n <= m /\ m <= n /\ n \in Nat /\ m \in Nat
        BY <1>1, <1>4, <1>7, <2>1, <3>1, MatchFacts DEF RosterInv
      <4> QED BY <3>1, <4>1
    <3>2. \A n \in DOMAIN matches : Open(n, c)' => Open(n, c)
      BY <1>1, <1>5 DEF Open
    <3>3. ~ Open(m, c)'
      <4>1. \A i \in 1 .. Len(toClient[c]) :
               ~ (toClient[c][i].type = "MATCH_START" /\ toClient[c][i].matchId = m)
        BY <1>4, <2>1 DEF StartInv
      <4> QED BY <1>1, <1>3, <4>1 DEF Open
    <3> QED BY <1>3, <1>5, <3>1, <3>2, <3>3 DEF RosterInv
  <2>4. IntroInv(c)' /\ ReportInv(c)' /\ StartInv(c)' /\ SyncInv(c)'
    BY <1>1, <1>3, <1>5, ElsewhereRest DEF clientVars
  <2> QED BY <2>2, <2>3, <2>4 DEF OneMatchInv
<1> QED BY <1>6, <1>7

LEMMA CreateStep ==
  ASSUME TypeInv, NEW c \in Clients, OneMatchInv(c), CreateMatch
  PROVE  OneMatchInv(c)'
<1>1. PICK roster \in [PlayerIds -> MatchRequest] :
        /\ matches' = Append(matches, [players |-> roster, acked |-> {}, over |-> FALSE])
        /\ toClient' = [d \in Clients |->
               IF \E p \in PlayerIds : roster[p].sessionId = d
               THEN LET p == CHOOSE q \in PlayerIds : roster[q].sessionId = d
                    IN  Append(toClient[d], Intro(Len(matches) + 1,
                                                  [q \in PlayerIds |-> roster[q].address], p))
               ELSE toClient[d]]
        /\ \A p \in PlayerIds : /\ roster[p].sessionId \in Clients /\ roster[p].address \in Addresses
                                /\ roster[p].sessionId \in waiting
                                /\ roster[p].sessionId \notin waiting'
        /\ waiting' \subseteq waiting
        /\ DOMAIN offers' \subseteq DOMAIN offers
  BY DrawEffect
<1>2. PICK m \in MatchIds : m = Len(matches) + 1
  BY SizeAssumption, LenProperties DEF CreateMatch, TypeInv, MatchIds
<1>3. UNCHANGED <<clientVars, asked, toServer>>
  BY DEF CreateMatch
<1>4. /\ DOMAIN matches = 1 .. m - 1 /\ DOMAIN matches' = 1 .. m /\ m \in Nat \ {0}
      /\ \A n \in DOMAIN matches : n \in DOMAIN matches' /\ matches'[n] = matches[n] /\ n < m
      /\ matches'[m].players = roster
      /\ matches'[m].acked = {} /\ ~ matches'[m].over
      /\ \A n \in DOMAIN matches' : n \notin DOMAIN matches => n = m
  <2> DEFINE new == [players |-> roster, acked |-> {}, over |-> FALSE]
  <2>1. new \in Match
    BY DEF Match
  <2>2. new.players = roster /\ new.acked = {} /\ ~ new.over
    OBVIOUS
  <2>3. matches \in Seq(Match) /\ matches' = Append(matches, new)
    BY <1>1 DEF TypeInv
  <2> HIDE DEF new
  <2>4. /\ matches' \in Seq(Match) /\ Len(matches') = Len(matches) + 1 /\ Len(matches) \in Nat
        /\ \A i \in 1 .. Len(matches) : matches'[i] = matches[i]
        /\ matches'[Len(matches) + 1] = new
    BY <2>1, <2>3, AppendAt
  <2>5. DOMAIN matches = 1 .. Len(matches) /\ DOMAIN matches' = 1 .. Len(matches')
    BY <2>3, <2>4, LenProperties
  <2> QED BY <1>2, <2>2, <2>4, <2>5
<1>5. \A n \in DOMAIN matches :
         /\ \A d : (Playing(n, d)' <=> Playing(n, d)) /\ (Acked(n, d)' <=> Acked(n, d))
         /\ matches'[n].over = matches[n].over /\ (Started(n)' <=> Started(n))
  BY <1>4 DEF Playing, Acked, Started, AllAcked
<1>6. /\ \A d : Playing(m, d)' <=> \E p \in PlayerIds : roster[p].sessionId = d
      /\ \A d : ~ Acked(m, d)'
  BY <1>4 DEF Playing, Acked
<1>7. CASE ~ Playing(m, c)'
  <2>1. toClient'[c] = toClient[c]
    BY <1>1, <1>6, <1>7
  <2>2. c \in waiting' => c \in waiting
    BY <1>1
  <2> QED BY <1>3, <1>4, <1>5, <1>6, <1>7, <2>1, <2>2, Elsewhere DEF clientVars
<1>8. CASE Playing(m, c)'
  <2>1. /\ PlaceInv(c) /\ RosterInv(c) /\ IntroInv(c) /\ ReportInv(c) /\ StartInv(c) /\ SyncInv(c)
    BY DEF OneMatchInv
  <2>2. PICK p \in PlayerIds : roster[p].sessionId = c
    BY <1>6, <1>8
  <2>3. c \in waiting /\ c \notin waiting'
    BY <1>1, <2>2
  <2>4. \A n \in DOMAIN matches : Playing(n, c) => ~ Open(n, c)
    BY <2>1, <2>3 DEF RosterInv
  <2>5. /\ matchID_'[c] = matchID_[c] /\ netState_'[c] = netState_[c] /\ sendTime'[c] = sendTime[c]
        /\ serverTimeOffset'[c] = serverTimeOffset[c]
        /\ asked'[c] = asked[c] /\ toServer'[c] = toServer[c]
        /\ matchID_[c] \in Nat
    BY <1>3 DEF clientVars, TypeInv
  <2>6. PICK as \in [PlayerIds -> Addresses], q \in PlayerIds :
          toClient'[c] = Append(toClient[c], Intro(m, as, q))
    <3> DEFINE as == [q \in PlayerIds |-> roster[q].address]
               self == CHOOSE q \in PlayerIds : roster[q].sessionId = c
    <3>1. as \in [PlayerIds -> Addresses] /\ self \in PlayerIds
      BY <1>1, <2>2
    <3>2. toClient'[c] = Append(toClient[c], Intro(m, as, self))
      BY <1>1, <1>2, <2>2
    <3> HIDE DEF as, self
    <3> QED BY <3>1, <3>2
  <2>7. PICK n \in Nat :
      /\ n = Len(toClient[c])
      /\ Len(toClient'[c]) = n + 1
      /\ toClient'[c][n + 1] = Intro(m, as, q)
      /\ \A i \in 1 .. n : i \in 1 .. n + 1 /\ toClient'[c][i] = toClient[c][i]
      /\ \A i \in 1 .. n + 1 : i # n + 1 => i \in 1 .. n
      /\ n + 1 \in 1 .. n + 1
    BY <2>6, Kinds, ToClient
  <2>8. toClient'[c][n + 1].type = "MATCH_INTRO" /\ toClient'[c][n + 1].matchId = m
    BY <2>7 DEF Intro
  <2>9. \A i \in 1 .. n + 1 : toClient'[c][i].type # "MATCH_INTRO" =>
            i \in 1 .. n /\ toClient'[c][i] = toClient[c][i]
    BY <2>7, <2>8
  <2>10. matchID_[c] # 0 => matchID_[c] \in DOMAIN matches
    BY <2>1 DEF IntroInv
  <2>12. \A i \in 1 .. n : toClient[c][i].type # "MATCH_START"
    <3> SUFFICES ASSUME NEW i \in 1 .. n, toClient[c][i].type = "MATCH_START" PROVE FALSE
      OBVIOUS
    <3>1. PICK k : /\ Started(k) /\ Playing(k, c)
                   /\ toClient[c][i].matchId = k
      BY <2>1, <2>7 DEF StartInv
    <3>2. k \in DOMAIN matches /\ Open(k, c)
      BY <2>7, <3>1 DEF Started, Open
    <3> QED BY <2>4, <3>1, <3>2
  <2>13. PlaceInv(c)'
    <3>1. ~ Settled(c)
      BY <2>3 DEF Settled
    <3>2. Asking(c)' => Asking(c)
      BY <2>5 DEF Asking
    <3> QED BY <2>1, <2>5, <3>1, <3>2, PlaceKept
  <2>14. RosterInv(c)'
    <3>0. ASSUME NEW k \in DOMAIN matches, Open(k, c)' PROVE Open(k, c)
      <4>1. CASE ~ matches'[k].over
        BY <1>5, <4>1 DEF Open
      <4>2. CASE \E i \in 1 .. Len(toClient'[c]) :
                    toClient'[c][i].type = "MATCH_START" /\ toClient'[c][i].matchId = k
        BY <2>7, <2>9, <4>2 DEF Open
      <4> QED BY <3>0, <4>1, <4>2 DEF Open
    <3>1. \A k \in DOMAIN matches' : Playing(k, c)' /\ Open(k, c)' => k = m
      BY <1>4, <1>5, <2>4, <3>0
    <3>2. \A k \in DOMAIN matches' : k <= m
      BY <1>4
    <3> QED BY <2>3, <3>1, <3>2 DEF RosterInv
  <2>15. matchID_[c] < m
    BY <1>4, <2>5, <2>10
  <2>16. IntroInv(c)'
    <3>1. matchID_[c] # 0 => \E k \in DOMAIN matches' : k = matchID_[c] /\ Playing(k, c)'
      <4> SUFFICES ASSUME matchID_[c] # 0 PROVE \E k \in DOMAIN matches' : k = matchID_[c] /\ Playing(k, c)'
        OBVIOUS
      <4>1. PICK k \in DOMAIN matches : k = matchID_[c] /\ Playing(k, c)
        BY <2>1 DEF IntroInv
      <4> QED BY <1>4, <1>5, <4>1
    <3>2. ASSUME NEW i \in 1 .. Len(toClient'[c]), toClient'[c][i].type = "MATCH_INTRO"
          PROVE  \E k \in MatchIds :
                    /\ k = toClient'[c][i].matchId
                    /\ k \in DOMAIN matches' /\ Playing(k, c)' /\ matchID_'[c] < k
                    /\ \A j \in 1 .. i - 1 :
                          toClient'[c][j].type = "MATCH_INTRO" => toClient'[c][j].matchId < k
      <4>1. \A j \in 1 .. n : toClient[c][j].type = "MATCH_INTRO" => toClient[c][j].matchId \in DOMAIN matches
        BY <2>1, <2>7 DEF IntroInv
      <4>2. CASE i = n + 1
        <5>1. \A j \in 1 .. i - 1 : j \in 1 .. n /\ toClient'[c][j] = toClient[c][j]
          BY <2>7, <4>2
        <5>2. \A j \in 1 .. i - 1 : toClient'[c][j].type = "MATCH_INTRO" => toClient'[c][j].matchId < m
          BY <1>4, <4>1, <5>1
        <5>3. m \in DOMAIN matches' /\ matchID_'[c] < m /\ m = toClient'[c][i].matchId
          BY <1>4, <2>5, <2>8, <2>15, <4>2
        <5> QED BY <1>8, <5>2, <5>3
      <4>3. CASE i # n + 1
        <5>1. toClient'[c][i] = toClient[c][i] /\ i \in 1 .. n
          BY <2>7, <4>3
        <5>2. PICK k \in MatchIds :
              /\ k = toClient[c][i].matchId
              /\ k \in DOMAIN matches /\ Playing(k, c) /\ matchID_[c] < k
              /\ \A j \in 1 .. i - 1 : toClient[c][j].type = "MATCH_INTRO" => toClient[c][j].matchId < k
          BY <2>1, <2>7, <3>2, <5>1, MatchFacts DEF IntroInv
        <5>3. \A j \in 1 .. i - 1 : toClient'[c][j] = toClient[c][j]
          <6>1. \A j \in 1 .. i - 1 : j \in 1 .. n
            BY <5>1
          <6> QED BY <2>7, <6>1
        <5>4. k \in DOMAIN matches' /\ Playing(k, c)' /\ matchID_'[c] < k /\ k = toClient'[c][i].matchId
          BY <1>4, <1>5, <2>5, <5>1, <5>2
        <5>5. \A j \in 1 .. i - 1 : toClient'[c][j].type = "MATCH_INTRO" => toClient'[c][j].matchId < k
          BY <5>2, <5>3
        <5> QED BY <5>4, <5>5
      <4> QED BY <4>2, <4>3
    <3> QED BY <2>5, <3>1, <3>2 DEF IntroInv
  <2>17. ReportInv(c)'
    <3>1. \A k : Reported(c, k) => Reported(c, k)'
      BY <1>4, <2>5 DEF Reported
    <3>2. \A k \in DOMAIN matches' : Acked(k, c)' => Reported(c, k)'
      BY <1>4, <1>5, <1>6, <2>1, <3>1 DEF ReportInv
    <3> QED BY <2>1, <2>5, <3>1, <3>2 DEF ReportInv
  <2>18. StartInv(c)'
    <3>1. \A i \in 1 .. Len(toClient'[c]) : toClient'[c][i].type # "MATCH_START"
      BY <2>7, <2>9, <2>12
    <3>2. \A k : Started(k) => Started(k)'
      BY <1>5 DEF Started
    <3> QED BY <2>1, <2>5, <3>1, <3>2 DEF StartInv
  <2>19. SyncInv(c)'
    <3>1. \A j \in 1 .. Len(toClient'[c]) : toClient'[c][j].type = "TIME_SYNC_RES" =>
             j \in 1 .. Len(toClient[c]) /\ toClient'[c][j] = toClient[c][j]
      BY <2>7, <2>8, <2>9
    <3>2. \A i \in 1 .. Len(toServer'[c]) :
             toServer'[c][i].type = "TIME_SYNC_REQ" =>
                 /\ toServer'[c][i].at <= matchID_'[c]
                 /\ \A j \in 1 .. i - 1 :
                       toServer'[c][j].type = "TIME_SYNC_REQ" => toServer'[c][j].at < toServer'[c][i].at
                 /\ \A j \in 1 .. Len(toClient'[c]) :
                       toClient'[c][j].type = "TIME_SYNC_RES" => toClient'[c][j].at < toServer'[c][i].at
      BY <2>1, <2>5, <3>1 DEF SyncInv
    <3>3. ASSUME NEW i \in 1 .. Len(toClient'[c]), toClient'[c][i].type = "TIME_SYNC_RES"
          PROVE  /\ toClient'[c][i].at <= matchID_'[c]
                 /\ \A j \in 1 .. i - 1 :
                       toClient'[c][j].type = "TIME_SYNC_RES" => toClient'[c][j].at < toClient'[c][i].at
      <4>1. i \in 1 .. n /\ toClient'[c][i] = toClient[c][i]
        BY <2>7, <3>1, <3>3
      <4>2. \A j \in 1 .. i - 1 : toClient'[c][j] = toClient[c][j]
        <5>1. \A j \in 1 .. i - 1 : j \in 1 .. n
          BY <4>1
        <5> QED BY <2>7, <5>1
      <4>3. /\ toClient[c][i].at <= matchID_[c]
            /\ \A j \in 1 .. i - 1 :
                  toClient[c][j].type = "TIME_SYNC_RES" => toClient[c][j].at < toClient[c][i].at
        BY <2>1, <2>7, <3>3, <4>1 DEF SyncInv
      <4> QED BY <2>5, <4>1, <4>2, <4>3
    <3>4. SyncAnswered(c) => SyncAnswered(c)'
      BY <2>5, <2>7 DEF SyncAnswered
    <3>5. SyncDone(c) => SyncDone(c)'
      BY <2>5, <3>1 DEF SyncDone
    <3>6. matchID_[c] # 0 /\ SyncAsked(c) => SyncAsked(c)'
      <4> SUFFICES ASSUME matchID_[c] # 0, SyncAsked(c) PROVE SyncAsked(c)'
        OBVIOUS
      <4>1. PICK k \in DOMAIN matches : k = matchID_[c]
        BY <2>10
      <4>2. ~ Acked(k, c)'
        BY <1>5, <4>1 DEF SyncAsked
      <4> QED BY <2>5, <4>1, <4>2 DEF SyncAsked
    <3> QED BY <2>1, <2>5, <3>2, <3>3, <3>4, <3>5, <3>6 DEF SyncInv
  <2> QED BY <2>13, <2>14, <2>16, <2>17, <2>18, <2>19 DEF OneMatchInv
<1> QED BY <1>7, <1>8

-----------------------------------------------------------------------------
(* What one client does is nothing to another.                             *)
LEMMA ClientElsewhere ==
  ASSUME TypeInv, NEW c \in Clients, NEW d \in Clients, d # c, OneMatchInv(d), Client(c)
  PROVE  OneMatchInv(d)'
<1>0. /\ d \in DOMAIN netState_ /\ d \in DOMAIN matchID_ /\ d \in DOMAIN sendTime
      /\ d \in DOMAIN serverTimeOffset /\ d \in DOMAIN asked
      /\ d \in DOMAIN toServer /\ d \in DOMAIN toClient
  BY DEF TypeInv
<1>1. CASE SendMatchRequest(c)
  <2>1. /\ toServer'[d] = toServer[d] /\ asked'[d] = asked[d]
        /\ UNCHANGED <<netState_, matchID_, sendTime, serverTimeOffset, toClient, waiting, matches>>
    BY <1>0, <1>1 DEF SendMatchRequest, Send, clientVars, serverVars
  <2> QED BY <2>1, OthersKeep
<1>2. CASE HandleMatchIntro(c)
  <2>1. /\ netState_'[d] = netState_[d] /\ matchID_'[d] = matchID_[d] /\ sendTime'[d] = sendTime[d]
        /\ toServer'[d] = toServer[d] /\ toClient'[d] = toClient[d]
        /\ UNCHANGED <<serverTimeOffset, asked, waiting, matches>>
    BY <1>0, <1>2 DEF Taken, HandleMatchIntro, Send, serverVars
  <2> QED BY <2>1, OthersKeep
<1>3. CASE HandleServerTimeSync(c)
  <2>1. /\ serverTimeOffset'[d] = serverTimeOffset[d] /\ toClient'[d] = toClient[d]
        /\ UNCHANGED <<netState_, matchID_, sendTime, asked, toServer, waiting, matches>>
    BY <1>0, <1>3 DEF Taken, HandleServerTimeSync, serverVars
  <2> QED BY <2>1, OthersKeep
<1>4. CASE HandleMatchStart(c)
  <2>1. /\ netState_'[d] = netState_[d] /\ asked'[d] = asked[d] /\ toClient'[d] = toClient[d]
        /\ UNCHANGED <<matchID_, sendTime, serverTimeOffset, toServer, waiting, matches>>
    BY <1>0, <1>4 DEF Taken, HandleMatchStart, serverVars
  <2> QED BY <2>1, OthersKeep
<1>5. CASE \E e \in Clients : HandleHello(c, e)
  <2>1. UNCHANGED <<clientVars, asked, toServer, toClient, waiting, matches>>
    BY <1>5 DEF HandleHello, serverVars
  <2> QED BY <2>1, OthersKeep DEF clientVars
<1>6. CASE \E e \in Clients : HandleWelcome(c, e)
  <2>1. /\ netState_'[d] = netState_[d] /\ toServer'[d] = toServer[d]
        /\ UNCHANGED <<matchID_, sendTime, serverTimeOffset, asked, toClient, waiting, matches>>
    BY <1>0, <1>6 DEF HandleWelcome, Send, serverVars
  <2> QED BY <2>1, OthersKeep
<1>7. CASE TryStartGame(c)
  <2>1. /\ netState_'[d] = netState_[d]
        /\ UNCHANGED <<matchID_, sendTime, serverTimeOffset, asked, toServer, toClient, waiting, matches>>
    BY <1>0, <1>7 DEF TryStartGame, serverVars
  <2> QED BY <2>1, OthersKeep
<1> QED BY <1>1, <1>2, <1>3, <1>4, <1>5, <1>6, <1>7 DEF Client, Receive, ReceiveTCP, ReceiveUDP

LEMMA ServerElsewhere ==
  ASSUME TypeInv, NEW c \in Clients, NEW d \in Clients, d # c, OneMatchInv(d), ServerReceive(c)
  PROVE  OneMatchInv(d)'
<1>1. toServer'[d] = toServer[d] /\ UNCHANGED <<clientVars, asked>>
  BY DEF ServerReceive, ReceiveMatchRequest, ReceiveTimeSync, ReceiveIntroSuccess, Received, TypeInv
<1>2. CASE ReceiveMatchRequest(c)
  <2>1. UNCHANGED <<toClient, matches>> /\ (d \in waiting' => d \in waiting)
    BY <1>2, AskEffect DEF ReceiveMatchRequest
  <2>2. \A n : /\ (Playing(n, d)' <=> Playing(n, d)) /\ (Acked(n, d)' <=> Acked(n, d))
               /\ Started(n) => Started(n)'
    BY <2>1 DEF Playing, Acked, Started, AllAcked
  <2> QED BY <1>1, <2>1, <2>2, Elsewhere DEF clientVars
<1>3. CASE ReceiveTimeSync(c)
  <2>1. toClient'[d] = toClient[d] /\ UNCHANGED <<waiting, matches>>
    BY <1>3 DEF ReceiveTimeSync, TypeInv, serverVars
  <2> QED BY <1>1, <2>1, OthersKeep DEF clientVars
<1>4. CASE ReceiveIntroSuccess(c)
  <2>1. UNCHANGED <<toClient, waiting>>
    BY <1>4, ReportEffect DEF ReceiveIntroSuccess
  <2> QED BY <1>1, <1>4, <2>1, ReportedMatches, Elsewhere DEF clientVars
<1> QED BY <1>2, <1>3, <1>4 DEF ServerReceive

(* That a client asked too early is not forgotten.                         *)
LEMMA MoreIsKept ==
  ASSUME TypeInv, [Next]_vars, NEW c \in Clients, asked'[c] # "more"
  PROVE  asked[c] # "more"
<1>1. CASE UNCHANGED asked
  BY <1>1
<1>2. ASSUME NEW d \in Clients, SendMatchRequest(d) PROVE asked[c] # "more"
  BY <1>2 DEF SendMatchRequest, TypeInv
<1>3. ASSUME NEW d \in Clients, HandleMatchStart(d) PROVE asked[c] # "more"
  BY <1>3 DEF HandleMatchStart, TypeInv
<1>4. ASSUME NEW d \in Clients, Client(d), ~ SendMatchRequest(d), ~ HandleMatchStart(d)
      PROVE  UNCHANGED asked
  BY <1>4 DEF Client, Receive, ReceiveTCP, ReceiveUDP, HandleMatchIntro, HandleServerTimeSync,
              HandleHello, HandleWelcome, TryStartGame
<1>5. ASSUME NEW d \in Clients, ServerReceive(d) PROVE UNCHANGED asked
  BY <1>5 DEF ServerReceive, ReceiveMatchRequest, ReceiveTimeSync, ReceiveIntroSuccess, Received
<1>6. ASSUME ForgetRequest \/ CreateMatch \/ \E m \in MatchIds : StartMatch(m) \/ GiveUpMatch(m)
      PROVE  UNCHANGED asked
  BY <1>6 DEF ForgetRequest, CreateMatch, StartMatch, GiveUpMatch
<1>7. UNCHANGED vars => UNCHANGED asked
  BY DEF vars
<1> QED BY <1>1, <1>2, <1>3, <1>4, <1>5, <1>6, <1>7 DEF Next

LEMMA OnlyMatchInit == Init => OnlyMatchInv
<1> SUFFICES ASSUME Init, NEW c \in Clients PROVE OneMatchInv(c)
  BY DEF OnlyMatchInv
<1>1. waiting = {} /\ DOMAIN matches = {}
  BY DEF Init
<1>2. /\ netState_[c] = "NSS_Uninitialized" /\ matchID_[c] = 0 /\ sendTime[c] = 0
      /\ toServer[c] = <<>> /\ toClient[c] = <<>>
  BY DEF Init
<1>3. c \notin waiting
  BY <1>1
<1>4. Len(toServer[c]) = 0 /\ Len(toClient[c]) = 0
  BY <1>2
<1>5. Settled(c) /\ ~ Asking(c)
  BY <1>1, <1>2, <1>3, <1>4 DEF Settled, Asking
<1>6. PlaceInv(c)
  BY <1>5 DEF PlaceInv, Asking
<1>7. RosterInv(c) /\ IntroInv(c) /\ ReportInv(c) /\ StartInv(c) /\ SyncInv(c)
  BY <1>1, <1>2, <1>4 DEF RosterInv, IntroInv, ReportInv, StartInv, SyncInv
<1> QED BY <1>6, <1>7 DEF OneMatchInv

LEMMA OnlyMatchStep == TypeInv /\ AddressInv /\ OnlyMatchInv /\ [Next]_vars => OnlyMatchInv'
<1> SUFFICES ASSUME TypeInv, AddressInv, OnlyMatchInv, [Next]_vars,
                    NEW c \in Clients, asked'[c] # "more"
             PROVE  OneMatchInv(c)'
  BY DEF OnlyMatchInv
<1>1. OneMatchInv(c)
  BY MoreIsKept DEF OnlyMatchInv
<1>2. ASSUME NEW d \in Clients, Client(d) PROVE OneMatchInv(c)'
  <2>1. CASE d # c
    BY <1>1, <1>2, <2>1, ClientElsewhere
  <2>2. CASE d = c
    <3>1. CASE SendMatchRequest(c)
      BY <1>1, <3>1, RequestStep
    <3>2. CASE HandleMatchIntro(c)
      BY <1>1, <3>2, IntroStep
    <3>3. CASE HandleServerTimeSync(c)
      BY <1>1, <3>3, TimeSyncStep
    <3>4. CASE HandleMatchStart(c)
      BY <1>1, <3>4, StartStep
    <3>5. CASE \E e \in Clients : HandleHello(c, e)
      <4>1. UNCHANGED <<clientVars, asked, toServer, toClient, waiting, matches>>
        BY <3>5 DEF HandleHello, serverVars
      <4> QED BY <1>1, <4>1, OthersKeep DEF clientVars
    <3>6. CASE \E e \in Clients : HandleWelcome(c, e)
      BY <1>1, <3>6, WelcomeStep
    <3>7. CASE TryStartGame(c)
      BY <1>1, <3>7, PlayStep
    <3> QED BY <1>2, <2>2, <3>1, <3>2, <3>3, <3>4, <3>5, <3>6, <3>7
            DEF Client, Receive, ReceiveTCP, ReceiveUDP
  <2> QED BY <2>1, <2>2
<1>3. ASSUME NEW d \in Clients, ServerReceive(d) PROVE OneMatchInv(c)'
  <2>1. CASE d # c
    BY <1>1, <1>3, <2>1, ServerElsewhere
  <2>2. CASE d = c
    BY <1>1, <1>3, <2>2, ReceiveRequestStep, ReceiveTimeSyncStep, ReceiveSuccessStep DEF ServerReceive
  <2> QED BY <2>1, <2>2
<1>4. CASE CreateMatch
  BY <1>1, <1>4, CreateStep
<1>5. ASSUME NEW m \in MatchIds, StartMatch(m) \/ GiveUpMatch(m) PROVE OneMatchInv(c)'
  BY <1>1, <1>5, StartMatchStep, GiveUpStep
<1>6. CASE ForgetRequest
  BY <1>1, <1>6, ForgetEffect, OthersKeep DEF ForgetRequest, clientVars
<1>7. CASE UNCHANGED vars
  BY <1>1, <1>7, OthersKeep DEF vars, clientVars, serverVars
<1> QED BY <1>2, <1>3, <1>4, <1>5, <1>6, <1>7 DEF Next

LEMMA OnlyMatch == Spec => [](TypeInv /\ AddressInv /\ OnlyMatchInv)
BY InitType, TypeStep, AddressStep, OnlyMatchInit, OnlyMatchStep, PTL DEF Spec

(* Whatever timeouts, retries by the server, late packets and earlier      *)
(* matches there were, a client that does not ask again too early is in    *)
(* the lobby of the match whenever its MATCH_START comes: the match is the *)
(* last that the server has of it, it has reported to it, and it has not   *)
(* been introduced to another.                                             *)
THEOREM StartFindsLobby == Spec => []StartsAreAwaited
<1>1. TypeInv /\ OnlyMatchInv => StartsAreAwaited
  <2> SUFFICES ASSUME TypeInv, OnlyMatchInv, NEW c \in Clients, asked[c] # "more",
                      toClient[c] # <<>>, Head(toClient[c]).type = "MATCH_START"
               PROVE  netState_[c] = "NSS_Lobby" /\ matchID_[c] = Head(toClient[c]).matchId
    BY DEF StartsAreAwaited
  <2>1. Head(toClient[c]) = toClient[c][1] /\ 1 \in 1 .. Len(toClient[c])
    BY TailAt DEF TypeInv
  <2> QED BY <2>1 DEF OnlyMatchInv, OneMatchInv, StartInv
<1> QED BY <1>1, OnlyMatch, PTL

(* TCP keeps order, so the answer to the TIME_SYNC_REQ of this match comes *)
(* before its MATCH_START, and the answer to an earlier one before that.   *)
THEOREM StartTimeIsFresh == Spec => []OffsetIsFresh
<1>1. OnlyMatchInv => OffsetIsFresh
  BY DEF OnlyMatchInv, OneMatchInv, SyncInv, SyncDone, OffsetIsFresh
<1> QED BY <1>1, OnlyMatch, PTL
=============================================================================
