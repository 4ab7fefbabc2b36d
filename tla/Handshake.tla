------------------------------ MODULE Handshake ------------------------------
(***************************************************************************)
(* How the clients of a match get from MATCH_INTRO to the game (engine,    *)
(* NetworkService and Engine::TryStartGame).  Each client greets its peers *)
(* with HELLO over UDP, which loses, repeats, delays and reorders; their   *)
(* WELCOMEs make it report to the match server over TCP, which keeps its   *)
(* order; the server starts the match when all have reported.              *)
(*                                                                         *)
(* The server does here whatever MatchService lets it do, which is what    *)
(* MatchManager is shown to implement.                                     *)
(*                                                                         *)
(* A client is also its UDP address.  Each handler runs in the main thread *)
(* of its client and is one step.  A clock reading is named by the match   *)
(* it is taken in.                                                         *)
(***************************************************************************)
EXTENDS Integers, Sequences, FiniteSets

CONSTANTS
    Clients,
    NoAddress,   \* 0.0.0.0:0
    MatchSize,   \* MAX_MATCH_PLAYER
    MaxRetry,    \* the 3 of ReQueing
    MaxMatches,  \* bound: matches created
    MaxRequests, \* bound: MATCH_REQUESTs of a client
    MaxInFlight  \* bound: TCP packets of a client before it handles a WELCOME

ASSUME NoAddressAssumption == NoAddress \notin Clients

ASSUME SizeAssumption ==
    /\ MatchSize \in Nat \ {0}
    /\ MaxRetry \in Nat
    /\ MaxMatches \in Nat
    /\ MaxRequests \in Nat
    /\ MaxInFlight \in Nat

VARIABLES
    netState_,        \* per client, the state of its NetworkService
    matchID_,         \* its match, 0 before the first
    playerID_,        \* its number in the match
    peerConnected,    \* player -> a WELCOME came from it
    conn,             \* player -> address
    addToId,          \* address -> player
    sendTime,         \* when the last TIME_SYNC_REQ was sent
    serverTimeOffset, \* the readings it is computed from: own and server's
    heard,            \* whose WELCOMEs were handled since MATCH_INTRO (history)
    requested,        \* number of MATCH_REQUESTs (bound)
    asked,            \* history: a match was asked for and has not begun; or more
                      \* than one, which is not forgotten
    datagrams,        \* UDP packets that were sent, each may come at any time
    toServer,         \* per client, TCP packets on their way to the server
    toClient,         \* per client, TCP packets from the server it has not handled
    inBuffer,         \* how many of them are in its recvBuffer as a whole
    waiting,          \* the clients that wait for a match at the server
    offers,           \* the server's bag of requests
    matches           \* the server's matches, by id; it forgets those that are over

clientVars == <<netState_, matchID_, playerID_, peerConnected, conn, addToId, sendTime,
                serverTimeOffset, heard>>
serverVars == <<waiting, offers, matches>>
vars == <<clientVars, requested, asked, datagrams, toServer, toClient, inBuffer, serverVars>>

PlayerIds == 0 .. MatchSize - 1
MatchIds  == 1 .. MaxMatches
Addresses == Clients \cup {NoAddress}

MatchRequest ==
    [sessionId : Clients, address : Addresses, enqueueTime : {0}, retryCount : 0 .. MaxRetry]

(* A match as the server has it; over, it was started or given up. *)
Match == [players : [PlayerIds -> MatchRequest], acked : SUBSET Clients, over : BOOLEAN]

live ==
    [m \in {k \in DOMAIN matches : ~matches[k].over} |->
        [players |-> matches[m].players, acked |-> matches[m].acked]]

Service == INSTANCE MatchService WITH
    Sessions <- Clients, Addresses <- Clients, Times <- {0}

UdpPacket == [type : {"HELLO", "WELCOME"}, from : Clients, to : Clients]

Intro(m, addresses, p) ==
    [type |-> "MATCH_INTRO", matchId |-> m, addresses |-> addresses, playerId |-> p]

Hello(c, d)   == [type |-> "HELLO", from |-> c, to |-> d]
Welcome(c, d) == [type |-> "WELCOME", from |-> c, to |-> d]

-----------------------------------------------------------------------------
Init ==
    /\ netState_ = [c \in Clients |-> "NSS_Uninitialized"]
    /\ matchID_ = [c \in Clients |-> 0]
    /\ playerID_ = [c \in Clients |-> 0]
    /\ peerConnected = [c \in Clients |-> <<>>]
    /\ conn = [c \in Clients |-> <<>>]
    /\ addToId = [c \in Clients |-> <<>>]
    /\ sendTime = [c \in Clients |-> 0]
    /\ serverTimeOffset = [c \in Clients |-> [own |-> 0, server |-> 0]]
    /\ heard = [c \in Clients |-> {}]
    /\ requested = [c \in Clients |-> 0]
    /\ asked = [c \in Clients |-> "none"]
    /\ datagrams = {}
    /\ toServer = [c \in Clients |-> <<>>]
    /\ toClient = [c \in Clients |-> <<>>]
    /\ inBuffer = [c \in Clients |-> 0]
    /\ waiting = {}
    /\ offers = Service!EmptyBag
    /\ matches = <<>>

Send(c, packet) == toServer' = [toServer EXCEPT ![c] = Append(@, packet)]

(* The player asks for a match. *)
SendMatchRequest(c) ==
    /\ requested[c] < MaxRequests
    /\ requested' = [requested EXCEPT ![c] = @ + 1]
    /\ asked' = [asked EXCEPT ![c] = IF @ = "none" THEN "one" ELSE "more"]
    /\ Send(c, [type |-> "MATCH_REQUEST"])
    /\ UNCHANGED <<clientVars, datagrams, toClient, inBuffer, serverVars>>

-----------------------------------------------------------------------------
(***************************************************************************)
(* TCP packets at the client.                                              *)
(***************************************************************************)

(* A receive brings more of what is on its way, in whole packets or not, and
   is followed by the cutting of one packet, if recvBuffer has one: others
   that are whole stay in it until the next receive. *)
Taken(c, type) ==
    /\ inBuffer[c] < Len(toClient[c])
    /\ Head(toClient[c]).type = type
    /\ toClient' = [toClient EXCEPT ![c] = Tail(@)]
    /\ \E k \in 0 .. Len(toClient[c]) - 1 :
          /\ k >= inBuffer[c] - 1
          /\ inBuffer' = [inBuffer EXCEPT ![c] = k]

(* peerConnected.resize: what is there stays. *)
Resized(peers) ==
    [p \in PlayerIds |-> IF p \in DOMAIN peers THEN peers[p] ELSE FALSE]

(* conn.try_emplace: what is there stays. *)
WithPlayers(c, addresses) ==
    [p \in PlayerIds |-> IF p \in DOMAIN conn[c] THEN conn[c][p] ELSE addresses[p]]

IdOf(addresses, a) ==
    CHOOSE p \in PlayerIds :
        addresses[p] = a /\ \A q \in PlayerIds : addresses[q] = a => p <= q

AddressesOf(addresses) == {addresses[p] : p \in PlayerIds}

ForgetAddresses(c, addresses) ==
    [a \in AddressesOf(addresses) |-> IdOf(addresses, a)]

(* addToId.try_emplace: what is there stays. *)
WithAddresses(c, addresses) ==
    [a \in DOMAIN addToId[c] \cup AddressesOf(addresses) |->
        IF a \in DOMAIN addToId[c] THEN addToId[c][a] ELSE IdOf(addresses, a)]

UpwardPeers(c, players, self) == {players[p] : p \in {q \in PlayerIds : q > self}} \cap Clients

(* BroadcastToPeers sends to everyone in conn but the player itself; nothing
   is sent to no address. *)
Peers(c, players, self) == {players[p] : p \in PlayerIds \ {self}} \cap Clients

FirstReading(c, m) == IF sendTime[c] = 0 THEN m ELSE sendTime[c]

OwnReading(c, m) == m

HandleMatchIntro(c) ==
    /\ Taken(c, "MATCH_INTRO")
    /\ LET intro == Head(toClient[c])
           m     == intro.matchId
           self  == intro.playerId
       IN  /\ netState_' = [netState_ EXCEPT ![c] = "NSS_Hello"]
           /\ matchID_' = [matchID_ EXCEPT ![c] = m]
           /\ playerID_' = [playerID_ EXCEPT ![c] = self]
           /\ peerConnected' =
                [peerConnected EXCEPT ![c] = [Resized(@) EXCEPT ![self] = TRUE]]
           /\ conn' = [conn EXCEPT ![c] = WithPlayers(c, intro.addresses)]
           /\ addToId' = [addToId EXCEPT ![c] = WithAddresses(c, intro.addresses)]
           /\ datagrams' = datagrams \cup {Hello(c, d) : d \in Peers(c, conn'[c], self)}
           /\ sendTime' = [sendTime EXCEPT ![c] = OwnReading(c, m)]
           /\ Send(c, [type |-> "TIME_SYNC_REQ", at |-> m])
    /\ heard' = [heard EXCEPT ![c] = {}]
    /\ UNCHANGED <<serverTimeOffset, requested, asked, serverVars>>

HandleServerTimeSync(c) ==
    /\ Taken(c, "TIME_SYNC_RES")
    /\ serverTimeOffset' = [serverTimeOffset EXCEPT ![c] =
           [own |-> sendTime[c], server |-> Head(toClient[c]).at]]
    /\ UNCHANGED <<netState_, matchID_, playerID_, peerConnected, conn, addToId, sendTime, heard,
                   requested, asked, datagrams, toServer, serverVars>>

(* In any other state the packet is ignored. *)
HandleMatchStart(c) ==
    /\ Taken(c, "MATCH_START")
    /\ IF netState_[c] = "NSS_Lobby"
       THEN /\ netState_' = [netState_ EXCEPT ![c] = "NSS_Starting"]
            /\ asked' = [asked EXCEPT ![c] = IF @ = "one" THEN "none" ELSE @]
       ELSE UNCHANGED <<netState_, asked>>
    /\ UNCHANGED <<matchID_, playerID_, peerConnected, conn, addToId, sendTime, serverTimeOffset,
                   heard, requested, datagrams, toServer, serverVars>>

(* TryStartGame, when the start time has come. *)
TryStartGame(c) ==
    /\ netState_[c] = "NSS_Starting"
    /\ netState_' = [netState_ EXCEPT ![c] = "NSS_Playing"]
    /\ UNCHANGED <<matchID_, playerID_, peerConnected, conn, addToId, sendTime, serverTimeOffset,
                   heard, requested, asked, datagrams, toServer, toClient, inBuffer, serverVars>>

-----------------------------------------------------------------------------
(***************************************************************************)
(* UDP packets at the client.                                              *)
(***************************************************************************)
HandleHello(c, d) ==
    /\ Hello(d, c) \in datagrams
    /\ datagrams' = datagrams \cup {Welcome(c, d)}
    /\ UNCHANGED <<clientVars, requested, asked, toServer, toClient, inBuffer, serverVars>>

AnyConnected(peers) == Cardinality({p \in DOMAIN peers : peers[p]}) >= 2

AllConnected(peers) == \A p \in DOMAIN peers : peers[p]

HandleWelcome(c, d) ==
    /\ Welcome(d, c) \in datagrams
    /\ d \in DOMAIN addToId[c]
    /\ Len(toServer[c]) < MaxInFlight
    /\ peerConnected' = [peerConnected EXCEPT ![c][addToId[c][d]] = TRUE]
    /\ heard' = [heard EXCEPT ![c] = @ \cup {d}]
    /\ IF AllConnected(peerConnected'[c])
       THEN /\ Send(c, [type |-> "MATCH_INTRO_SUCCESS", matchId |-> matchID_[c]])
            /\ netState_' = [netState_ EXCEPT ![c] = "NSS_Lobby"]
       ELSE UNCHANGED <<toServer, netState_>>
    /\ UNCHANGED <<matchID_, playerID_, conn, addToId, sendTime, serverTimeOffset, requested,
                   asked, datagrams, toClient, inBuffer, serverVars>>

-----------------------------------------------------------------------------
(***************************************************************************)
(* The match server: MatchService, and the packets it gets and sends.      *)
(***************************************************************************)
Playing(m, c) == \E p \in PlayerIds : matches[m].players[p].sessionId = c

Received(c, type) ==
    /\ toServer[c] # <<>>
    /\ Head(toServer[c]).type = type
    /\ toServer' = [toServer EXCEPT ![c] = Tail(@)]
    /\ UNCHANGED <<clientVars, requested, asked, inBuffer, datagrams>>

ReceiveMatchRequest(c) ==
    /\ Received(c, "MATCH_REQUEST")
    /\ UNCHANGED <<toClient, matches>>
    /\ Service!Ask(c, c)

ReceiveTimeSync(c) ==
    /\ Received(c, "TIME_SYNC_REQ")
    /\ toClient' = [toClient EXCEPT ![c] =
           Append(@, [type |-> "TIME_SYNC_RES", at |-> Head(toServer[c]).at])]
    /\ UNCHANGED serverVars

(* A late report, of a match that is over, is ignored. *)
ReceiveIntroSuccess(c) ==
    /\ Received(c, "MATCH_INTRO_SUCCESS")
    /\ UNCHANGED toClient
    /\ LET m == Head(toServer[c]).matchId
       IN  \/ /\ matches' = [matches EXCEPT ![m].acked = @ \cup {c}]
              /\ Service!Report(m, c)
           \/ /\ ~ Service!Counts(m, c)
              /\ UNCHANGED serverVars

ForgetRequest ==
    /\ UNCHANGED <<clientVars, requested, asked, inBuffer, datagrams, toServer, toClient, matches>>
    /\ \E r \in DOMAIN offers : Service!Forget(r)

(* Each of the players of a new match gets an intro. *)
CreateMatch ==
    /\ Len(matches) < MaxMatches
    /\ \E roster \in [PlayerIds -> DOMAIN offers] :
          /\ matches' = Append(matches, [players |-> roster, acked |-> {}, over |-> FALSE])
          /\ Service!Draw(Len(matches) + 1, roster)
          /\ toClient' = [c \in Clients |->
                 IF \E p \in PlayerIds : roster[p].sessionId = c
                 THEN LET p == CHOOSE q \in PlayerIds : roster[q].sessionId = c
                      IN  Append(toClient[c], Intro(Len(matches) + 1,
                                                    [q \in PlayerIds |-> roster[q].address], p))
                 ELSE toClient[c]]
    /\ UNCHANGED <<clientVars, requested, asked, inBuffer, datagrams, toServer>>

StartedButFirst(m) == {matches[m].players[p].sessionId : p \in PlayerIds \ {0}}

(* ProcessMatchResult, ReadyToStart: who gets a MATCH_START. *)
StartedOf(m) == {matches[m].players[p].sessionId : p \in PlayerIds}

StartMatch(m) ==
    /\ m \in DOMAIN live
    /\ matches' = [matches EXCEPT ![m].over = TRUE]
    /\ Service!Start(m)
    /\ toClient' = [c \in Clients |-> IF c \in StartedOf(m)
                                      THEN Append(toClient[c], [type |-> "MATCH_START", matchId |-> m])
                                      ELSE toClient[c]]
    /\ UNCHANGED <<clientVars, requested, asked, inBuffer, datagrams, toServer>>

GiveUpMatch(m) ==
    /\ m \in DOMAIN live
    /\ matches' = [matches EXCEPT ![m].over = TRUE]
    /\ Service!GiveUp(m, 0)
    /\ UNCHANGED <<clientVars, requested, asked, inBuffer, datagrams, toServer, toClient>>

-----------------------------------------------------------------------------
ReceiveTCP(c) == HandleMatchIntro(c) \/ HandleServerTimeSync(c) \/ HandleMatchStart(c)

ReceiveUDP(c) == \E d \in Clients : HandleHello(c, d) \/ HandleWelcome(c, d)

Receive(c) == ReceiveTCP(c) \/ ReceiveUDP(c)

Client(c) == SendMatchRequest(c) \/ Receive(c) \/ TryStartGame(c)

ServerReceive(c) == ReceiveMatchRequest(c) \/ ReceiveTimeSync(c) \/ ReceiveIntroSuccess(c)

Next ==
    \/ \E c \in Clients : Client(c) \/ ServerReceive(c)
    \/ ForgetRequest \/ CreateMatch
    \/ \E m \in MatchIds : StartMatch(m) \/ GiveUpMatch(m)

Spec == Init /\ [][Next]_vars

(* What is on its way to a client is received, each receive cuts one packet
   and the main loop, which never waits, handles it.  The server starts a
   match or gives it up (MatchManager!MatchesResolve).  No fairness of UDP,
   nor of what comes to the server. *)
FairSpec ==
    /\ Spec
    /\ \A c \in Clients : WF_vars(ReceiveTCP(c))
    /\ \A m \in MatchIds : WF_vars(StartMatch(m) \/ GiveUpMatch(m))

-----------------------------------------------------------------------------
(* Every variable has its type. *)
TypeOK ==
    /\ netState_ \in [Clients -> {"NSS_Uninitialized", "NSS_Hello", "NSS_Lobby", "NSS_Starting",
                                  "NSS_Playing"}]
    /\ matchID_ \in [Clients -> 0 .. MaxMatches]
    /\ playerID_ \in [Clients -> PlayerIds]
    /\ \A c \in Clients :
          /\ peerConnected[c] \in [PlayerIds -> BOOLEAN] \cup {<<>>}
          /\ conn[c] \in [PlayerIds -> Addresses] \cup {<<>>}
          /\ DOMAIN addToId[c] \subseteq Addresses
          /\ \A a \in DOMAIN addToId[c] : addToId[c][a] \in PlayerIds
    /\ sendTime \in [Clients -> 0 .. MaxMatches]
    /\ serverTimeOffset \in [Clients -> [own : 0 .. MaxMatches, server : 0 .. MaxMatches]]
    /\ heard \in [Clients -> SUBSET Clients]
    /\ requested \in [Clients -> 0 .. MaxRequests]
    /\ asked \in [Clients -> {"none", "one", "more"}]
    /\ datagrams \in SUBSET UdpPacket
    /\ DOMAIN toServer = Clients
    /\ DOMAIN toClient = Clients
    /\ inBuffer \in [Clients -> Nat]
    /\ \A c \in Clients : inBuffer[c] <= Len(toClient[c])
    /\ waiting \subseteq Clients
    /\ DOMAIN offers \subseteq MatchRequest
    /\ matches \in Seq(Match) /\ Len(matches) <= MaxMatches

(* GetPeerPlayerID does not throw and peerConnected[id] is within the vector:
   a WELCOME only comes from an address that some MATCH_INTRO named, however
   late it is and whatever match the client is in by now. *)
WelcomesAreExpected ==
    \A w \in datagrams :
        w.type = "WELCOME" =>
            /\ w.from \in DOMAIN addToId[w.to]
            /\ addToId[w.to][w.from] \in DOMAIN peerConnected[w.to]

(* A client that does not ask again before the match it asked for begins
   never loses a MATCH_START: it finds the client in the lobby, and in that
   of the match that starts.  (A client that asks again may be introduced to
   another match while it is in this one, and is then not in its lobby.) *)
StartsAreAwaited ==
    \A c \in Clients :
        asked[c] # "more" /\ toClient[c] # <<>> /\ Head(toClient[c]).type = "MATCH_START" =>
            netState_[c] = "NSS_Lobby" /\ matchID_[c] = Head(toClient[c]).matchId

(* Such a client converts the start time with an offset that both clocks were
   read for in this match: no answer to an earlier TIME_SYNC_REQ is mixed in.
   (Otherwise the start of the first match may come in the lobby of the second,
   which late WELCOMEs open, when the offset is still that of the first.) *)
OffsetIsFresh ==
    \A c \in Clients :
        asked[c] # "more" /\ netState_[c] \in {"NSS_Starting", "NSS_Playing"} =>
            serverTimeOffset[c] = [own |-> matchID_[c], server |-> matchID_[c]]

(* NetworkService.h:28, "All peers connected, waiting for match start": each
   of them has answered since the match was introduced. *)
LobbyMeansConnected ==
    \A c \in Clients :
        netState_[c] = "NSS_Lobby" =>
            \A p \in PlayerIds \ {playerID_[c]} : matches[matchID_[c]].players[p].sessionId \in heard[c]

(* NetworkService.h:27, "Received MATCH_INTRO, attempting peer connections":
   there is a peer left that is not connected. *)
HelloMeansPeersMissing ==
    \A c \in Clients : netState_[c] = "NSS_Hello" => ~AllConnected(peerConnected[c])

(* NetworkService.h:30, "Match in progress": that does not turn back into
   "waiting for match start" while the client stays in the match. *)
PlayingIsKept ==
    [][\A c \in Clients :
          netState_[c] = "NSS_Playing" /\ matchID_'[c] = matchID_[c] => netState_'[c] # "NSS_Lobby"]_vars

AllAcked(m) == \A p \in PlayerIds : matches[m].players[p].sessionId \in matches[m].acked

GivenUp(m) == m \in DOMAIN matches /\ matches[m].over /\ ~AllAcked(m)

(* It was cut off with an earlier packet, which came together with it. *)
LeftInBuffer(c, m) ==
    \E k \in 1 .. inBuffer[c] :
        toClient[c][k].type = "MATCH_START" /\ toClient[c][k].matchId = m

GetsToStart(c) ==
    \A m \in MatchIds :
        (m \in DOMAIN matches /\ ~matches[m].over /\ Playing(m, c)) ~>
            \/ GivenUp(m)
            \/ netState_[c] = "NSS_Starting" /\ matchID_[c] = m
            \/ asked[c] = "more"
            \/ LeftInBuffer(c, m)

(* Every player of a match gets to its start, unless the match is given up,
   or the player asks for another one meanwhile, or the MATCH_START came
   together with the packet before it, in one receive, and stays behind.
   (A player need not stay in the start: PlayingIsKept.) *)
EveryoneStarts == \A c \in Clients : GetsToStart(c)
=============================================================================
