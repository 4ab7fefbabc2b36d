---------------------------- MODULE MatchManager ----------------------------
(***************************************************************************)
(* The match maker of the match server: MatchManager and the Match objects *)
(* it owns (src/matchserver).  One main loop calls                         *)
(*                                                                         *)
(*     networkService_.Update(); matchMgr_.Update(fixedDt);                *)
(*                                                                         *)
(* sixty times a second.  The variable phase says how far that iteration   *)
(* has come.  In phase "Network" packets of the clients become commands    *)
(* in MatchRequestQueue, and the packets queued for the clients leave.     *)
(* The other phases are MatchManager::Update: the commands are handled     *)
(* ("Requests"), at most one match is drawn up from the waiting requests   *)
(* ("Fill"), and every match is advanced by one tick ("Results").          *)
(*                                                                         *)
(* Abstracted: the name and the requestId of a request (carried along,     *)
(* never looked at), the encoding of packets (NetBitWriter), and the float *)
(* timer, which counts ticks.                                              *)
(***************************************************************************)
EXTENDS Integers, Sequences, FiniteSets, FiniteSetsExt, Functions, Bags, TLC

CONSTANTS
    Sessions,         \* the SessionIds of connected clients
    NoSession,        \* what an unfilled MatchRequest holds as a session
    Addresses,        \* the UDP addresses clients announce
    NoAddress,        \* the default-constructed SocketAddress 0.0.0.0:0
    MaxMatchPlayer,   \* MatchConstants::MAX_MATCH_PLAYER
    TimeoutTicks,     \* CONNECT_TIMEOUT_SEC in ticks of the main loop
    MaxRetry,         \* the 3 of ReQueing
    MatchIdMod,       \* number of MatchIds, 2^16 in the code
    RequestQueueCap,  \* capacity of MatchRequestQueue
    SendQueueCap,     \* capacity of NetSendRequestQueue
    Horizon,          \* bound: instants past this tick are not told apart
    MaxPending        \* bound: requests queued and commands sent at one time

ASSUME SessionAssumption ==
    /\ IsFiniteSet(Sessions)
    /\ NoSession \notin Sessions
    /\ NoAddress \notin Addresses

ASSUME SizeAssumption ==
    /\ MaxMatchPlayer \in Nat \ {0}
    /\ TimeoutTicks \in Nat \ {0}
    /\ MaxRetry \in Nat
    /\ RequestQueueCap \in Nat \ {0}
    /\ SendQueueCap \in Nat \ {0}
    /\ Horizon \in Nat
    /\ MaxPending \in Nat

(***************************************************************************)
(* A match lives through its first two ticks whatever the timeout is, and  *)
(* at most TimeoutTicks - 1 ticks after which it is still there: the ids   *)
(* must not wrap around within that life.                                  *)
(***************************************************************************)
ASSUME MatchIdAssumption ==
    MatchIdMod \in Nat /\ MatchIdMod > 2 /\ MatchIdMod >= TimeoutTicks

VARIABLES
    phase,              \* where the main loop is
    MatchRequestQueue,  \* commands from the network to the match maker
    NetSendRequestQueue,\* packets from the match maker to the network
    requests,           \* session -> its waiting request
    pq,                 \* priority_queue<MatchRequest>: a bag
    nextMatchID,
    matches,            \* match id -> Match
    ctx,                \* the MatchContext being filled
    todo,               \* matches this tick has not advanced yet
    now,                \* steady_clock, in ticks
    introduced,         \* <<s, m>>: the MATCH_INTRO of live match m reached s
    reported,           \* history: <<s, m>>: s sent MATCH_INTRO_SUCCESS for live m
    seeking             \* history: sessions the server owes a match

vars == <<phase, MatchRequestQueue, NetSendRequestQueue, requests, pq, nextMatchID,
          matches, ctx, todo, now, introduced, reported, seeking>>

-----------------------------------------------------------------------------
Slots    == 0 .. MaxMatchPlayer - 1
MatchIds == 0 .. MatchIdMod - 1

(***************************************************************************)
(* MatchTypes.h.  Uninit is a MatchRequest nobody assigned.                *)
(***************************************************************************)
MatchRequest ==
    [sessionId : Sessions, address : Addresses \cup {NoAddress},
     enqueueTime : 0 .. Horizon, retryCount : 0 .. MaxRetry]

Uninit == [sessionId |-> NoSession, address |-> NoAddress,
           enqueueTime |-> 0, retryCount |-> 0]

MatchRequestCommand ==
    [action : {"Enqueue"}, sessionId : Sessions, address : Addresses]
        \cup [action : {"Cancel"}, sessionId : Sessions]
        \cup [action : {"Success"}, sessionId : Sessions, matchId : MatchIds]

NoConnection == [sessionId |-> NoSession, addr |-> NoAddress]
NetConnections ==
    [Slots -> [sessionId : Sessions \cup {NoSession}, addr : Addresses \cup {NoAddress}]]

Players == [Slots -> MatchRequest \cup {Uninit}]

MatchState == {"Init", "InfoSent", "WaitPeerReady"}

Match ==
    [state : MatchState, players : Players, conn : NetConnections,
     peerAck : [Slots -> BOOLEAN], timer : Nat]

MatchContext == [matchId : MatchIds, slot : Nat, players : Players]

SendRequestCommand ==
    [type : {"MATCH_INTRO"}, sessionId : Sessions,
     matchId : MatchIds, conn : NetConnections]
        \cup [type : {"MATCH_START"}, sessionId : Sessions]

(***************************************************************************)
(* The constructor of Match, and the context between two uses.             *)
(***************************************************************************)
NewMatch(players) ==
    [state |-> "Init", players |-> players,
     conn |-> [i \in Slots |-> NoConnection],
     peerAck |-> [i \in Slots |-> FALSE], timer |-> 0]

NoContext == [matchId |-> 0, slot |-> 0, players |-> [i \in Slots |-> Uninit]]

(***************************************************************************)
(* SPSCQueue::Emplace, called once per element of msgs with its result     *)
(* ignored: what does not fit is dropped.                                  *)
(***************************************************************************)
EmplaceAll(q, msgs, cap) ==
    q \o SubSeq(msgs, 1, Min({Len(msgs), cap - Len(q)}))

(***************************************************************************)
(* unordered_map::try_emplace of every entry: keys already there stay.     *)
(***************************************************************************)
TryEmplace(map, entries) ==
    [k \in DOMAIN map \cup DOMAIN entries |->
        IF k \in DOMAIN map THEN map[k] ELSE entries[k]]

SessionsOf(players) == {players[i].sessionId : i \in Slots}

(***************************************************************************)
(* Compare, the order of the priority queue, and what top() may return:    *)
(* among requests that compare equal the heap picks any.                   *)
(***************************************************************************)
CompareNewest(a, b) ==
    IF a.retryCount # b.retryCount THEN a.retryCount < b.retryCount
                                   ELSE a.enqueueTime < b.enqueueTime

Compare(a, b) ==
    IF a.retryCount # b.retryCount THEN a.retryCount < b.retryCount
                                   ELSE a.enqueueTime > b.enqueueTime

IsTop(e) == e \in DOMAIN pq /\ \A f \in DOMAIN pq : ~Compare(e, f)

(***************************************************************************)
(* Match::GetPlayerId: the first slot whose connection is the client's.    *)
(***************************************************************************)
GetPlayerId(match, client) ==
    LET hits == {i \in Slots : match.conn[i].sessionId = client}
    IN  IF hits = {} THEN -1 ELSE Min(hits)

-----------------------------------------------------------------------------
Init ==
    /\ phase = "Network"
    /\ MatchRequestQueue = <<>>
    /\ NetSendRequestQueue = <<>>
    /\ requests = [s \in {} |-> Uninit]
    /\ pq = EmptyBag
    /\ nextMatchID = 1
    /\ matches = [m \in {} |-> NewMatch(NoContext.players)]
    /\ ctx = NoContext
    /\ todo = {}
    /\ now = 0
    /\ introduced = {}
    /\ reported = {}
    /\ seeking = {}

-----------------------------------------------------------------------------
(***************************************************************************)
(* NetworkService::Update, as far as the match maker sees it.              *)
(***************************************************************************)
Submit(cmd) ==
    /\ phase = "Network"
    /\ MatchRequestQueue' = EmplaceAll(MatchRequestQueue, <<cmd>>, RequestQueueCap)
    /\ UNCHANGED <<phase, NetSendRequestQueue, requests, pq, nextMatchID, matches,
                   ctx, todo, now, introduced, seeking>>

(* HandlePacketRequest, MATCH_REQUEST. *)
MatchRequestPacket(s, a) ==
    /\ BagCardinality(pq) + Len(MatchRequestQueue) < MaxPending
    /\ Submit([action |-> "Enqueue", sessionId |-> s, address |-> a])
    /\ UNCHANGED reported

(* HandlePacketRequest, MATCH_CANCEL and MATCH_INTRO_FAILED alike. *)
MatchCancelPacket(s) ==
    /\ Submit([action |-> "Cancel", sessionId |-> s])
    /\ UNCHANGED reported

(* HandlePacketRequest, MATCH_INTRO_SUCCESS: a client answers the MATCH_INTRO
   of a live match, or, late, that of a match that is gone.  The ids of
   matches that are gone are alike to the handler; the one that is given out
   next stands for them. *)
IntroSuccessPacket(s, m) ==
    /\ <<s, m>> \in introduced \/ (m = nextMatchID /\ m \notin DOMAIN matches)
    /\ Submit([action |-> "Success", sessionId |-> s, matchId |-> m])
    /\ reported' = IF m \in DOMAIN matches /\ Len(MatchRequestQueue) < RequestQueueCap
                   THEN reported \cup {<<s, m>>} ELSE reported

(* ProcessNetSendRequest; the main loop then turns to the match maker. *)
ProcessNetSendRequest ==
    /\ phase = "Network"
    /\ phase' = "Requests"
    /\ NetSendRequestQueue' = <<>>
    /\ introduced' = introduced \cup
         {<<NetSendRequestQueue[k].sessionId, NetSendRequestQueue[k].matchId>> :
            k \in {j \in 1 .. Len(NetSendRequestQueue) : NetSendRequestQueue[j].type = "MATCH_INTRO"}}
    /\ UNCHANGED <<MatchRequestQueue, requests, pq, nextMatchID, matches, ctx, todo,
                   now, reported, seeking>>

-----------------------------------------------------------------------------
(***************************************************************************)
(* MatchManager::ProcessMatchRequest, one command per step.                *)
(***************************************************************************)
Handling(action) ==
    /\ phase = "Requests"
    /\ MatchRequestQueue # <<>>
    /\ Head(MatchRequestQueue).action = action
    /\ MatchRequestQueue' = Tail(MatchRequestQueue)
    /\ UNCHANGED <<phase, NetSendRequestQueue, nextMatchID, ctx, todo, now,
                   introduced, reported>>

FreshRequest(cmd) ==
    [sessionId |-> cmd.sessionId, address |-> cmd.address,
     enqueueTime |-> 0, retryCount |-> 0]

EraseRequestForgotten(s) == requests

EraseRequest(s) == Restrict(requests, DOMAIN requests \ {s})

(* try_emplace keeps a request the session already has; the heap gets the
   new one in any case. *)
HandleEnqueue ==
    /\ Handling("Enqueue")
    /\ LET r == FreshRequest(Head(MatchRequestQueue))
       IN  /\ requests' = TryEmplace(requests, [s \in {r.sessionId} |-> r])
           /\ pq' = pq (+) SetToBag({r})
           /\ seeking' = seeking \cup {r.sessionId}
    /\ UNCHANGED matches

HandleCancel ==
    /\ Handling("Cancel")
    /\ LET client == Head(MatchRequestQueue).sessionId
       IN  /\ requests' = EraseRequest(client)
           /\ seeking' = seeking \ {client}
    /\ UNCHANGED <<pq, matches>>

HandleIntroResult ==
    /\ Handling("Success")
    /\ LET cmd == Head(MatchRequestQueue)
           m   == cmd.matchId
           idx == IF m \in DOMAIN matches THEN GetPlayerId(matches[m], cmd.sessionId)
                                          ELSE -1
       IN  matches' = IF idx < 0 THEN matches
                      ELSE [matches EXCEPT ![m].peerAck[idx] = TRUE]
    /\ UNCHANGED <<requests, pq, seeking>>

-----------------------------------------------------------------------------
(***************************************************************************)
(* CheckPopulation and CreateMatchContext: the loop over the slots pops    *)
(* the heap until a request of a waiting session turns up.                 *)
(***************************************************************************)
CheckPopulationOfHeap == Cardinality(BagToSet(pq)) >= MaxMatchPlayer

CheckPopulation == Cardinality(DOMAIN requests) >= MaxMatchPlayer

RequestsHandled == phase = "Requests" /\ MatchRequestQueue = <<>>

SkipCreation ==
    /\ RequestsHandled
    /\ ~CheckPopulation
    /\ phase' = "Results"
    /\ todo' = DOMAIN matches
    /\ UNCHANGED <<MatchRequestQueue, NetSendRequestQueue, requests, pq, nextMatchID,
                   matches, ctx, now, introduced, reported, seeking>>

NextIdNarrow(m) == IF m >= MatchIdMod - 2 THEN 0 ELSE m + 1

NextId(m) == IF m = MatchIdMod - 1 THEN 0 ELSE m + 1

CreateMatchContext ==
    /\ RequestsHandled
    /\ CheckPopulation
    /\ phase' = "Fill"
    /\ ctx' = [NoContext EXCEPT !.matchId = nextMatchID]
    /\ nextMatchID' = NextId(nextMatchID)
    /\ UNCHANGED <<MatchRequestQueue, NetSendRequestQueue, requests, pq, matches, todo,
                   now, introduced, reported, seeking>>

Popping(e) ==
    /\ phase = "Fill"
    /\ ctx.slot < MaxMatchPlayer
    /\ IsTop(e)
    /\ pq' = pq (-) SetToBag({e})
    /\ UNCHANGED <<phase, MatchRequestQueue, NetSendRequestQueue, nextMatchID, matches,
                   todo, now, introduced, reported, seeking>>

(* GetMatchRequestFromPQ, "lazy deletion" *)
PopDeleted(e) ==
    /\ Popping(e)
    /\ e.sessionId \notin DOMAIN requests
    /\ UNCHANGED <<requests, ctx>>

PopPlayer(e) ==
    /\ Popping(e)
    /\ e.sessionId \in DOMAIN requests
    /\ ctx' = [ctx EXCEPT !.players[ctx.slot] = e, !.slot = @ + 1]
    /\ requests' = EraseRequest(e.sessionId)

(* matches.try_emplace(ctx.matchId, ctx): a match with that id stays.  The
   slots the heap could not fill keep what they held. *)
AddMatch ==
    /\ phase = "Fill"
    /\ ~(ctx.slot < MaxMatchPlayer /\ pq # EmptyBag)
    /\ phase' = "Results"
    /\ matches' = TryEmplace(matches, [m \in {ctx.matchId} |-> NewMatch(ctx.players)])
    /\ todo' = DOMAIN matches \cup {ctx.matchId}
    /\ ctx' = NoContext
    /\ UNCHANGED <<MatchRequestQueue, NetSendRequestQueue, requests, pq, nextMatchID,
                   now, introduced, reported, seeking>>

-----------------------------------------------------------------------------
(***************************************************************************)
(* MatchManager::ProcessMatchResult: Match::Update of every match, in the  *)
(* arbitrary order of an unordered_map.                                    *)
(***************************************************************************)
Updating(m) ==
    /\ phase = "Results"
    /\ m \in todo
    /\ todo' = todo \ {m}
    /\ UNCHANGED <<phase, MatchRequestQueue, nextMatchID, ctx, now>>

AdvanceUntimed(m, state) == [matches EXCEPT ![m].state = state]

Advance(m, state) ==
    [matches EXCEPT ![m] =
        [matches[m] EXCEPT !.state = state, !.timer = matches[m].timer + 1]]

CollectNetConnection(players) ==
    [i \in Slots |-> [sessionId |-> players[i].sessionId, addr |-> players[i].address]]

MatchInit(m) ==
    /\ Updating(m)
    /\ matches[m].state = "Init"
    /\ matches' = [Advance(m, "InfoSent") EXCEPT
                     ![m].conn = CollectNetConnection(matches[m].players)]
    /\ UNCHANGED <<NetSendRequestQueue, requests, pq, introduced, reported, seeking>>

(* Match::RequestToSendNetConnection *)
IntroPackets(m) ==
    [k \in 1 .. MaxMatchPlayer |->
        [type |-> "MATCH_INTRO", sessionId |-> matches[m].players[k - 1].sessionId,
         matchId |-> m, conn |-> matches[m].conn]]

MatchSendInfo(m) ==
    /\ Updating(m)
    /\ matches[m].state = "InfoSent"
    /\ matches' = Advance(m, "WaitPeerReady")
    /\ NetSendRequestQueue' = EmplaceAll(NetSendRequestQueue, IntroPackets(m), SendQueueCap)
    /\ UNCHANGED <<requests, pq, introduced, reported, seeking>>

AnyAcked(m) == \E i \in Slots : matches[m].peerAck[i]

AllAcked(m) == \A i \in Slots : matches[m].peerAck[i]

TimedOut(m) == matches[m].timer + 1 >= TimeoutTicks

MatchWait(m) ==
    /\ Updating(m)
    /\ matches[m].state = "WaitPeerReady"
    /\ ~AllAcked(m)
    /\ ~TimedOut(m)
    /\ matches' = Advance(m, "WaitPeerReady")
    /\ UNCHANGED <<NetSendRequestQueue, requests, pq, introduced, reported, seeking>>

(* matches.erase(it); what clients know of the match no longer counts. *)
Erase(m) ==
    /\ matches' = Restrict(matches, DOMAIN matches \ {m})
    /\ introduced' = {p \in introduced : p[2] # m}
    /\ reported' = {p \in reported : p[2] # m}

StartPacketsTwice(m) ==
    [k \in 1 .. 2 * MaxMatchPlayer |->
        [type |-> "MATCH_START", sessionId |-> matches[m].players[(k - 1) \div 2].sessionId]]

StartPackets(m) ==
    [k \in 1 .. MaxMatchPlayer |->
        [type |-> "MATCH_START", sessionId |-> matches[m].players[k - 1].sessionId]]

(* ReadyToStart: the acknowledgements are looked at before the timeout.  A
   session is served when its MATCH_START found room in the queue. *)
MatchReady(m) ==
    /\ Updating(m)
    /\ matches[m].state = "WaitPeerReady"
    /\ AllAcked(m)
    /\ NetSendRequestQueue' = EmplaceAll(NetSendRequestQueue, StartPackets(m), SendQueueCap)
    /\ Erase(m)
    /\ seeking' = seeking \
         {NetSendRequestQueue'[k].sessionId :
            k \in Len(NetSendRequestQueue) + 1 .. Len(NetSendRequestQueue')}
    /\ UNCHANGED <<requests, pq>>

(* The request ReQueing builds of a player: it has no .address initializer. *)
RetryRequest(r) ==
    [sessionId |-> r.sessionId, address |-> NoAddress,
     enqueueTime |-> now, retryCount |-> r.retryCount + 1]

MayRetryLess(r) == r.retryCount + 1 < MaxRetry

MayRetry(r) == r.retryCount + 1 <= MaxRetry

RetriesOfFirst(m) ==
    {RetryRequest(matches[m].players[i]) : i \in {j \in {0} : MayRetry(matches[m].players[j])}}

Retries(m) ==
    {RetryRequest(matches[m].players[i]) : i \in {j \in Slots : MayRetry(matches[m].players[j])}}

(* Failed by timeout: ReQueing, then erase.  A player out of retries is let go. *)
MatchTimeout(m) ==
    /\ Updating(m)
    /\ matches[m].state = "WaitPeerReady"
    /\ ~AllAcked(m)
    /\ TimedOut(m)
    /\ requests' = TryEmplace(requests,
         [s \in {r.sessionId : r \in Retries(m)} |->
            CHOOSE r \in Retries(m) : r.sessionId = s])
    /\ pq' = pq (+) SetToBag(Retries(m))
    /\ seeking' = seeking \
         {r.sessionId : r \in {matches[m].players[i] : i \in {j \in Slots : ~MayRetry(matches[m].players[j])}}}
    /\ Erase(m)
    /\ UNCHANGED NetSendRequestQueue

(* The end of an iteration of the main loop. *)
EndTick ==
    /\ phase = "Results"
    /\ todo = {}
    /\ phase' = "Network"
    /\ now' = Min({now + 1, Horizon})
    /\ UNCHANGED <<MatchRequestQueue, NetSendRequestQueue, requests, pq, nextMatchID,
                   matches, ctx, todo, introduced, reported, seeking>>

-----------------------------------------------------------------------------
Packet ==
    \E s \in Sessions :
        \/ \E a \in Addresses : MatchRequestPacket(s, a)
        \/ MatchCancelPacket(s)
        \/ \E m \in MatchIds : IntroSuccessPacket(s, m)

UpdateMatch(m) ==
    MatchInit(m) \/ MatchSendInfo(m) \/ MatchWait(m) \/ MatchReady(m) \/ MatchTimeout(m)

Loop ==
    \/ ProcessNetSendRequest
    \/ HandleEnqueue \/ HandleCancel \/ HandleIntroResult
    \/ SkipCreation \/ CreateMatchContext
    \/ \E e \in DOMAIN pq : PopDeleted(e) \/ PopPlayer(e)
    \/ AddMatch
    \/ \E m \in MatchIds : UpdateMatch(m)
    \/ EndTick

Next == Packet \/ Loop

Spec == Init /\ [][Next]_vars

(***************************************************************************)
(* The main loop never blocks: Select is called in the receiving thread    *)
(* only, and draining the queues is bounded by their capacities.           *)
(***************************************************************************)
FairSpec == Spec /\ WF_vars(Loop)

-----------------------------------------------------------------------------
(* Every variable has its type; in particular no queue outgrows its ring and
   no request is ever in the heap with more than MaxRetry retries (the test
   of ReQueing comes after its increment). *)
TypeOK ==
    /\ phase \in {"Network", "Requests", "Fill", "Results"}
    /\ MatchRequestQueue \in Seq(MatchRequestCommand)
    /\ Len(MatchRequestQueue) <= RequestQueueCap
    /\ NetSendRequestQueue \in Seq(SendRequestCommand)
    /\ Len(NetSendRequestQueue) <= SendQueueCap
    /\ DOMAIN requests \subseteq Sessions
    /\ \A s \in DOMAIN requests : requests[s] \in MatchRequest
    /\ DOMAIN pq \subseteq MatchRequest
    /\ \A e \in DOMAIN pq : pq[e] \in Nat \ {0}
    /\ nextMatchID \in MatchIds
    /\ DOMAIN matches \subseteq MatchIds
    /\ \A m \in DOMAIN matches : matches[m] \in Match
    /\ ctx \in MatchContext
    /\ todo \subseteq DOMAIN matches
    /\ now \in 0 .. Horizon
    /\ introduced \subseteq Sessions \X MatchIds
    /\ reported \subseteq Sessions \X MatchIds
    /\ seeking \subseteq Sessions

(* requests and the heap are updated in different places and in different
   ways (try_emplace against emplace, erase against lazy deletion): yet the
   request of every waiting session is still in the heap. *)
LiveRequestsQueued ==
    \A s \in DOMAIN requests :
        requests[s].sessionId = s /\ requests[s] \in DOMAIN pq

(* CreateMatchContext ignores that the heap may run dry: yet every match has
   all of its players, and no session plays twice in it. *)
FullRoster ==
    \A m \in DOMAIN matches :
        /\ \A i \in Slots : matches[m].players[i] \in MatchRequest
        /\ \A i, j \in Slots :
              matches[m].players[i].sessionId = matches[m].players[j].sessionId => i = j

(* nextMatchID_ wraps around: yet try_emplace never meets the id of a match
   that is still there, which would lose the new match and its players. *)
NoIdCollision == phase = "Fill" => ctx.matchId \notin DOMAIN matches

(* A slot of a match is acknowledged only if its own player reported success
   for this very match, whatever late answers to former matches arrive. *)
AcksAreReported ==
    \A m \in DOMAIN matches : \A i \in Slots :
        matches[m].peerAck[i] => <<matches[m].players[i].sessionId, m>> \in reported

(* Every player of a match that waits for its peers has been sent the
   MATCH_INTRO: it is on its way or it has arrived; none was dropped. *)
IntroReachesPlayers ==
    \A m \in DOMAIN matches : matches[m].state = "WaitPeerReady" =>
        \A s \in SessionsOf(matches[m].players) :
            \/ <<s, m>> \in introduced
            \/ \E k \in 1 .. Len(NetSendRequestQueue) :
                  /\ NetSendRequestQueue[k].type = "MATCH_INTRO"
                  /\ NetSendRequestQueue[k].sessionId = s
                  /\ NetSendRequestQueue[k].matchId = m

(* A session that asked for a match and did not cancel is in the request
   map, in the context being filled, or in a match, until it is sent
   MATCH_START or has used up its retries: no step loses it. *)
NobodyForgotten ==
    seeking \subseteq DOMAIN requests \cup SessionsOf(ctx.players)
                      \cup UNION {SessionsOf(matches[m].players) : m \in DOMAIN matches}

(* MATCH_START goes to a session only when a match it plays in is over and
   every player of that match reported that it reached its peers. *)
StartsOnlyReportedMatches ==
    [][\A k \in Len(NetSendRequestQueue) + 1 .. Len(NetSendRequestQueue') :
          NetSendRequestQueue'[k].type = "MATCH_START" =>
            \E m \in DOMAIN matches \ DOMAIN matches' :
              /\ NetSendRequestQueue'[k].sessionId \in SessionsOf(matches[m].players)
              /\ \A s \in SessionsOf(matches[m].players) : <<s, m>> \in reported]_vars

(* The player picked for a slot is outranked by no session left waiting:
   none with more failed matches, and none whose last match failed at an
   earlier tick after as many.  (enqueueTime is set by ReQueing only, a first
   request carries 0: among first requests any may be picked.) *)
PriorityServed ==
    [][ctx'.slot = ctx.slot + 1 =>
        LET picked == ctx'.players[ctx.slot]
        IN  \A s \in DOMAIN requests' :
              /\ requests'[s].retryCount <= picked.retryCount
              /\ requests'[s].retryCount = picked.retryCount =>
                    requests'[s].enqueueTime >= picked.enqueueTime]_vars

(* Whom the loop of CreateMatchContext has drawn so far: their sessions wait
   until the match is there. *)
Drawn == {ctx.players[i] : i \in {j \in Slots : j < ctx.slot}}

Reporters(m) == {matches[m].players[i].sessionId : i \in {j \in Slots : matches[m].peerAck[j]}}

Waiting == DOMAIN requests \cup {r.sessionId : r \in Drawn}

Offers == pq (+) SetToBag(Drawn)

Live == [m \in DOMAIN matches |-> [players |-> matches[m].players, acked |-> Reporters(m)]]

Service == INSTANCE MatchService WITH
    MatchSize <- MaxMatchPlayer, Times <- 0 .. Horizon,
    waiting <- Waiting, offers <- Offers, live <- Live

(* Seen from the sessions, the map, the heap and the loops of a tick are the
   waiting room of MatchService: matches are drawn at once from those who
   wait, start when all have reported and are given up only when not, and
   then whoever has tries left waits again. *)
ImplementsService == Service!Spec

(* Every match comes to an end: it starts or it fails by timeout, even if no
   client ever answers. *)
MatchesResolve ==
    \A m \in MatchIds : m \in DOMAIN matches ~> m \notin DOMAIN matches

-----------------------------------------------------------------------------
(* Match.cpp:22: the NetConnection of each peer is sent to the peers.  So the
   address in a MATCH_INTRO is one the player announced. *)
IntroCarriesPeerAddress ==
    \A k \in 1 .. Len(NetSendRequestQueue) :
        NetSendRequestQueue[k].type = "MATCH_INTRO" =>
            \A i \in Slots : NetSendRequestQueue[k].conn[i].addr \in Addresses

(* MatchManager.cpp:114, "lazy deletion": a heap entry outlives its request
   only to be skipped when it comes up.  So the entry that fills a slot is
   the request its session waits with. *)
ServedRequestIsCurrent ==
    [][ctx'.slot = ctx.slot + 1 =>
        LET picked == ctx'.players[ctx.slot]
        IN  picked = requests[picked.sessionId]]_vars
=============================================================================
