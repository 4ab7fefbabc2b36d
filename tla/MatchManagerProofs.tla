------------------------- MODULE MatchManagerProofs -------------------------
(***************************************************************************)
(* Proofs about MatchManager for every value of its constants.             *)
(***************************************************************************)
EXTENDS MatchManager, FiniteSetTheorems, SequenceTheorems, TLAPS

-----------------------------------------------------------------------------
(***************************************************************************)
(* What the operators of the model return.                                 *)
(***************************************************************************)

(* The smaller of two integers. *)
LEMMA MinOfTwo ==
    ASSUME NEW a \in Int, NEW b \in Int
    PROVE  Min({a, b}) = IF a <= b THEN a ELSE b
  <1>1. \A x \in {a, b} : (\A y \in {a, b} : x =< y) => x = IF a <= b THEN a ELSE b
    OBVIOUS
  <1>2. \E x \in {a, b} : \A y \in {a, b} : x =< y
    OBVIOUS
  <1> QED
    BY <1>1, <1>2 DEF Min

(* The least element of a singleton. *)
LEMMA MinOfOne ==
    ASSUME NEW a \in Int
    PROVE  Min({a}) = a
  BY DEF Min

(* Emplacing packets leaves those in the queue, appends a prefix of the new
   ones, and keeps to the capacity. *)
LEMMA EmplaceAllType ==
    ASSUME NEW T, NEW q \in Seq(T), NEW msgs \in Seq(T), NEW cap \in Nat, Len(q) <= cap
    PROVE  LET new == EmplaceAll(q, msgs, cap)
           IN  /\ new \in Seq(T)
               /\ Len(new) <= cap
               /\ Len(new) >= Len(q)
               /\ \A k \in Len(q) + 1 .. Len(new) :
                     k - Len(q) \in 1 .. Len(msgs) /\ new[k] = msgs[k - Len(q)]
  <1> DEFINE n == Min({Len(msgs), cap - Len(q)})
             front == SubSeq(msgs, 1, n)
  <1>1. n \in Nat /\ n <= Len(msgs) /\ n <= cap - Len(q)
    BY MinOfTwo
  <1> HIDE DEF n
  <1>2. \A i \in 1 .. n : msgs[i] \in T
    BY <1>1, ElementOfSeq
  <1>3. /\ front \in Seq(T)
        /\ Len(front) = n
        /\ \A i \in 1 .. n : front[i] = msgs[i]
    BY <1>1, <1>2, SubSeqProperties
  <1> HIDE DEF front
  <1>4. /\ q \o front \in Seq(T)
        /\ Len(q \o front) = Len(q) + n
        /\ \A k \in 1 .. Len(q) + n : (q \o front)[k] =
              IF k <= Len(q) THEN q[k] ELSE front[k - Len(q)]
    BY <1>3, ConcatProperties
  <1>5. EmplaceAll(q, msgs, cap) = q \o front
    BY DEF EmplaceAll, front, n
  <1>6. \A k \in Len(q) + 1 .. Len(q) + n :
           k - Len(q) \in 1 .. n /\ (q \o front)[k] = msgs[k - Len(q)]
    BY <1>1, <1>3, <1>4
  <1> QED
    BY <1>1, <1>4, <1>5, <1>6

(* Emplacing one command appends it or, when the ring is full, drops it. *)
LEMMA EmplaceOne ==
    ASSUME NEW T, NEW q \in Seq(T), NEW c \in T, NEW cap \in Nat, Len(q) <= cap
    PROVE  EmplaceAll(q, <<c>>, cap) = IF Len(q) < cap THEN Append(q, c) ELSE q
  <1>1. CASE Len(q) < cap
    <2>1. Min({Len(<<c>>), cap - Len(q)}) = 1
      BY <1>1, MinOfTwo
    <2>2. SubSeq(<<c>>, 1, 1) = <<c>>
      BY SubSeqFull, <<c>> \in Seq(T), Len(<<c>>) = 1
    <2>3. q \o <<c>> = Append(q, c)
      OBVIOUS
    <2> QED
      BY <1>1, <2>1, <2>2, <2>3 DEF EmplaceAll
  <1>2. CASE Len(q) = cap
    <2>1. Min({Len(<<c>>), cap - Len(q)}) = 0
      BY <1>2, MinOfTwo
    <2>2. SubSeq(<<c>>, 1, 0) = <<>>
      BY SubSeqEmpty
    <2>3. q \o <<>> = q
      BY ConcatEmptySeq
    <2> QED
      BY <1>2, <2>1, <2>2, <2>3 DEF EmplaceAll
  <1> QED
    BY <1>1, <1>2

(* Popping removes at most the popped request from the heap. *)
LEMMA BagRemoveDomain ==
    ASSUME NEW B, NEW x, \A e \in DOMAIN B : B[e] \in Nat \ {0}
    PROVE  LET new == B (-) SetToBag({x})
           IN  /\ DOMAIN B \ {x} \subseteq DOMAIN new
               /\ DOMAIN new \subseteq DOMAIN B
               /\ \A e \in DOMAIN new : new[e] \in Nat \ {0}
  BY DEF (-), SetToBag

(* Emplacing requests adds them to the heap and keeps the others. *)
LEMMA BagUnionDomain ==
    ASSUME NEW B, NEW S, \A e \in DOMAIN B : B[e] \in Nat \ {0}
    PROVE  /\ DOMAIN (B (+) SetToBag(S)) = DOMAIN B \cup S
           /\ \A e \in DOMAIN (B (+) SetToBag(S)) : (B (+) SetToBag(S))[e] \in Nat \ {0}
  BY DEF (+), SetToBag

-----------------------------------------------------------------------------
(***************************************************************************)
(* The inductive invariant.                                                *)
(***************************************************************************)

(* The context exists only while it is filled, its filled slots hold        
   distinct sessions that wait no longer, and those who wait suffice for the
   slots still open: this is why the heap cannot run dry. *)
ContextInv ==
    /\ phase # "Fill" => ctx = NoContext
    /\ phase # "Results" => todo = {}
    /\ phase \in {"Fill", "Results"} => MatchRequestQueue = <<>>
    /\ ctx.slot <= MaxMatchPlayer
    /\ \A i \in Slots : i < ctx.slot =>
          /\ ctx.players[i] \in MatchRequest
          /\ ctx.players[i].sessionId \notin DOMAIN requests
    /\ \A i, j \in Slots : i < ctx.slot /\ j < ctx.slot =>
          (ctx.players[i].sessionId = ctx.players[j].sessionId => i = j)
    /\ phase = "Fill" => Cardinality(DOMAIN requests) + ctx.slot >= MaxMatchPlayer

(* How many ids have been given out since m was, m included. *)
Age(m) == IF m < nextMatchID THEN nextMatchID - m ELSE nextMatchID + MatchIdMod - m

(* One id is given out per tick at most, so the age of a match is bounded by
   its timer, which the timeout bounds: ids do not wrap within a life. *)
IdInv ==
    /\ \A m \in DOMAIN matches :
          Age(m) <= matches[m].timer + (IF phase = "Fill" \/ m \in todo THEN 1 ELSE 0)
    /\ \A m \in DOMAIN matches :
          \/ matches[m].state = "Init" /\ matches[m].timer = 0
          \/ matches[m].state = "InfoSent" /\ matches[m].timer = 1
          \/ /\ matches[m].state = "WaitPeerReady"
             /\ matches[m].timer = 2 \/ matches[m].timer < TimeoutTicks
    /\ phase = "Fill" => NextId(ctx.matchId) = nextMatchID
    /\ NoIdCollision

(* The connections of a match are its players, and an acknowledgement in the
   command queue is one its sender has reported. *)
AckInv ==
    /\ \A m \in DOMAIN matches :
          matches[m].conn = IF matches[m].state = "Init"
                            THEN [i \in Slots |-> NoConnection]
                            ELSE CollectNetConnection(matches[m].players)
    /\ \A k \in 1 .. Len(MatchRequestQueue) :
          LET cmd == MatchRequestQueue[k]
          IN  cmd.action = "Success" /\ cmd.matchId \in DOMAIN matches =>
                <<cmd.sessionId, cmd.matchId>> \in reported
    /\ AcksAreReported

IInv ==
    /\ TypeOK
    /\ LiveRequestsQueued
    /\ FullRoster
    /\ ContextInv
    /\ IdInv
    /\ AckInv

(* The invariant holds initially. *)
LEMMA InitInv == Init => IInv
  <1> SUFFICES ASSUME Init PROVE IInv
    OBVIOUS
  <1> USE SessionAssumption, SizeAssumption, MatchIdAssumption DEF Init
  <1>1. TypeOK
    BY DEF TypeOK, MatchIds, MatchContext, NoContext, Players, EmptyBag, SetToBag, Uninit, Slots
  <1>2. LiveRequestsQueued /\ FullRoster /\ AckInv
    BY DEF LiveRequestsQueued, FullRoster, AckInv, AcksAreReported
  <1>3. ContextInv
    BY DEF ContextInv, NoContext, Slots
  <1>4. IdInv
    BY DEF IdInv, NoIdCollision
  <1> QED
    BY <1>1, <1>2, <1>3, <1>4 DEF IInv

-----------------------------------------------------------------------------
(***************************************************************************)
(* Every step preserves the types.                                         *)
(***************************************************************************)

(* A command either joins the queue or is dropped. *)
LEMMA SubmitType ==
    ASSUME TypeOK, NEW cmd \in MatchRequestCommand, Submit(cmd), reported' \subseteq Sessions \X MatchIds
    PROVE  TypeOK'
  <1> USE SizeAssumption
  <1>1. /\ MatchRequestQueue' \in Seq(MatchRequestCommand)
        /\ Len(MatchRequestQueue') <= RequestQueueCap
    <2>1. <<cmd>> \in Seq(MatchRequestCommand)
      OBVIOUS
    <2> QED
      BY <2>1, EmplaceAllType DEF TypeOK, Submit
  <1> QED
    BY <1>1 DEF TypeOK, Submit

(* Handling a command takes it off the queue. *)
LEMMA HandlingType ==
    ASSUME TypeOK, NEW a, Handling(a)
    PROVE  /\ Head(MatchRequestQueue) \in MatchRequestCommand
           /\ MatchRequestQueue' \in Seq(MatchRequestCommand)
           /\ Len(MatchRequestQueue') <= RequestQueueCap
           /\ Len(MatchRequestQueue') = Len(MatchRequestQueue) - 1
           /\ \A k \in 1 .. Len(MatchRequestQueue') :
                 k + 1 \in 1 .. Len(MatchRequestQueue) /\ MatchRequestQueue'[k] = MatchRequestQueue[k + 1]
           /\ Head(MatchRequestQueue) = MatchRequestQueue[1]
           /\ 1 \in 1 .. Len(MatchRequestQueue)
  <1>1. MatchRequestQueue \in Seq(MatchRequestCommand) /\ MatchRequestQueue # <<>>
    BY DEF TypeOK, Handling
  <1>2. Len(MatchRequestQueue) \in Nat \ {0}
    BY <1>1, EmptySeq
  <1> QED
    BY <1>1, <1>2, HeadTailProperties, SizeAssumption DEF TypeOK, Handling

(* What Match::Update emplaces is one packet per player. *)
LEMMA IntroPacketsType ==
    ASSUME TypeOK, FullRoster, NEW m \in DOMAIN matches
    PROVE  IntroPackets(m) \in Seq(SendRequestCommand) /\ Len(IntroPackets(m)) = MaxMatchPlayer
  <1>1. \A k \in 1 .. MaxMatchPlayer :
           k - 1 \in Slots /\ matches[m].players[k - 1] \in MatchRequest
    BY SizeAssumption DEF FullRoster, Slots
  <1>2. m \in MatchIds /\ matches[m].conn \in NetConnections
    BY DEF TypeOK, Match
  <1>3. \A k \in 1 .. MaxMatchPlayer : IntroPackets(m)[k] \in SendRequestCommand
    BY <1>1, <1>2 DEF IntroPackets, SendRequestCommand, MatchRequest
  <1> QED
    BY <1>3, SizeAssumption DEF IntroPackets

LEMMA StartPacketsType ==
    ASSUME TypeOK, FullRoster, NEW m \in DOMAIN matches
    PROVE  StartPackets(m) \in Seq(SendRequestCommand) /\ Len(StartPackets(m)) = MaxMatchPlayer
  <1>1. \A k \in 1 .. MaxMatchPlayer :
           k - 1 \in Slots /\ matches[m].players[k - 1] \in MatchRequest
    BY SizeAssumption DEF FullRoster, Slots
  <1>2. \A k \in 1 .. MaxMatchPlayer : StartPackets(m)[k] \in SendRequestCommand
    BY <1>1 DEF StartPackets, SendRequestCommand, MatchRequest
  <1> QED
    BY <1>2, SizeAssumption DEF StartPackets

(* The retries of a match are requests of its players. *)
LEMMA RetriesType ==
    ASSUME TypeOK, FullRoster, NEW m \in DOMAIN matches
    PROVE  Retries(m) \subseteq MatchRequest
  <1> SUFFICES ASSUME NEW i \in Slots, MayRetry(matches[m].players[i])
               PROVE  RetryRequest(matches[m].players[i]) \in MatchRequest
    BY DEF Retries
  <1>1. matches[m].players[i] \in MatchRequest
    BY DEF FullRoster
  <1> DEFINE p == matches[m].players[i]
  <1>2. p.sessionId \in Sessions /\ p.retryCount \in 0 .. MaxRetry /\ p.retryCount + 1 <= MaxRetry
    BY <1>1 DEF MatchRequest, MayRetry
  <1>3. p.retryCount + 1 \in 0 .. MaxRetry
    BY <1>2, SizeAssumption
  <1>4. now \in 0 .. Horizon
    BY DEF TypeOK
  <1> QED
    BY <1>2, <1>3, <1>4 DEF MatchRequest, RetryRequest

(* Advancing a match changes its state and its timer only. *)
LEMMA AdvanceMatch ==
    ASSUME TypeOK, NEW m \in DOMAIN matches, NEW st \in MatchState
    PROVE  /\ DOMAIN Advance(m, st) = DOMAIN matches
           /\ \A i \in DOMAIN matches : i # m => Advance(m, st)[i] = matches[i]
           /\ Advance(m, st)[m] \in Match
           /\ Advance(m, st)[m].state = st
           /\ Advance(m, st)[m].timer = matches[m].timer + 1
           /\ Advance(m, st)[m].players = matches[m].players
           /\ Advance(m, st)[m].conn = matches[m].conn
           /\ Advance(m, st)[m].peerAck = matches[m].peerAck
  <1>1. matches[m] \in Match
    BY DEF TypeOK
  <1> DEFINE new == [matches[m] EXCEPT !.state = st, !.timer = matches[m].timer + 1]
  <1>2. /\ new \in Match
        /\ new.state = st
        /\ new.timer = matches[m].timer + 1
        /\ new.players = matches[m].players
        /\ new.conn = matches[m].conn
        /\ new.peerAck = matches[m].peerAck
    <2> DEFINE old == matches[m]
    <2>1. old.timer + 1 \in Nat /\ old \in Match
      BY <1>1 DEF Match
    <2> HIDE DEF old
    <2>2. new = [old EXCEPT !.state = st, !.timer = old.timer + 1]
      BY DEF old
    <2> QED
      BY <2>1, <2>2 DEF Match, old
  <1>3. Advance(m, st) = [matches EXCEPT ![m] = new]
    BY DEF Advance
  <1> HIDE DEF new
  <1>4. /\ DOMAIN Advance(m, st) = DOMAIN matches
        /\ \A i \in DOMAIN matches : i # m => Advance(m, st)[i] = matches[i]
        /\ Advance(m, st)[m] = new
    BY <1>3
  <1> QED
    BY <1>2, <1>4

(* The first tick of a match copies its players into its connections. *)
LEMMA InitMatch ==
    ASSUME TypeOK, NEW m \in MatchIds, MatchInit(m)
    PROVE  /\ m \in DOMAIN matches
           /\ DOMAIN matches' = DOMAIN matches
           /\ \A i \in DOMAIN matches : i # m => matches'[i] = matches[i]
           /\ matches'[m] \in Match
           /\ matches'[m].state = "InfoSent"
           /\ matches'[m].timer = matches[m].timer + 1
           /\ matches'[m].players = matches[m].players
           /\ matches'[m].conn = CollectNetConnection(matches[m].players)
           /\ matches'[m].peerAck = matches[m].peerAck
  <1>1. m \in DOMAIN matches
    BY DEF MatchInit, Updating, TypeOK
  <1> DEFINE C == CollectNetConnection(matches[m].players)
             adv == Advance(m, "InfoSent")
  <1>2. C \in NetConnections
    BY <1>1 DEF TypeOK, Match, Players, CollectNetConnection, NetConnections, MatchRequest, Uninit
  <1>3. /\ DOMAIN adv = DOMAIN matches
        /\ \A i \in DOMAIN matches : i # m => adv[i] = matches[i]
        /\ adv[m] \in Match
        /\ adv[m].state = "InfoSent"
        /\ adv[m].timer = matches[m].timer + 1
        /\ adv[m].players = matches[m].players
        /\ adv[m].peerAck = matches[m].peerAck
    BY <1>1, AdvanceMatch DEF MatchState
  <1>4. matches' = [adv EXCEPT ![m].conn = C]
    BY DEF MatchInit
  <1> HIDE DEF C, adv
  <1> DEFINE new == [adv[m] EXCEPT !.conn = C]
  <1>5. /\ new \in Match
        /\ new.state = adv[m].state
        /\ new.timer = adv[m].timer
        /\ new.players = adv[m].players
        /\ new.conn = C
        /\ new.peerAck = adv[m].peerAck
    BY <1>2, <1>3 DEF Match
  <1>6. matches' = [adv EXCEPT ![m] = new]
    BY <1>4
  <1> HIDE DEF new
  <1>7. /\ DOMAIN matches' = DOMAIN matches
        /\ \A i \in DOMAIN matches : i # m => matches'[i] = matches[i]
        /\ matches'[m] = new
    BY <1>1, <1>3, <1>6
  <1> QED
    BY <1>1, <1>3, <1>5, <1>7 DEF C

(* Every step preserves the types. *)
LEMMA TypeNext == IInv /\ [Next]_vars => TypeOK'
  <1> SUFFICES ASSUME IInv, [Next]_vars PROVE TypeOK'
    OBVIOUS
  <1> USE SessionAssumption, SizeAssumption, MatchIdAssumption
  <1>0. TypeOK /\ FullRoster /\ ContextInv
    BY DEF IInv
  <1>1. ASSUME NEW s \in Sessions, NEW a \in Addresses, MatchRequestPacket(s, a)
        PROVE  TypeOK'
    <2>1. [action |-> "Enqueue", sessionId |-> s, address |-> a] \in MatchRequestCommand
      BY DEF MatchRequestCommand
    <2> QED
      BY <1>0, <1>1, <2>1, SubmitType DEF MatchRequestPacket, TypeOK
  <1>2. ASSUME NEW s \in Sessions, MatchCancelPacket(s)
        PROVE  TypeOK'
    <2>1. [action |-> "Cancel", sessionId |-> s] \in MatchRequestCommand
      BY DEF MatchRequestCommand
    <2> QED
      BY <1>0, <1>2, <2>1, SubmitType DEF MatchCancelPacket, TypeOK
  <1>3. ASSUME NEW s \in Sessions, NEW m \in MatchIds, IntroSuccessPacket(s, m)
        PROVE  TypeOK'
    <2>1. [action |-> "Success", sessionId |-> s, matchId |-> m] \in MatchRequestCommand
      BY DEF MatchRequestCommand
    <2>2. reported' \subseteq Sessions \X MatchIds
      BY <1>0, <1>3 DEF IntroSuccessPacket, TypeOK
    <2> QED
      BY <1>0, <1>3, <2>1, <2>2, SubmitType DEF IntroSuccessPacket
  <1>4. CASE ProcessNetSendRequest
    <2>1. introduced' \subseteq Sessions \X MatchIds
      BY <1>0, <1>4 DEF ProcessNetSendRequest, TypeOK, SendRequestCommand
    <2> QED
      BY <1>0, <1>4, <2>1 DEF ProcessNetSendRequest, TypeOK
  <1>5. CASE HandleEnqueue
    <2> DEFINE r == FreshRequest(Head(MatchRequestQueue))
    <2>1. Head(MatchRequestQueue) \in MatchRequestCommand /\ Head(MatchRequestQueue).action = "Enqueue"
      BY <1>0, <1>5, HandlingType DEF HandleEnqueue, Handling
    <2>2. r \in MatchRequest
      BY <2>1 DEF MatchRequestCommand, FreshRequest, MatchRequest
    <2>3. pq' = pq (+) SetToBag({r})
      BY <1>5 DEF HandleEnqueue
    <2>5. DOMAIN requests' \subseteq Sessions /\ \A s \in DOMAIN requests' : requests'[s] \in MatchRequest
      BY <1>0, <1>5, <2>2 DEF HandleEnqueue, TypeOK, TryEmplace, MatchRequest
    <2>6. seeking' \subseteq Sessions
      BY <1>0, <1>5, <2>2 DEF HandleEnqueue, TypeOK, MatchRequest
    <2> HIDE DEF r
    <2>4. DOMAIN pq' \subseteq MatchRequest /\ \A e \in DOMAIN pq' : pq'[e] \in Nat \ {0}
      <3>1. \A e \in DOMAIN pq : pq[e] \in Nat \ {0}
        BY <1>0 DEF TypeOK
      <3>2. /\ DOMAIN pq' = DOMAIN pq \cup {r}
            /\ \A e \in DOMAIN pq' : pq'[e] \in Nat \ {0}
        BY <2>3, <3>1, BagUnionDomain
      <3> QED
        BY <1>0, <2>2, <3>2 DEF TypeOK
    <2> QED
      BY <1>0, <1>5, <2>4, <2>5, <2>6, HandlingType DEF HandleEnqueue, Handling, TypeOK
  <1>6. CASE HandleCancel
    BY <1>0, <1>6, HandlingType DEF HandleCancel, Handling, TypeOK, EraseRequest, Restrict
  <1>7. CASE HandleIntroResult
    <2>1. \A m \in DOMAIN matches' : matches'[m] \in Match
      BY <1>0, <1>7 DEF HandleIntroResult, TypeOK, Match
    <2>2. DOMAIN matches' = DOMAIN matches
      BY <1>7 DEF HandleIntroResult
    <2> QED
      BY <1>0, <1>7, <2>1, <2>2, HandlingType DEF HandleIntroResult, Handling, TypeOK
  <1>8. CASE SkipCreation
    BY <1>0, <1>8 DEF SkipCreation, TypeOK
  <1>9. CASE CreateMatchContext
    <2>1. ctx' \in MatchContext
      BY <1>0, <1>9 DEF CreateMatchContext, TypeOK, MatchContext, NoContext, Players, Uninit
    <2>2. nextMatchID' \in MatchIds
      BY <1>0, <1>9 DEF CreateMatchContext, TypeOK, NextId, MatchIds
    <2> QED
      BY <1>0, <1>9, <2>1, <2>2 DEF CreateMatchContext, TypeOK
  <1>10. ASSUME NEW e \in DOMAIN pq, PopDeleted(e)
         PROVE  TypeOK'
    BY <1>0, <1>10, BagRemoveDomain DEF PopDeleted, Popping, TypeOK
  <1>11. ASSUME NEW e \in DOMAIN pq, PopPlayer(e)
         PROVE  TypeOK'
    <2>1. ctx' \in MatchContext
      <3>1. ctx \in MatchContext /\ e \in MatchRequest
        BY <1>0 DEF TypeOK
      <3>2. [ctx.players EXCEPT ![ctx.slot] = e] \in Players
        BY <3>1 DEF MatchContext, Players
      <3>3. /\ ctx'.matchId = ctx.matchId
            /\ ctx'.players = [ctx.players EXCEPT ![ctx.slot] = e]
            /\ ctx'.slot = ctx.slot + 1
            /\ ctx' = [matchId |-> ctx'.matchId, slot |-> ctx'.slot, players |-> ctx'.players]
        BY <1>11, <3>1 DEF PopPlayer, MatchContext
      <3> QED
        BY <3>1, <3>2, <3>3 DEF MatchContext
    <2>2. DOMAIN requests' \subseteq Sessions /\ \A s \in DOMAIN requests' : requests'[s] \in MatchRequest
      BY <1>0, <1>11 DEF PopPlayer, TypeOK, EraseRequest, Restrict
    <2> QED
      BY <1>0, <1>11, <2>1, <2>2, BagRemoveDomain DEF PopPlayer, Popping, TypeOK
  <1>12. CASE AddMatch
    <2>1. NewMatch(ctx.players) \in Match
      BY <1>0 DEF TypeOK, MatchContext, NewMatch, Match, MatchState, NetConnections, NoConnection
    <2>2. /\ DOMAIN matches' = DOMAIN matches \cup {ctx.matchId}
          /\ \A m \in DOMAIN matches' : matches'[m] \in Match
      BY <1>0, <1>12, <2>1 DEF AddMatch, TypeOK, TryEmplace
    <2>3. ctx' \in MatchContext
      BY <1>12 DEF AddMatch, MatchContext, NoContext, Players, MatchIds, Uninit
    <2> QED
      BY <1>0, <1>12, <2>2, <2>3 DEF AddMatch, TypeOK, MatchContext
  <1>13. ASSUME NEW m \in MatchIds, MatchInit(m)
         PROVE  TypeOK'
    <2>3. DOMAIN matches' = DOMAIN matches /\ \A i \in DOMAIN matches' : matches'[i] \in Match
      BY <1>0, <1>13, InitMatch DEF TypeOK
    <2> QED
      BY <1>0, <1>13, <2>3 DEF MatchInit, Updating, TypeOK
  <1>14. ASSUME NEW m \in MatchIds, MatchSendInfo(m)
         PROVE  TypeOK'
    <2>1. m \in DOMAIN matches
      BY <1>0, <1>14 DEF MatchSendInfo, Updating, TypeOK
    <2>2. IntroPackets(m) \in Seq(SendRequestCommand)
      BY <1>0, <2>1, IntroPacketsType
    <2>3. DOMAIN matches' = DOMAIN matches /\ \A i \in DOMAIN matches' : matches'[i] \in Match
      BY <1>0, <1>14, <2>1, AdvanceMatch DEF MatchSendInfo, TypeOK, MatchState
    <2>4. /\ NetSendRequestQueue' \in Seq(SendRequestCommand)
          /\ Len(NetSendRequestQueue') <= SendQueueCap
      BY <1>0, <1>14, <2>2, EmplaceAllType DEF MatchSendInfo, TypeOK
    <2> QED
      BY <1>0, <1>14, <2>3, <2>4 DEF MatchSendInfo, Updating, TypeOK
  <1>15. ASSUME NEW m \in MatchIds, MatchWait(m)
         PROVE  TypeOK'
    <2>1. m \in DOMAIN matches
      BY <1>0, <1>15 DEF MatchWait, Updating, TypeOK
    <2>2. DOMAIN matches' = DOMAIN matches /\ \A i \in DOMAIN matches' : matches'[i] \in Match
      BY <1>0, <1>15, <2>1, AdvanceMatch DEF MatchWait, TypeOK, MatchState
    <2> QED
      BY <1>0, <1>15, <2>2 DEF MatchWait, Updating, TypeOK
  <1>16. ASSUME NEW m \in MatchIds, MatchReady(m)
         PROVE  TypeOK'
    <2>1. m \in DOMAIN matches
      BY <1>0, <1>16 DEF MatchReady, Updating, TypeOK
    <2>2. StartPackets(m) \in Seq(SendRequestCommand)
      BY <1>0, <2>1, StartPacketsType
    <2>3. /\ NetSendRequestQueue' \in Seq(SendRequestCommand)
          /\ Len(NetSendRequestQueue') <= SendQueueCap
      BY <1>0, <1>16, <2>2, EmplaceAllType DEF MatchReady, TypeOK
    <2>4. seeking' \subseteq Sessions
      BY <1>0, <1>16 DEF MatchReady, TypeOK
    <2> QED
      BY <1>0, <1>16, <2>3, <2>4 DEF MatchReady, Updating, Erase, Restrict, TypeOK
  <1>17. ASSUME NEW m \in MatchIds, MatchTimeout(m)
         PROVE  TypeOK'
    <2>1. m \in DOMAIN matches
      BY <1>0, <1>17 DEF MatchTimeout, Updating, TypeOK
    <2>2. Retries(m) \subseteq MatchRequest
      BY <1>0, <2>1, RetriesType
    <2>3. DOMAIN requests' \subseteq Sessions /\ \A s \in DOMAIN requests' : requests'[s] \in MatchRequest
      <3> DEFINE keys == {r.sessionId : r \in Retries(m)}
                 entries == [s \in keys |-> CHOOSE r \in Retries(m) : r.sessionId = s]
      <3>1. \A s \in keys : s \in Sessions /\ entries[s] \in MatchRequest
        BY <2>2 DEF MatchRequest
      <3>2. requests' = TryEmplace(requests, entries)
        BY <1>17 DEF MatchTimeout
      <3> HIDE DEF entries, keys
      <3>3. DOMAIN entries = keys
        BY DEF entries
      <3> QED
        BY <1>0, <3>1, <3>2, <3>3 DEF TryEmplace, TypeOK
    <2>4. DOMAIN pq' \subseteq MatchRequest /\ \A e \in DOMAIN pq' : pq'[e] \in Nat \ {0}
      BY <1>0, <1>17, <2>2, BagUnionDomain DEF MatchTimeout, TypeOK
    <2>5. seeking' \subseteq Sessions
      BY <1>0, <1>17 DEF MatchTimeout, TypeOK
    <2> QED
      BY <1>0, <1>17, <2>3, <2>4, <2>5 DEF MatchTimeout, Updating, Erase, Restrict, TypeOK
  <1>18. CASE EndTick
    <2>1. now' \in 0 .. Horizon
      <3>1. now \in 0 .. Horizon /\ now + 1 \in Int /\ Horizon \in Int
        BY <1>0 DEF TypeOK
      <3>2. now' = IF now + 1 <= Horizon THEN now + 1 ELSE Horizon
        BY <1>18, <3>1, MinOfTwo DEF EndTick
      <3> QED
        BY <3>1, <3>2
    <2> QED
      BY <1>0, <1>18, <2>1 DEF EndTick, TypeOK
  <1>19. CASE UNCHANGED vars
    BY <1>0, <1>19 DEF vars, TypeOK
  <1> QED
    BY <1>1, <1>2, <1>3, <1>4, <1>5, <1>6, <1>7, <1>8, <1>9, <1>10, <1>11, <1>12, <1>13,
       <1>14, <1>15, <1>16, <1>17, <1>18, <1>19 DEF Next, Packet, Loop, UpdateMatch

-----------------------------------------------------------------------------
(***************************************************************************)
(* What the steps keep, shared by the lemmas below.                        *)
(***************************************************************************)

(* A tick that neither starts nor fails a match moves its state and timer. *)
LEMMA AdvancingKeeps ==
    ASSUME TypeOK, NEW m \in MatchIds, MatchInit(m) \/ MatchSendInfo(m) \/ MatchWait(m)
    PROVE  /\ m \in DOMAIN matches
           /\ DOMAIN matches' = DOMAIN matches
           /\ \A i \in DOMAIN matches : i # m => matches'[i] = matches[i]
           /\ matches'[m].timer = matches[m].timer + 1
           /\ \A i \in DOMAIN matches : matches'[i].players = matches[i].players
           /\ \A i \in DOMAIN matches : matches'[i].peerAck = matches[i].peerAck
  <1>1. CASE MatchInit(m)
    BY <1>1, InitMatch
  <1>2. CASE MatchSendInfo(m) \/ MatchWait(m)
    <2>1. m \in DOMAIN matches /\ matches' = Advance(m, "WaitPeerReady")
      BY <1>2 DEF MatchSendInfo, MatchWait, Updating, TypeOK
    <2>2. "WaitPeerReady" \in MatchState
      BY DEF MatchState
    <2> DEFINE new == Advance(m, "WaitPeerReady")
    <2>3. /\ DOMAIN new = DOMAIN matches
          /\ \A i \in DOMAIN matches : i # m => new[i] = matches[i]
          /\ new[m].timer = matches[m].timer + 1
          /\ new[m].players = matches[m].players
          /\ new[m].peerAck = matches[m].peerAck
      BY <2>1, <2>2, AdvanceMatch
    <2> HIDE DEF new
    <2>4. matches' = new
      BY <2>1 DEF new
    <2> QED
      BY <2>1, <2>3, <2>4
  <1> QED
    BY <1>1, <1>2

(* An acknowledgement touches the bits of one match only. *)
LEMMA IntroResultKeeps ==
    ASSUME TypeOK, HandleIntroResult
    PROVE  /\ DOMAIN matches' = DOMAIN matches
           /\ \A i \in DOMAIN matches :
                 /\ matches'[i].players = matches[i].players
                 /\ matches'[i].conn = matches[i].conn
                 /\ matches'[i].state = matches[i].state
                 /\ matches'[i].timer = matches[i].timer
  <1> DEFINE cmd == Head(MatchRequestQueue)
             n == cmd.matchId
             idx == IF n \in DOMAIN matches THEN GetPlayerId(matches[n], cmd.sessionId) ELSE -1
  <1>1. matches' = IF idx < 0 THEN matches ELSE [matches EXCEPT ![n].peerAck[idx] = TRUE]
    BY DEF HandleIntroResult
  <1>2. \A i \in DOMAIN matches : matches[i] \in Match
    BY DEF TypeOK
  <1> HIDE DEF idx, n
  <1> QED
    BY <1>1, <1>2 DEF Match

-----------------------------------------------------------------------------
(***************************************************************************)
(* Every step keeps the request of each waiting session in the heap.       *)
(***************************************************************************)
LEMMA HeapNext == IInv /\ [Next]_vars => LiveRequestsQueued'
  <1> SUFFICES ASSUME IInv, [Next]_vars PROVE LiveRequestsQueued'
    OBVIOUS
  <1>0. TypeOK /\ LiveRequestsQueued /\ FullRoster
    BY DEF IInv
  <1>a. \A e \in DOMAIN pq : pq[e] \in Nat \ {0}
    BY <1>0 DEF TypeOK
  <1>1. CASE UNCHANGED <<requests, pq>>
    BY <1>0, <1>1 DEF LiveRequestsQueued
  <1>2. CASE HandleEnqueue
    <2> DEFINE r == FreshRequest(Head(MatchRequestQueue))
    <2>1. requests' = TryEmplace(requests, [s \in {r.sessionId} |-> r]) /\ pq' = pq (+) SetToBag({r})
      BY <1>2 DEF HandleEnqueue
    <2> HIDE DEF r
    <2>2. DOMAIN pq' = DOMAIN pq \cup {r}
      BY <1>a, <2>1, BagUnionDomain
    <2> QED
      BY <1>0, <2>1, <2>2 DEF LiveRequestsQueued, TryEmplace
  <1>3. CASE HandleCancel
    BY <1>0, <1>3 DEF HandleCancel, LiveRequestsQueued, EraseRequest, Restrict
  <1>4. ASSUME NEW e \in DOMAIN pq, PopDeleted(e)
        PROVE  LiveRequestsQueued'
    <2>1. DOMAIN pq \ {e} \subseteq DOMAIN pq'
      BY <1>a, <1>4, BagRemoveDomain DEF PopDeleted, Popping
    <2> QED
      BY <1>0, <1>4, <2>1 DEF LiveRequestsQueued, PopDeleted
  <1>5. ASSUME NEW e \in DOMAIN pq, PopPlayer(e)
        PROVE  LiveRequestsQueued'
    <2>1. DOMAIN pq \ {e} \subseteq DOMAIN pq'
      BY <1>a, <1>5, BagRemoveDomain DEF PopPlayer, Popping
    <2> QED
      BY <1>0, <1>5, <2>1 DEF LiveRequestsQueued, PopPlayer, EraseRequest, Restrict
  <1>6. ASSUME NEW m \in MatchIds, MatchTimeout(m)
        PROVE  LiveRequestsQueued'
    <2> DEFINE keys == {r.sessionId : r \in Retries(m)}
               entries == [s \in keys |-> CHOOSE r \in Retries(m) : r.sessionId = s]
    <2>1. \A s \in keys : entries[s] \in Retries(m) /\ entries[s].sessionId = s
      OBVIOUS
    <2>2. requests' = TryEmplace(requests, entries) /\ pq' = pq (+) SetToBag(Retries(m))
      BY <1>6 DEF MatchTimeout
    <2>3. DOMAIN pq' = DOMAIN pq \cup Retries(m)
      BY <1>a, <2>2, BagUnionDomain
    <2>4. DOMAIN entries = keys
      OBVIOUS
    <2> HIDE DEF entries, keys
    <2> QED
      BY <1>0, <2>1, <2>2, <2>3, <2>4 DEF LiveRequestsQueued, TryEmplace
  <1> QED
    BY <1>1, <1>2, <1>3, <1>4, <1>5, <1>6
    DEF Next, Packet, Loop, UpdateMatch, vars, MatchRequestPacket, MatchCancelPacket,
        IntroSuccessPacket, Submit, ProcessNetSendRequest, HandleIntroResult, SkipCreation,
        CreateMatchContext, AddMatch, MatchInit, MatchSendInfo, MatchWait, MatchReady, EndTick

-----------------------------------------------------------------------------
(***************************************************************************)
(* Every step keeps the rosters of the matches full.                       *)
(***************************************************************************)

(* The loop over the slots ends with every slot filled. *)
LEMMA ContextComplete ==
    ASSUME IInv, AddMatch
    PROVE  ctx.slot = MaxMatchPlayer
  <1> SUFFICES ASSUME ctx.slot < MaxMatchPlayer, pq = EmptyBag PROVE FALSE
    BY SizeAssumption DEF AddMatch, IInv, ContextInv, TypeOK, MatchContext
  <1>1. IsFiniteSet(DOMAIN requests)
    <2>1. DOMAIN requests \in SUBSET Sessions
      BY DEF IInv, TypeOK
    <2>2. IsFiniteSet(Sessions)
      BY SessionAssumption
    <2> QED
      BY <2>1, <2>2, FS_Subset
  <1>2. Cardinality(DOMAIN requests) + ctx.slot >= MaxMatchPlayer /\ ctx.slot \in Nat
    BY DEF AddMatch, IInv, ContextInv, TypeOK, MatchContext
  <1>3. DOMAIN requests # {}
    <2>1. Cardinality({}) = 0
      BY FS_EmptySet
    <2> QED
      BY <1>2, <2>1, SizeAssumption
  <1>4. PICK s \in DOMAIN requests : requests[s] \in DOMAIN pq
    BY <1>3 DEF IInv, LiveRequestsQueued
  <1> QED
    BY <1>4 DEF EmptyBag, SetToBag

LEMMA RosterNext == IInv /\ [Next]_vars => FullRoster'
  <1> SUFFICES ASSUME IInv, [Next]_vars PROVE FullRoster'
    OBVIOUS
  <1>0. TypeOK /\ FullRoster
    BY DEF IInv
  <1>1. CASE /\ DOMAIN matches' \subseteq DOMAIN matches
             /\ \A m \in DOMAIN matches' : matches'[m].players = matches[m].players
    BY <1>0, <1>1 DEF FullRoster
  <1>2. CASE UNCHANGED matches
    BY <1>1, <1>2
  <1>3. CASE HandleIntroResult
    BY <1>0, <1>1, <1>3, IntroResultKeeps
  <1>4. CASE AddMatch
    <2>1. matches' = TryEmplace(matches, [m \in {ctx.matchId} |-> NewMatch(ctx.players)])
      BY <1>4 DEF AddMatch
    <2>2. /\ \A i \in Slots : ctx.players[i] \in MatchRequest
          /\ \A i, j \in Slots : ctx.players[i].sessionId = ctx.players[j].sessionId => i = j
      BY <1>4, ContextComplete, SizeAssumption DEF IInv, ContextInv, Slots
    <2>3. NewMatch(ctx.players).players = ctx.players
      BY DEF NewMatch
    <2> QED
      BY <1>0, <2>1, <2>2, <2>3 DEF FullRoster, TryEmplace
  <1>5. ASSUME NEW m \in MatchIds, MatchInit(m) \/ MatchSendInfo(m) \/ MatchWait(m)
        PROVE  FullRoster'
    BY <1>0, <1>1, <1>5, AdvancingKeeps
  <1>6. ASSUME NEW m \in MatchIds, MatchReady(m) \/ MatchTimeout(m)
        PROVE  FullRoster'
    BY <1>1, <1>6 DEF MatchReady, MatchTimeout, Erase, Restrict
  <1> QED
    BY <1>2, <1>3, <1>4, <1>5, <1>6
    DEF Next, Packet, Loop, UpdateMatch, vars, MatchRequestPacket, MatchCancelPacket,
        IntroSuccessPacket, Submit, ProcessNetSendRequest, HandleEnqueue, HandleCancel,
        SkipCreation, CreateMatchContext, PopDeleted, PopPlayer, Popping, EndTick

-----------------------------------------------------------------------------
(***************************************************************************)
(* Every step keeps enough requests waiting for the slots still open.      *)
(***************************************************************************)
LEMMA ContextNext == IInv /\ [Next]_vars => ContextInv'
  <1> SUFFICES ASSUME IInv, [Next]_vars PROVE ContextInv'
    OBVIOUS
  <1> USE SizeAssumption
  <1>0. TypeOK /\ ContextInv
    BY DEF IInv
  <1>a. /\ ctx \in MatchContext /\ ctx.slot \in Nat
        /\ NoContext.slot = 0 /\ MaxMatchPlayer \in Nat
    BY <1>0 DEF TypeOK, MatchContext, NoContext
  <1>1. CASE /\ phase \notin {"Fill"} /\ phase' \notin {"Fill"}
             /\ ctx' = ctx
             /\ phase' # "Results" => todo' = {}
             /\ phase' = "Results" => MatchRequestQueue' = <<>>
    <2>1. ctx' = NoContext
      BY <1>0, <1>1 DEF ContextInv
    <2> QED
      BY <1>a, <1>1, <2>1 DEF ContextInv, Slots
  <1>2. ASSUME NEW cmd, Submit(cmd)
        PROVE  ContextInv'
    BY <1>0, <1>1, <1>2 DEF Submit, ContextInv
  <1>3. CASE ProcessNetSendRequest
    BY <1>0, <1>1, <1>3 DEF ProcessNetSendRequest, ContextInv
  <1>4. ASSUME NEW a, Handling(a)
        PROVE  ContextInv'
    BY <1>0, <1>1, <1>4 DEF Handling, ContextInv
  <1>5. CASE SkipCreation
    BY <1>0, <1>1, <1>5 DEF SkipCreation, RequestsHandled, ContextInv
  <1>6. CASE CreateMatchContext
    <2>1. ctx'.slot = 0
      BY <1>6 DEF CreateMatchContext, NoContext
    <2>2. IsFiniteSet(DOMAIN requests)
      BY <1>0, SessionAssumption, FS_Subset, DOMAIN requests \in SUBSET Sessions DEF TypeOK
    <2>3. Cardinality(DOMAIN requests) \in Nat /\ Cardinality(DOMAIN requests) >= MaxMatchPlayer
      BY <1>6, <2>2, FS_CardinalityType DEF CreateMatchContext, CheckPopulation
    <2> QED
      BY <1>0, <1>6, <2>1, <2>3 DEF CreateMatchContext, RequestsHandled, ContextInv, Slots
  <1>7. ASSUME NEW e \in DOMAIN pq, PopDeleted(e)
        PROVE  ContextInv'
    BY <1>0, <1>7 DEF PopDeleted, Popping, ContextInv
  <1>8. ASSUME NEW e \in DOMAIN pq, PopPlayer(e)
        PROVE  ContextInv'
    <2>1. /\ phase = "Fill" /\ phase' = "Fill" /\ todo' = todo
          /\ MatchRequestQueue' = MatchRequestQueue
          /\ ctx.slot < MaxMatchPlayer /\ e.sessionId \in DOMAIN requests
      BY <1>8 DEF PopPlayer, Popping
    <2>2. e \in MatchRequest
      BY <1>0 DEF TypeOK
    <2>3. ctx' = [ctx EXCEPT !.players[ctx.slot] = e, !.slot = ctx.slot + 1]
      BY <1>8 DEF PopPlayer
    <2>4. /\ ctx'.slot = ctx.slot + 1
          /\ ctx'.players = [ctx.players EXCEPT ![ctx.slot] = e]
      BY <1>a, <2>3 DEF MatchContext
    <2>5. ctx.slot \in Slots
      BY <1>a, <2>1 DEF Slots
    <2>6. /\ ctx'.players[ctx.slot] = e
          /\ \A i \in Slots : i # ctx.slot => ctx'.players[i] = ctx.players[i]
      BY <1>a, <2>4, <2>5 DEF MatchContext, Players
    <2>7. DOMAIN requests' = DOMAIN requests \ {e.sessionId}
      BY <1>8 DEF PopPlayer, EraseRequest, Restrict
    <2>8. IsFiniteSet(DOMAIN requests)
      BY <1>0, SessionAssumption, FS_Subset, DOMAIN requests \in SUBSET Sessions DEF TypeOK
    <2>9. /\ Cardinality(DOMAIN requests) \in Nat
          /\ Cardinality(DOMAIN requests') = Cardinality(DOMAIN requests) - 1
      BY <2>1, <2>7, <2>8, FS_RemoveElement, FS_CardinalityType
    <2>10. /\ ctx'.slot <= MaxMatchPlayer
           /\ Cardinality(DOMAIN requests') + ctx'.slot >= MaxMatchPlayer
      BY <1>0, <1>a, <2>1, <2>4, <2>9 DEF ContextInv
    <2>11. \A i \in Slots : i < ctx'.slot => i < ctx.slot \/ i = ctx.slot
      BY <1>a, <2>4 DEF Slots
    <2>12. \A i \in Slots : i < ctx'.slot =>
              /\ ctx'.players[i] \in MatchRequest
              /\ ctx'.players[i].sessionId \notin DOMAIN requests'
      BY <1>0, <1>a, <2>2, <2>6, <2>7, <2>11 DEF ContextInv, Slots
    <2>13. \A i, j \in Slots : i < ctx'.slot /\ j < ctx'.slot =>
              (ctx'.players[i].sessionId = ctx'.players[j].sessionId => i = j)
      BY <1>0, <1>a, <2>1, <2>6, <2>11 DEF ContextInv, Slots
    <2> QED
      BY <1>0, <2>1, <2>10, <2>12, <2>13 DEF ContextInv
  <1>9. CASE AddMatch
    BY <1>0, <1>9 DEF AddMatch, ContextInv, NoContext, Slots
  <1>10. ASSUME NEW m \in MatchIds, Updating(m)
         PROVE  ContextInv'
    BY <1>0, <1>1, <1>10 DEF Updating, ContextInv
  <1>11. CASE EndTick
    BY <1>0, <1>1, <1>11 DEF EndTick, ContextInv
  <1>12. CASE UNCHANGED vars
    BY <1>0, <1>12 DEF vars, ContextInv
  <1> QED
    BY <1>2, <1>3, <1>4, <1>5, <1>6, <1>7, <1>8, <1>9, <1>10, <1>11, <1>12
    DEF Next, Packet, Loop, UpdateMatch, MatchRequestPacket, MatchCancelPacket,
        IntroSuccessPacket, HandleEnqueue, HandleCancel, HandleIntroResult, MatchInit,
        MatchSendInfo, MatchWait, MatchReady, MatchTimeout

-----------------------------------------------------------------------------
(***************************************************************************)
(* Every step keeps the ids of the matches apart.                          *)
(***************************************************************************)
LEMMA IdNext == IInv /\ [Next]_vars => IdInv'
  <1> SUFFICES ASSUME IInv, [Next]_vars PROVE IdInv'
    OBVIOUS
  <1> USE SizeAssumption, MatchIdAssumption
  <1>0. TypeOK /\ ContextInv /\ IdInv
    BY DEF IInv
  <1>a. /\ nextMatchID \in 0 .. MatchIdMod - 1
        /\ DOMAIN matches \subseteq 0 .. MatchIdMod - 1
        /\ \A m \in DOMAIN matches : matches[m].timer \in Nat
        /\ ctx.matchId \in 0 .. MatchIdMod - 1
    BY <1>0 DEF TypeOK, MatchIds, Match, MatchContext
  <1>1. CASE /\ phase # "Fill" /\ phase' # "Fill"
             /\ UNCHANGED nextMatchID
             /\ DOMAIN matches' \subseteq DOMAIN matches
             /\ \A m \in DOMAIN matches' :
                   /\ matches'[m].timer = matches[m].timer
                   /\ matches'[m].state = matches[m].state
                   /\ m \in todo => m \in todo'
    <2>1. \A m \in DOMAIN matches' : Age(m)' = Age(m)
      BY <1>1 DEF Age
    <2>2. \A m \in DOMAIN matches' :
             Age(m)' <= matches'[m].timer + (IF phase' = "Fill" \/ m \in todo' THEN 1 ELSE 0)
      <3> SUFFICES ASSUME NEW m \in DOMAIN matches'
                   PROVE  Age(m) <= matches[m].timer + (IF m \in todo' THEN 1 ELSE 0)
        BY <1>1, <2>1
      <3>1. /\ Age(m) <= matches[m].timer + (IF m \in todo THEN 1 ELSE 0)
            /\ m \in todo => m \in todo'
            /\ Age(m) \in Int /\ matches[m].timer \in Nat
        BY <1>0, <1>a, <1>1 DEF IdInv, Age
      <3> QED
        BY <3>1
    <2>3. \A m \in DOMAIN matches' :
             \/ matches'[m].state = "Init" /\ matches'[m].timer = 0
             \/ matches'[m].state = "InfoSent" /\ matches'[m].timer = 1
             \/ /\ matches'[m].state = "WaitPeerReady"
                /\ matches'[m].timer = 2 \/ matches'[m].timer < TimeoutTicks
      BY <1>0, <1>1 DEF IdInv
    <2> QED
      BY <1>1, <2>2, <2>3 DEF IdInv, NoIdCollision
  <1>2. ASSUME NEW cmd, Submit(cmd)
        PROVE  IdInv'
    BY <1>1, <1>2 DEF Submit
  <1>3. CASE ProcessNetSendRequest
    BY <1>1, <1>3 DEF ProcessNetSendRequest
  <1>4. CASE HandleEnqueue \/ HandleCancel
    BY <1>1, <1>4 DEF HandleEnqueue, HandleCancel, Handling
  <1>5. CASE HandleIntroResult
    BY <1>0, <1>1, <1>5, IntroResultKeeps DEF HandleIntroResult, Handling
  <1>6. CASE SkipCreation
    BY <1>0, <1>1, <1>6 DEF SkipCreation, RequestsHandled, ContextInv
  <1>7. CASE CreateMatchContext
    <2>1. /\ phase = "Requests" /\ phase' = "Fill" /\ todo = {}
          /\ nextMatchID' = NextId(nextMatchID) /\ matches' = matches
          /\ ctx'.matchId = nextMatchID
      BY <1>0, <1>7 DEF CreateMatchContext, RequestsHandled, ContextInv, NoContext
    <2>2. \A m \in DOMAIN matches : Age(m) <= matches[m].timer
      BY <1>0, <1>a, <2>1 DEF IdInv, Age
    <2>3. \A m \in DOMAIN matches : Age(m) < MatchIdMod
      BY <1>0, <1>a, <2>2 DEF IdInv, Age
    <2>4. nextMatchID \notin DOMAIN matches
      BY <1>a, <2>3 DEF Age
    <2>5. \A m \in DOMAIN matches : Age(m)' = Age(m) + 1
      BY <1>a, <2>1, <2>3 DEF Age, NextId
    <2>6. \A m \in DOMAIN matches' :
             Age(m)' <= matches'[m].timer + (IF phase' = "Fill" \/ m \in todo' THEN 1 ELSE 0)
      <3> SUFFICES ASSUME NEW m \in DOMAIN matches
                   PROVE  Age(m) + 1 <= matches[m].timer + 1
        BY <2>1, <2>5
      <3>1. Age(m) \in Int /\ matches[m].timer \in Nat /\ Age(m) <= matches[m].timer
        BY <1>a, <2>2 DEF Age
      <3> QED
        BY <3>1
    <2>7. NextId(ctx'.matchId) = nextMatchID' /\ ctx'.matchId \notin DOMAIN matches'
      BY <2>1, <2>4
    <2>8. \A m \in DOMAIN matches' :
             \/ matches'[m].state = "Init" /\ matches'[m].timer = 0
             \/ matches'[m].state = "InfoSent" /\ matches'[m].timer = 1
             \/ /\ matches'[m].state = "WaitPeerReady"
                /\ matches'[m].timer = 2 \/ matches'[m].timer < TimeoutTicks
      BY <1>0, <2>1 DEF IdInv
    <2>9. NextId(ctx.matchId)' = NextId(ctx'.matchId)
      BY DEF NextId
    <2> QED
      BY <2>6, <2>7, <2>8, <2>9 DEF IdInv, NoIdCollision
  <1>8. ASSUME NEW e \in DOMAIN pq, PopDeleted(e) \/ PopPlayer(e)
        PROVE  IdInv'
    <2>1. /\ phase = "Fill" /\ phase' = "Fill"
          /\ UNCHANGED <<nextMatchID, matches, todo>>
      BY <1>8 DEF PopDeleted, PopPlayer, Popping
    <2>2. ctx'.matchId = ctx.matchId
      BY <1>0, <1>8 DEF PopDeleted, PopPlayer, TypeOK, MatchContext
    <2> QED
      BY <1>0, <2>1, <2>2 DEF IdInv, Age, NoIdCollision
  <1>9. CASE AddMatch
    <2> DEFINE new == NewMatch(ctx.players)
    <2>1. new.state = "Init" /\ new.timer = 0
      BY DEF NewMatch
    <2> HIDE DEF new
    <2>2. /\ phase = "Fill" /\ phase' = "Results"
          /\ UNCHANGED nextMatchID
          /\ todo' = DOMAIN matches'
          /\ DOMAIN matches' = DOMAIN matches \cup {ctx.matchId}
          /\ matches'[ctx.matchId] = new
          /\ \A m \in DOMAIN matches : matches'[m] = matches[m]
      BY <1>0, <1>9 DEF AddMatch, TryEmplace, new, IdInv, NoIdCollision
    <2>3. Age(ctx.matchId) = 1
      BY <1>0, <1>a, <2>2 DEF IdInv, Age, NextId
    <2>4. \A m \in DOMAIN matches' : Age(m)' <= matches'[m].timer + 1
      BY <1>0, <2>1, <2>2, <2>3 DEF IdInv, Age
    <2> QED
      BY <1>0, <2>1, <2>2, <2>4 DEF IdInv, NoIdCollision
  <1>10. ASSUME NEW m \in MatchIds, MatchInit(m) \/ MatchSendInfo(m) \/ MatchWait(m)
         PROVE  IdInv'
    <2>1. /\ phase = "Results" /\ phase' = "Results" /\ m \in todo
          /\ todo' = todo \ {m} /\ UNCHANGED nextMatchID
      BY <1>10 DEF MatchInit, MatchSendInfo, MatchWait, Updating
    <2>2. /\ m \in DOMAIN matches
          /\ DOMAIN matches' = DOMAIN matches
          /\ \A i \in DOMAIN matches : i # m => matches'[i] = matches[i]
          /\ matches'[m].timer = matches[m].timer + 1
      BY <1>0, <1>10, AdvancingKeeps
    <2>3. \/ matches'[m].state = "InfoSent" /\ matches'[m].timer = 1
          \/ /\ matches'[m].state = "WaitPeerReady"
             /\ matches'[m].timer = 2 \/ matches'[m].timer < TimeoutTicks
      <3>1. CASE MatchInit(m)
        <4>1. matches[m].state = "Init" /\ matches[m].timer = 0
          BY <1>0, <2>2, <3>1 DEF IdInv, MatchInit
        <4>2. matches'[m].state = "InfoSent"
          BY <1>0, <3>1, InitMatch
        <4> QED
          BY <2>2, <4>1, <4>2
      <3>2. CASE MatchSendInfo(m) \/ MatchWait(m)
        <4>1. matches' = Advance(m, "WaitPeerReady") /\ "WaitPeerReady" \in MatchState
          BY <3>2 DEF MatchSendInfo, MatchWait, MatchState
        <4>2. matches'[m].state = "WaitPeerReady"
          BY <1>0, <2>2, <4>1, AdvanceMatch
        <4>3. CASE MatchSendInfo(m)
          <5>1. matches[m].state = "InfoSent" /\ matches[m].timer = 1
            BY <1>0, <2>2, <4>3 DEF IdInv, MatchSendInfo
          <5> QED
            BY <2>2, <4>2, <5>1
        <4>4. CASE MatchWait(m)
          <5>1. ~(matches[m].timer + 1 >= TimeoutTicks) /\ matches[m].timer \in Nat
            BY <1>a, <2>2, <4>4 DEF MatchWait, TimedOut
          <5>2. matches'[m].timer < TimeoutTicks
            BY <2>2, <5>1
          <5> QED
            BY <4>2, <5>2
        <4> QED
          BY <3>2, <4>3, <4>4
      <3> QED
        BY <1>10, <3>1, <3>2
    <2>4. \A i \in DOMAIN matches' :
             Age(i)' <= matches'[i].timer + (IF i \in todo' THEN 1 ELSE 0)
      BY <1>0, <1>a, <2>1, <2>2 DEF IdInv, Age
    <2> QED
      BY <1>0, <2>1, <2>2, <2>3, <2>4 DEF IdInv, NoIdCollision
  <1>11. ASSUME NEW m \in MatchIds, MatchReady(m) \/ MatchTimeout(m)
         PROVE  IdInv'
    BY <1>1, <1>11 DEF MatchReady, MatchTimeout, Updating, Erase, Restrict
  <1>12. CASE EndTick
    BY <1>0, <1>1, <1>12 DEF EndTick
  <1>13. CASE UNCHANGED vars
    BY <1>0, <1>13 DEF vars, IdInv, Age, NoIdCollision
  <1> QED
    BY <1>2, <1>3, <1>4, <1>5, <1>6, <1>7, <1>8, <1>9, <1>10, <1>11, <1>12, <1>13
    DEF Next, Packet, Loop, UpdateMatch, MatchRequestPacket, MatchCancelPacket, IntroSuccessPacket

-----------------------------------------------------------------------------
(***************************************************************************)
(* Every step keeps the acknowledgements to what clients reported.         *)
(***************************************************************************)

(* GetPlayerId returns the slot whose connection is the client's, or none. *)
LEMMA GetPlayerIdFinds ==
    ASSUME NEW match, NEW client,
           \A i, j \in Slots :
              match.conn[i].sessionId = client /\ match.conn[j].sessionId = client => i = j
    PROVE  \/ GetPlayerId(match, client) = -1
           \/ /\ GetPlayerId(match, client) \in Slots
              /\ match.conn[GetPlayerId(match, client)].sessionId = client
  <1> DEFINE hits == {i \in Slots : match.conn[i].sessionId = client}
  <1>1. GetPlayerId(match, client) = IF hits = {} THEN -1 ELSE Min(hits)
    BY DEF GetPlayerId
  <1>2. SUFFICES ASSUME hits # {}
                 PROVE  /\ GetPlayerId(match, client) \in Slots
                        /\ match.conn[GetPlayerId(match, client)].sessionId = client
    BY <1>1
  <1>3. PICK i \in hits : TRUE
    BY <1>2
  <1>4. hits = {i}
    BY <1>3
  <1>5. i \in Int
    BY <1>3, SizeAssumption DEF Slots
  <1> HIDE DEF hits
  <1>6. Min(hits) = i
    BY <1>4, <1>5, MinOfOne
  <1>7. GetPlayerId(match, client) = i
    BY <1>1, <1>2, <1>6
  <1> QED
    BY <1>3, <1>7 DEF hits

(* Handling a success sets no bit but the one of a player who reported it. *)
LEMMA IntroResultAcks ==
    ASSUME IInv, HandleIntroResult, NEW m \in DOMAIN matches, NEW i \in Slots,
           matches'[m].peerAck[i]
    PROVE  <<matches[m].players[i].sessionId, m>> \in reported
  <1>0. TypeOK /\ FullRoster /\ AckInv
    BY DEF IInv
  <1> DEFINE cmd == Head(MatchRequestQueue)
             client == cmd.sessionId
             n == cmd.matchId
             idx == IF n \in DOMAIN matches THEN GetPlayerId(matches[n], client) ELSE -1
  <1>1. matches' = IF idx < 0 THEN matches ELSE [matches EXCEPT ![n].peerAck[idx] = TRUE]
    BY DEF HandleIntroResult
  <1>2. /\ cmd \in MatchRequestCommand /\ cmd.action = "Success"
        /\ cmd = MatchRequestQueue[1] /\ 1 \in 1 .. Len(MatchRequestQueue)
    BY <1>0, HandlingType DEF HandleIntroResult, Handling
  <1>3. client \in Sessions
    BY <1>2 DEF MatchRequestCommand
  <1>4. n \in DOMAIN matches => <<client, n>> \in reported
    BY <1>0, <1>2 DEF AckInv
  <1>5. matches[m] \in Match
    BY <1>0 DEF TypeOK
  <1> HIDE DEF client, n, idx, cmd
  <1>6. CASE matches[m].peerAck[i]
    BY <1>0, <1>6 DEF AckInv, AcksAreReported
  <1>7. CASE ~matches[m].peerAck[i]
    <2>1. ~(idx < 0) /\ m = n
      BY <1>1, <1>7
    <2>2. matches'[m].peerAck = [matches[m].peerAck EXCEPT ![idx] = TRUE]
      BY <1>1, <1>5, <2>1 DEF Match
    <2>3. i = idx
      BY <1>5, <1>7, <2>2 DEF Match
    <2>4. idx = GetPlayerId(matches[m], client) /\ idx >= 0
      BY <2>1, <2>3, SizeAssumption DEF idx, Slots
    <2>a. \A j \in Slots : matches[m].conn[j].sessionId = client =>
                            matches[m].players[j].sessionId = client
      <3>1. CASE matches[m].state = "Init"
        <4>1. matches[m].conn = [j \in Slots |-> NoConnection]
          BY <1>0, <3>1 DEF AckInv
        <4>2. NoConnection.sessionId # client
          BY <1>3, SessionAssumption DEF NoConnection
        <4> QED
          BY <4>1, <4>2
      <3>2. CASE matches[m].state # "Init"
        <4>1. matches[m].conn = CollectNetConnection(matches[m].players)
          BY <1>0, <3>2 DEF AckInv
        <4> QED
          BY <4>1 DEF CollectNetConnection
      <3> QED
        BY <3>1, <3>2
    <2>5. \A j, k \in Slots :
             matches[m].conn[j].sessionId = client /\ matches[m].conn[k].sessionId = client => j = k
      <3>1. \A j, k \in Slots :
               matches[m].players[j].sessionId = matches[m].players[k].sessionId => j = k
        BY <1>0 DEF FullRoster
      <3> QED
        BY <2>a, <3>1
    <2>6. matches[m].conn[i].sessionId = client
      BY <2>3, <2>4, <2>5, GetPlayerIdFinds
    <2>7. matches[m].players[i].sessionId = client
      BY <2>a, <2>6
    <2> QED
      BY <1>4, <2>1, <2>7
  <1> QED
    BY <1>6, <1>7

LEMMA AckNext == IInv /\ [Next]_vars => AckInv'
  <1> SUFFICES ASSUME IInv, [Next]_vars PROVE AckInv'
    OBVIOUS
  <1> USE SizeAssumption
  <1>0. TypeOK /\ ContextInv /\ AckInv
    BY DEF IInv
  <1> DEFINE Reported(q) ==
        \A k \in 1 .. Len(q) :
           q[k].action = "Success" /\ q[k].matchId \in DOMAIN matches =>
             <<q[k].sessionId, q[k].matchId>> \in reported
  <1>a. Reported(MatchRequestQueue)
    BY <1>0 DEF AckInv
  <1>1. CASE UNCHANGED matches /\ reported \subseteq reported' /\
             \A k \in 1 .. Len(MatchRequestQueue') :
                LET cmd == MatchRequestQueue'[k]
                IN  cmd.action = "Success" /\ cmd.matchId \in DOMAIN matches =>
                      <<cmd.sessionId, cmd.matchId>> \in reported'
    BY <1>0, <1>1 DEF AckInv, AcksAreReported
  <1>2. ASSUME NEW cmd \in MatchRequestCommand, Submit(cmd), reported \subseteq reported',
               Len(MatchRequestQueue) < RequestQueueCap /\ cmd.action = "Success"
                 /\ cmd.matchId \in DOMAIN matches =>
                   <<cmd.sessionId, cmd.matchId>> \in reported'
        PROVE  AckInv'
    <2>1. MatchRequestQueue' = IF Len(MatchRequestQueue) < RequestQueueCap
                               THEN Append(MatchRequestQueue, cmd) ELSE MatchRequestQueue
      BY <1>0, <1>2, EmplaceOne DEF Submit, TypeOK
    <2>2. MatchRequestQueue \in Seq(MatchRequestCommand)
      BY <1>0 DEF TypeOK
    <2>3. matches' = matches
      BY <1>2 DEF Submit
    <2>4. CASE Len(MatchRequestQueue) < RequestQueueCap
      <3>1. /\ Len(MatchRequestQueue') = Len(MatchRequestQueue) + 1
            /\ \A k \in 1 .. Len(MatchRequestQueue) : MatchRequestQueue'[k] = MatchRequestQueue[k]
            /\ MatchRequestQueue'[Len(MatchRequestQueue) + 1] = cmd
            /\ Len(MatchRequestQueue) \in Nat
        BY <2>1, <2>2, <2>4, AppendProperties
      <3>2. \A k \in 1 .. Len(MatchRequestQueue') :
               k \in 1 .. Len(MatchRequestQueue) \/ k = Len(MatchRequestQueue) + 1
        BY <3>1
      <3> QED
        BY <1>a, <1>1, <1>2, <2>3, <2>4, <3>1, <3>2
    <2>5. CASE ~(Len(MatchRequestQueue) < RequestQueueCap)
      BY <1>a, <1>1, <1>2, <2>1, <2>3, <2>5
    <2> QED
      BY <2>4, <2>5
  <1>3. ASSUME NEW s \in Sessions,
               (\E a \in Addresses : MatchRequestPacket(s, a)) \/ MatchCancelPacket(s)
        PROVE  AckInv'
    <2>1. PICK cmd \in MatchRequestCommand :
             Submit(cmd) /\ cmd.action # "Success" /\ reported' = reported
      BY <1>3 DEF MatchRequestPacket, MatchCancelPacket, MatchRequestCommand
    <2> QED
      BY <1>2, <2>1
  <1>4. ASSUME NEW s \in Sessions, NEW m \in MatchIds, IntroSuccessPacket(s, m)
        PROVE  AckInv'
    <2> DEFINE cmd == [action |-> "Success", sessionId |-> s, matchId |-> m]
    <2>1. cmd \in MatchRequestCommand /\ Submit(cmd)
      BY <1>4 DEF IntroSuccessPacket, MatchRequestCommand
    <2>2. reported' = IF m \in DOMAIN matches /\ Len(MatchRequestQueue) < RequestQueueCap
                      THEN reported \cup {<<s, m>>} ELSE reported
      BY <1>4 DEF IntroSuccessPacket
    <2> QED
      BY <1>2, <2>1, <2>2
  <1>5. CASE UNCHANGED <<matches, reported, MatchRequestQueue>>
    BY <1>a, <1>1, <1>5
  <1>6. CASE HandleEnqueue \/ HandleCancel
    <2>1. \A k \in 1 .. Len(MatchRequestQueue') :
             k + 1 \in 1 .. Len(MatchRequestQueue) /\ MatchRequestQueue'[k] = MatchRequestQueue[k + 1]
      BY <1>0, <1>6, HandlingType DEF HandleEnqueue, HandleCancel
    <2> QED
      BY <1>a, <1>1, <1>6, <2>1 DEF HandleEnqueue, HandleCancel, Handling
  <1>7. CASE HandleIntroResult
    <2>1. \A k \in 1 .. Len(MatchRequestQueue') :
             k + 1 \in 1 .. Len(MatchRequestQueue) /\ MatchRequestQueue'[k] = MatchRequestQueue[k + 1]
      BY <1>0, <1>7, HandlingType DEF HandleIntroResult
    <2>2. reported' = reported
      BY <1>7 DEF HandleIntroResult, Handling
    <2>3. /\ DOMAIN matches' = DOMAIN matches
          /\ \A i \in DOMAIN matches :
                /\ matches'[i].players = matches[i].players
                /\ matches'[i].conn = matches[i].conn
                /\ matches'[i].state = matches[i].state
      BY <1>0, <1>7, IntroResultKeeps
    <2>4. AcksAreReported'
      BY <1>7, <2>2, <2>3, IntroResultAcks DEF AcksAreReported
    <2>5. \A k \in 1 .. Len(MatchRequestQueue') :
             LET cmd == MatchRequestQueue'[k]
             IN  cmd.action = "Success" /\ cmd.matchId \in DOMAIN matches' =>
                   <<cmd.sessionId, cmd.matchId>> \in reported'
      BY <1>a, <2>1, <2>2, <2>3
    <2>6. \A m \in DOMAIN matches' :
             matches'[m].conn = IF matches'[m].state = "Init"
                                THEN [i \in Slots |-> NoConnection]
                                ELSE CollectNetConnection(matches'[m].players)
      BY <1>0, <2>3 DEF AckInv
    <2> QED
      BY <2>4, <2>5, <2>6 DEF AckInv
  <1>8. CASE AddMatch
    <2>1. /\ MatchRequestQueue' = <<>> /\ reported' = reported
          /\ matches' = TryEmplace(matches, [m \in {ctx.matchId} |-> NewMatch(ctx.players)])
      BY <1>0, <1>8 DEF AddMatch, ContextInv
    <2> DEFINE new == NewMatch(ctx.players)
    <2>2. new.state = "Init" /\ new.conn = [i \in Slots |-> NoConnection]
          /\ \A i \in Slots : ~new.peerAck[i]
      BY DEF NewMatch
    <2> HIDE DEF new
    <2>3. /\ DOMAIN matches' = DOMAIN matches \cup {ctx.matchId}
          /\ \A m \in DOMAIN matches' :
                matches'[m] = IF m \in DOMAIN matches THEN matches[m] ELSE new
      BY <2>1 DEF TryEmplace, new
    <2>4. Len(MatchRequestQueue') = 0
      BY <2>1
    <2>5. AcksAreReported'
      BY <1>0, <2>1, <2>2, <2>3 DEF AckInv, AcksAreReported
    <2> QED
      BY <1>0, <2>2, <2>3, <2>4, <2>5 DEF AckInv
  <1>9. ASSUME NEW m \in MatchIds, MatchInit(m) \/ MatchSendInfo(m) \/ MatchWait(m)
        PROVE  AckInv'
    <2>1. /\ MatchRequestQueue' = <<>> /\ reported' = reported
      BY <1>0, <1>9 DEF MatchInit, MatchSendInfo, MatchWait, Updating, ContextInv
    <2>2. /\ m \in DOMAIN matches
          /\ DOMAIN matches' = DOMAIN matches
          /\ \A i \in DOMAIN matches : i # m => matches'[i] = matches[i]
          /\ \A i \in DOMAIN matches : matches'[i].players = matches[i].players
          /\ \A i \in DOMAIN matches : matches'[i].peerAck = matches[i].peerAck
      BY <1>0, <1>9, AdvancingKeeps
    <2>3. /\ matches'[m].state # "Init"
          /\ matches'[m].conn = CollectNetConnection(matches[m].players)
      <3>1. CASE MatchInit(m)
        BY <1>0, <3>1, InitMatch
      <3>2. CASE MatchSendInfo(m) \/ MatchWait(m)
        <4>1. matches' = Advance(m, "WaitPeerReady") /\ "WaitPeerReady" \in MatchState
              /\ matches[m].state # "Init"
          BY <3>2 DEF MatchSendInfo, MatchWait, MatchState
        <4>2. matches'[m].state = "WaitPeerReady" /\ matches'[m].conn = matches[m].conn
          BY <1>0, <2>2, <4>1, AdvanceMatch
        <4>3. matches[m].conn = CollectNetConnection(matches[m].players)
          BY <1>0, <2>2, <4>1 DEF AckInv
        <4> QED
          BY <4>2, <4>3
      <3> QED
        BY <1>9, <3>1, <3>2
    <2>4. AcksAreReported'
      BY <1>0, <2>1, <2>2 DEF AckInv, AcksAreReported
    <2>5. \A i \in DOMAIN matches' :
             matches'[i].conn = IF matches'[i].state = "Init"
                                THEN [j \in Slots |-> NoConnection]
                                ELSE CollectNetConnection(matches'[i].players)
      BY <1>0, <2>2, <2>3 DEF AckInv
    <2>6. Len(MatchRequestQueue') = 0
      BY <2>1
    <2> QED
      BY <2>4, <2>5, <2>6 DEF AckInv
  <1>10. ASSUME NEW m \in MatchIds, MatchReady(m) \/ MatchTimeout(m)
         PROVE  AckInv'
    <2>1. MatchRequestQueue' = <<>>
      BY <1>0, <1>10 DEF MatchReady, MatchTimeout, Updating, ContextInv
    <2>2. /\ DOMAIN matches' = DOMAIN matches \ {m}
          /\ \A i \in DOMAIN matches' : matches'[i] = matches[i]
          /\ reported' = {p \in reported : p[2] # m}
      BY <1>10 DEF MatchReady, MatchTimeout, Erase, Restrict
    <2>3. \A s, i : <<s, i>> \in reported /\ i # m => <<s, i>> \in reported'
      BY <2>2
    <2>4. AcksAreReported'
      BY <1>0, <2>2, <2>3 DEF AckInv, AcksAreReported
    <2>5. Len(MatchRequestQueue') = 0
      BY <2>1
    <2> QED
      BY <1>0, <2>2, <2>4, <2>5 DEF AckInv
  <1>11. CASE \/ ProcessNetSendRequest \/ SkipCreation \/ CreateMatchContext
              \/ \E e \in DOMAIN pq : PopDeleted(e) \/ PopPlayer(e)
              \/ EndTick \/ UNCHANGED vars
    <2>1. UNCHANGED <<matches, reported, MatchRequestQueue>>
      BY <1>11 DEF vars, ProcessNetSendRequest, SkipCreation, CreateMatchContext, PopDeleted,
                   PopPlayer, Popping, EndTick
    <2> QED
      BY <1>5, <2>1
  <1> QED
    BY <1>3, <1>4, <1>6, <1>7, <1>8, <1>9, <1>10, <1>11
    DEF Next, Packet, Loop, UpdateMatch

-----------------------------------------------------------------------------
(***************************************************************************)
(* The theorems.                                                           *)
(***************************************************************************)

(* IInv holds in every reachable state. *)
LEMMA Invariance == Spec => []IInv
  <1>1. IInv /\ [Next]_vars => IInv'
    BY TypeNext, HeapNext, RosterNext, ContextNext, IdNext, AckNext DEF IInv
  <1> QED
    BY InitInv, <1>1, PTL DEF Spec

(* Every variable keeps its type: no queue outgrows its ring, and no request
   has more than MaxRetry retries (the test and increment of ReQueing). *)
THEOREM TypeCorrect == Spec => []TypeOK
  <1>1. IInv => TypeOK
    BY DEF IInv
  <1> QED
    BY Invariance, <1>1, PTL

(* The request of every waiting session is in the heap, however HandleEnqueue,
   HandleCancel, GetMatchRequestFromPQ and ReQueing interleave. *)
THEOREM WaitingAreQueued == Spec => []LiveRequestsQueued
  <1>1. IInv => LiveRequestsQueued
    BY DEF IInv
  <1> QED
    BY Invariance, <1>1, PTL

(* CreateMatchContext fills every slot, with distinct sessions. *)
THEOREM MatchesAreFull == Spec => []FullRoster
  <1>1. IInv => FullRoster
    BY DEF IInv
  <1> QED
    BY Invariance, <1>1, PTL

(* nextMatchID_ never wraps onto the id of a match that is still there. *)
THEOREM IdsDoNotCollide == Spec => []NoIdCollision
  <1>1. IInv => NoIdCollision
    BY DEF IInv, IdInv
  <1> QED
    BY Invariance, <1>1, PTL

(* SetPeerAck sets only the bit of a player who reported success for this
   very match. *)
THEOREM AcksAreTrue == Spec => []AcksAreReported
  <1>1. IInv => AcksAreReported
    BY DEF IInv, AckInv
  <1> QED
    BY Invariance, <1>1, PTL

(* MATCH_START leaves Match::Update only for a match all of whose players
   reported success. *)
THEOREM StartsAreEarned == Spec => StartsOnlyReportedMatches
  <1> DEFINE Earned ==
        \A k \in Len(NetSendRequestQueue) + 1 .. Len(NetSendRequestQueue') :
          NetSendRequestQueue'[k].type = "MATCH_START" =>
            \E m \in DOMAIN matches \ DOMAIN matches' :
              /\ NetSendRequestQueue'[k].sessionId \in SessionsOf(matches[m].players)
              /\ \A s \in SessionsOf(matches[m].players) : <<s, m>> \in reported
  <1>1. ASSUME IInv, [Next]_vars PROVE Earned
    <2> USE SizeAssumption
    <2>0. TypeOK /\ AcksAreReported /\ FullRoster
      BY <1>1 DEF IInv, AckInv
    <2>1. Len(NetSendRequestQueue) \in Nat
      BY <2>0 DEF TypeOK
    <2>2. CASE UNCHANGED NetSendRequestQueue
      BY <2>1, <2>2
    <2>3. CASE ProcessNetSendRequest
      <3>1. Len(NetSendRequestQueue') = 0
        BY <2>3 DEF ProcessNetSendRequest
      <3> QED
        BY <2>1, <3>1
    <2>4. ASSUME NEW m \in MatchIds, MatchSendInfo(m) PROVE Earned
      <3>1. m \in DOMAIN matches
        BY <2>0, <2>4 DEF MatchSendInfo, Updating, TypeOK
      <3>2. IntroPackets(m) \in Seq(SendRequestCommand)
        BY <2>0, <3>1, IntroPacketsType
      <3>3. \A k \in Len(NetSendRequestQueue) + 1 .. Len(NetSendRequestQueue') :
               /\ k - Len(NetSendRequestQueue) \in 1 .. Len(IntroPackets(m))
               /\ NetSendRequestQueue'[k] = IntroPackets(m)[k - Len(NetSendRequestQueue)]
        BY <2>0, <2>4, <3>2, EmplaceAllType DEF MatchSendInfo, TypeOK
      <3>4. \A j \in 1 .. Len(IntroPackets(m)) : IntroPackets(m)[j].type # "MATCH_START"
        BY <2>0, <3>1, IntroPacketsType DEF IntroPackets
      <3> QED
        BY <3>3, <3>4
    <2>5. ASSUME NEW m \in MatchIds, MatchReady(m) PROVE Earned
      <3>1. m \in DOMAIN matches
        BY <2>0, <2>5 DEF MatchReady, Updating, TypeOK
      <3>2. StartPackets(m) \in Seq(SendRequestCommand)
        BY <2>0, <3>1, StartPacketsType
      <3>3. \A k \in Len(NetSendRequestQueue) + 1 .. Len(NetSendRequestQueue') :
               /\ k - Len(NetSendRequestQueue) \in 1 .. Len(StartPackets(m))
               /\ NetSendRequestQueue'[k] = StartPackets(m)[k - Len(NetSendRequestQueue)]
        BY <2>0, <2>5, <3>2, EmplaceAllType DEF MatchReady, TypeOK
      <3>4. \A k \in 1 .. Len(StartPackets(m)) :
               StartPackets(m)[k].sessionId \in SessionsOf(matches[m].players)
        BY DEF StartPackets, SessionsOf, Slots
      <3>5. \A s \in SessionsOf(matches[m].players) : <<s, m>> \in reported
        BY <2>0, <2>5, <3>1 DEF MatchReady, AllAcked, AcksAreReported, SessionsOf
      <3>6. m \in DOMAIN matches \ DOMAIN matches'
        BY <2>5, <3>1 DEF MatchReady, Erase, Restrict
      <3> QED
        BY <3>3, <3>4, <3>5, <3>6
    <2> HIDE DEF Earned
    <2> QED
      BY <1>1, <2>2, <2>3, <2>4, <2>5
      DEF Next, Packet, Loop, UpdateMatch, vars, MatchRequestPacket, MatchCancelPacket,
          IntroSuccessPacket, Submit, HandleEnqueue, HandleCancel, HandleIntroResult, Handling,
          SkipCreation, CreateMatchContext, PopDeleted, PopPlayer, Popping, AddMatch, EndTick,
          MatchInit, MatchWait, MatchTimeout
  <1>2. IInv /\ [Next]_vars => [Earned]_vars
    BY <1>1
  <1> QED
    BY Invariance, <1>2, PTL DEF Spec, StartsOnlyReportedMatches

(* GetMatchRequestFromPQ picks a player whom no waiting session outranks: this
   rests on the request of every waiting session being in the heap. *)
THEOREM PriorityIsServed == Spec => PriorityServed
  <1> DEFINE Served ==
        ctx'.slot = ctx.slot + 1 =>
          LET picked == ctx'.players[ctx.slot]
          IN  \A s \in DOMAIN requests' :
                /\ requests'[s].retryCount <= picked.retryCount
                /\ requests'[s].retryCount = picked.retryCount =>
                      requests'[s].enqueueTime >= picked.enqueueTime
  <1>1. ASSUME IInv, [Next]_vars PROVE Served
    <2>0. TypeOK /\ LiveRequestsQueued /\ ContextInv
      BY <1>1 DEF IInv
    <2>a. ctx \in MatchContext /\ ctx.slot \in Nat
      BY <2>0 DEF TypeOK, MatchContext
    <2>1. CASE UNCHANGED ctx
      BY <2>a, <2>1
    <2>2. CASE CreateMatchContext \/ AddMatch
      <3>1. ctx'.slot = 0
        BY <2>2 DEF CreateMatchContext, AddMatch, NoContext
      <3> QED
        BY <2>a, <3>1
    <2>3. ASSUME NEW e \in DOMAIN pq, PopPlayer(e) PROVE Served
      <3>1. ctx.slot \in Slots
        BY <2>a, <2>3, SizeAssumption DEF PopPlayer, Popping, Slots
      <3>2. ctx' = [ctx EXCEPT !.players[ctx.slot] = e, !.slot = ctx.slot + 1]
        BY <2>3 DEF PopPlayer
      <3>3. ctx'.players[ctx.slot] = e
        <4>1. ctx'.players = [ctx.players EXCEPT ![ctx.slot] = e]
          BY <2>a, <3>2 DEF MatchContext
        <4> QED
          BY <2>a, <3>1, <4>1 DEF MatchContext, Players
      <3>4. \A s \in DOMAIN requests' :
               s \in DOMAIN requests /\ requests'[s] = requests[s] /\ requests[s] \in DOMAIN pq
        BY <2>0, <2>3 DEF PopPlayer, EraseRequest, Restrict, LiveRequestsQueued
      <3>5. \A f \in DOMAIN pq : ~Compare(e, f)
        BY <2>3 DEF PopPlayer, Popping, IsTop
      <3>6. \A f \in DOMAIN pq :
               f.retryCount \in Int /\ f.enqueueTime \in Int
        BY <2>0, SizeAssumption DEF TypeOK, MatchRequest
      <3>7. \A f \in DOMAIN pq :
               /\ f.retryCount <= e.retryCount
               /\ f.retryCount = e.retryCount => f.enqueueTime >= e.enqueueTime
        BY <3>5, <3>6 DEF Compare
      <3> QED
        BY <3>3, <3>4, <3>7
    <2> HIDE DEF Served
    <2> QED
      BY <1>1, <2>1, <2>2, <2>3
      DEF Next, Packet, Loop, UpdateMatch, vars, MatchRequestPacket, MatchCancelPacket,
          IntroSuccessPacket, Submit, HandleEnqueue, HandleCancel, HandleIntroResult, Handling,
          SkipCreation, PopDeleted, EndTick, ProcessNetSendRequest,
          MatchInit, MatchSendInfo, MatchWait, MatchReady, MatchTimeout, Updating
  <1>2. IInv /\ [Next]_vars => [Served]_vars
    BY <1>1
  <1> QED
    BY Invariance, <1>2, PTL DEF Spec, PriorityServed

-----------------------------------------------------------------------------
(***************************************************************************)
(* What a tick sends, and why no player is forgotten.                      *)
(***************************************************************************)

(* The queue of the packets holds what one tick can put into it: 129 for the
   256 of the code with matches of one player. *)
SendQueueSuffices == (RequestQueueCap + 1) * MaxMatchPlayer <= SendQueueCap

(* The slots of the context that are still open hold nobody. *)
BlankInv == \A i \in Slots : i >= ctx.slot => ctx.players[i] = Uninit

(* Who reported success was introduced, whoever was introduced is in a match
   that waits for its peers, and an intro in the queue is of such a match,
   which this tick will not advance again. *)
IntroInv ==
    /\ reported \subseteq introduced
    /\ \A p \in introduced :
          p[2] \in DOMAIN matches /\ matches[p[2]].state = "WaitPeerReady"
    /\ phase \in {"Requests", "Fill"} => NetSendRequestQueue = <<>>
    /\ \A k \in 1 .. Len(NetSendRequestQueue) :
          LET cmd == NetSendRequestQueue[k]
          IN  cmd.type = "MATCH_INTRO" =>
                /\ cmd.matchId \in DOMAIN matches
                /\ matches[cmd.matchId].state = "WaitPeerReady"
                /\ cmd.matchId \notin todo

(* At most one match is made in a tick, so at most one waits for its first
   tick and at most one for its second. *)
OneByOne ==
    \A m, n \in DOMAIN matches :
        /\ matches[m].state = "Init" => m \in todo
        /\ matches[m].state = "Init" /\ matches[n].state = "Init" => m = n
        /\ matches[m].state = "Init" /\ matches[n].state = "InfoSent" => n \in todo
        /\ matches[m].state = "InfoSent" /\ matches[n].state = "InfoSent"
              /\ (m \in todo <=> n \in todo) => m = n

Acked == {m \in DOMAIN matches : AllAcked(m)}

Intros == IF \E m \in todo : matches[m].state = "InfoSent" THEN 1 ELSE 0

(* Each match that will start in this tick took a report from the command
   queue in this tick, and one match is introduced: what the tick can send. *)
BudgetInv ==
    /\ phase = "Network" => Acked = {}
    /\ phase \in {"Requests", "Fill"} =>
          Cardinality(Acked) + Len(MatchRequestQueue) <= RequestQueueCap
    /\ phase = "Results" =>
          /\ Acked \subseteq todo
          /\ Len(NetSendRequestQueue) + (Cardinality(Acked) + Intros) * MaxMatchPlayer
                <= (RequestQueueCap + 1) * MaxMatchPlayer

SendInv ==
    BlankInv /\ IntroInv /\ OneByOne /\ BudgetInv /\ IntroReachesPlayers /\ NobodyForgotten

(* When all packets fit, all of them are queued behind the others. *)
LEMMA EmplaceAllFits ==
    ASSUME NEW T, NEW q \in Seq(T), NEW msgs \in Seq(T), NEW cap \in Nat,
           Len(q) + Len(msgs) <= cap
    PROVE  LET new == EmplaceAll(q, msgs, cap)
           IN  /\ Len(new) = Len(q) + Len(msgs)
               /\ \A k \in 1 .. Len(q) : new[k] = q[k]
               /\ \A k \in 1 .. Len(msgs) : new[Len(q) + k] = msgs[k]
  <1>1. Len(q) \in Nat /\ Len(msgs) \in Nat
    BY LenProperties
  <1>2. Min({Len(msgs), cap - Len(q)}) = Len(msgs)
    BY <1>1, MinOfTwo
  <1>3. SubSeq(msgs, 1, Len(msgs)) = msgs
    BY SubSeqFull
  <1>4. EmplaceAll(q, msgs, cap) = q \o msgs
    BY <1>2, <1>3 DEF EmplaceAll
  <1>5. /\ Len(q \o msgs) = Len(q) + Len(msgs)
        /\ \A k \in 1 .. Len(q) + Len(msgs) : (q \o msgs)[k] =
              IF k <= Len(q) THEN q[k] ELSE msgs[k - Len(q)]
    BY ConcatProperties
  <1>6. \A k \in 1 .. Len(q) : k \in 1 .. Len(q) + Len(msgs) /\ k <= Len(q)
    BY <1>1
  <1>7. \A k \in 1 .. Len(msgs) :
           /\ Len(q) + k \in 1 .. Len(q) + Len(msgs)
           /\ ~(Len(q) + k <= Len(q)) /\ (Len(q) + k) - Len(q) = k
    BY <1>1
  <1> QED
    BY <1>4, <1>5, <1>6, <1>7

LEMMA AckedFinite ==
    ASSUME TypeOK
    PROVE  IsFiniteSet(Acked) /\ Cardinality(Acked) \in Nat
  <1>1. IsFiniteSet(MatchIds)
    BY MatchIdAssumption, FS_Interval DEF MatchIds
  <1>2. Acked \in SUBSET MatchIds
    BY DEF Acked, TypeOK
  <1> QED
    BY <1>1, <1>2, FS_Subset, FS_CardinalityType

(* Removing a match that was acknowledged, or adding at most one. *)
LEMMA AckedLess ==
    ASSUME TypeOK, NEW m \in Acked
    PROVE  Cardinality(Acked \ {m}) = Cardinality(Acked) - 1 /\ Cardinality(Acked) >= 1
  <1>1. IsFiniteSet(Acked) /\ Cardinality(Acked) \in Nat
    BY AckedFinite
  <1>2. IsFiniteSet(Acked \ {m}) /\ Cardinality(Acked \ {m}) = Cardinality(Acked) - 1
    BY <1>1, FS_RemoveElement
  <1>3. Cardinality(Acked \ {m}) \in Nat
    BY <1>2, FS_CardinalityType
  <1> QED
    BY <1>1, <1>2, <1>3

LEMMA AckedMore ==
    ASSUME TypeOK, NEW S, NEW m, S \subseteq Acked \cup {m}
    PROVE  IsFiniteSet(S) /\ Cardinality(S) \in Nat /\ Cardinality(S) <= Cardinality(Acked) + 1
  <1>1. IsFiniteSet(Acked) /\ Cardinality(Acked) \in Nat
    BY AckedFinite
  <1>2. IsFiniteSet(Acked \cup {m}) /\ Cardinality(Acked \cup {m}) <= Cardinality(Acked) + 1
    BY <1>1, FS_AddElement
  <1>3. IsFiniteSet(S) /\ Cardinality(S) <= Cardinality(Acked \cup {m})
    BY <1>2, FS_Subset
  <1>4. Cardinality(S) \in Nat /\ Cardinality(Acked \cup {m}) \in Nat
    BY <1>2, <1>3, FS_CardinalityType
  <1> QED
    BY <1>1, <1>2, <1>3, <1>4

(* While the tick still owes the packets of a match there is room for them,
   and they use up what was reserved. *)
LEMMA Room ==
    ASSUME SendQueueSuffices, NEW n \in Nat, NEW c \in Nat, c >= 1,
           n + c * MaxMatchPlayer <= (RequestQueueCap + 1) * MaxMatchPlayer
    PROVE  /\ n + MaxMatchPlayer <= SendQueueCap
           /\ (n + MaxMatchPlayer) + (c - 1) * MaxMatchPlayer
                 <= (RequestQueueCap + 1) * MaxMatchPlayer
  <1> DEFINE d == c - 1
  <1>1. d \in Nat /\ c = d + 1
    OBVIOUS
  <1>2. MaxMatchPlayer \in Nat /\ RequestQueueCap \in Nat /\ SendQueueCap \in Nat
    BY SizeAssumption
  <1>3. c * MaxMatchPlayer = d * MaxMatchPlayer + MaxMatchPlayer
    BY <1>1, <1>2
  <1>4. d * MaxMatchPlayer \in Nat /\ (RequestQueueCap + 1) * MaxMatchPlayer \in Nat
    BY <1>1, <1>2
  <1> HIDE DEF d
  <1>5. (n + MaxMatchPlayer) + d * MaxMatchPlayer <= (RequestQueueCap + 1) * MaxMatchPlayer
    BY <1>2, <1>3, <1>4
  <1>6. n + MaxMatchPlayer <= SendQueueCap
    BY <1>2, <1>4, <1>5 DEF SendQueueSuffices
  <1> QED
    BY <1>5, <1>6 DEF d

(* Only a match that waits for its peers can be acknowledged. *)
LEMMA AckedAreWaiting ==
    ASSUME IInv, IntroInv, NEW m \in Acked
    PROVE  matches[m].state = "WaitPeerReady"
  <1>1. m \in DOMAIN matches /\ 0 \in Slots /\ matches[m].peerAck[0]
    BY SizeAssumption DEF Acked, AllAcked, Slots
  <1>2. <<matches[m].players[0].sessionId, m>> \in reported
    BY <1>1 DEF IInv, AckInv, AcksAreReported
  <1> QED
    BY <1>2 DEF IntroInv

(* What each step does to the matches, as far as it matters here. *)
LEMMA AddsMatch ==
    ASSUME IInv, AddMatch
    PROVE  /\ ctx.matchId \notin DOMAIN matches
           /\ DOMAIN matches' = DOMAIN matches \cup {ctx.matchId}
           /\ \A m \in DOMAIN matches : matches'[m] = matches[m]
           /\ matches'[ctx.matchId] = NewMatch(ctx.players)
  <1>1. ctx.matchId \notin DOMAIN matches
    BY DEF AddMatch, IInv, IdInv, NoIdCollision
  <1>2. matches' = TryEmplace(matches, [m \in {ctx.matchId} |-> NewMatch(ctx.players)])
    BY DEF AddMatch
  <1> QED
    BY <1>1, <1>2 DEF TryEmplace

LEMMA ErasesMatch ==
    ASSUME NEW m, Erase(m)
    PROVE  /\ DOMAIN matches' = DOMAIN matches \ {m}
           /\ \A n \in DOMAIN matches' : matches'[n] = matches[n]
           /\ introduced' = {p \in introduced : p[2] # m}
           /\ reported' = {p \in reported : p[2] # m}
  BY DEF Erase, Restrict

LEMMA AdvancesMatch ==
    ASSUME TypeOK, NEW m \in MatchIds, MatchSendInfo(m) \/ MatchWait(m)
    PROVE  /\ m \in DOMAIN matches
           /\ matches'[m].state = "WaitPeerReady"
  <1>1. m \in DOMAIN matches /\ matches' = Advance(m, "WaitPeerReady")
    BY DEF MatchSendInfo, MatchWait, Updating, TypeOK
  <1>2. "WaitPeerReady" \in MatchState
    BY DEF MatchState
  <1> QED
    BY <1>1, <1>2, AdvanceMatch

LEMMA AcksOne ==
    ASSUME TypeOK, HandleIntroResult
    PROVE  \A i \in DOMAIN matches :
              i # Head(MatchRequestQueue).matchId => matches'[i] = matches[i]
  BY DEF HandleIntroResult

(* The start packets of an acknowledged match, and the intro packets of one
   in its second tick, all find room. *)
LEMMA StartsFit ==
    ASSUME SendQueueSuffices, IInv, BudgetInv, NEW m \in MatchIds, MatchReady(m)
    PROVE  /\ m \in Acked
           /\ Len(NetSendRequestQueue') = Len(NetSendRequestQueue) + MaxMatchPlayer
           /\ \A k \in 1 .. Len(NetSendRequestQueue) :
                 NetSendRequestQueue'[k] = NetSendRequestQueue[k]
           /\ \A k \in 1 .. MaxMatchPlayer :
                 NetSendRequestQueue'[Len(NetSendRequestQueue) + k] = StartPackets(m)[k]
           /\ Len(NetSendRequestQueue') + (Cardinality(Acked \ {m}) + Intros) * MaxMatchPlayer
                 <= (RequestQueueCap + 1) * MaxMatchPlayer
  <1> DEFINE n == Len(NetSendRequestQueue)
             c == Cardinality(Acked) + Intros
  <1>0. TypeOK /\ FullRoster
    BY DEF IInv
  <1>1. m \in Acked /\ m \in DOMAIN matches
    BY <1>0 DEF MatchReady, Updating, Acked, TypeOK
  <1>2. n + c * MaxMatchPlayer <= (RequestQueueCap + 1) * MaxMatchPlayer
    BY DEF MatchReady, Updating, BudgetInv
  <1>3. /\ Cardinality(Acked) \in Nat /\ Cardinality(Acked) >= 1
        /\ Cardinality(Acked \ {m}) = Cardinality(Acked) - 1
        /\ Intros \in Nat
    BY <1>0, <1>1, AckedFinite, AckedLess DEF Intros
  <1>4. n \in Nat /\ c \in Nat /\ c >= 1 /\ Cardinality(Acked \ {m}) + Intros = c - 1
    BY <1>0, <1>3 DEF TypeOK
  <1> HIDE DEF c, n
  <1>5. /\ n + MaxMatchPlayer <= SendQueueCap
        /\ (n + MaxMatchPlayer) + (c - 1) * MaxMatchPlayer
              <= (RequestQueueCap + 1) * MaxMatchPlayer
    BY <1>2, <1>4, Room
  <1>6. StartPackets(m) \in Seq(SendRequestCommand) /\ Len(StartPackets(m)) = MaxMatchPlayer
    BY <1>0, <1>1, StartPacketsType
  <1>7. /\ NetSendRequestQueue \in Seq(SendRequestCommand) /\ SendQueueCap \in Nat
        /\ NetSendRequestQueue' = EmplaceAll(NetSendRequestQueue, StartPackets(m), SendQueueCap)
    BY <1>0, SizeAssumption DEF MatchReady, TypeOK
  <1>8. /\ Len(NetSendRequestQueue') = n + MaxMatchPlayer
        /\ \A k \in 1 .. n : NetSendRequestQueue'[k] = NetSendRequestQueue[k]
        /\ \A k \in 1 .. MaxMatchPlayer : NetSendRequestQueue'[n + k] = StartPackets(m)[k]
    <2> DEFINE msgs == StartPackets(m)
    <2>1. msgs \in Seq(SendRequestCommand) /\ Len(msgs) = MaxMatchPlayer
      BY <1>6
    <2> HIDE DEF msgs
    <2>2. Len(NetSendRequestQueue) + Len(msgs) <= SendQueueCap
      BY <1>5, <2>1 DEF n
    <2>3. LET new == EmplaceAll(NetSendRequestQueue, msgs, SendQueueCap)
          IN  /\ Len(new) = Len(NetSendRequestQueue) + Len(msgs)
              /\ \A k \in 1 .. Len(NetSendRequestQueue) : new[k] = NetSendRequestQueue[k]
              /\ \A k \in 1 .. Len(msgs) : new[Len(NetSendRequestQueue) + k] = msgs[k]
      BY <1>7, <2>1, <2>2, EmplaceAllFits
    <2>4. NetSendRequestQueue' = EmplaceAll(NetSendRequestQueue, msgs, SendQueueCap)
      BY <1>7 DEF msgs
    <2>5. /\ Len(NetSendRequestQueue') = n + MaxMatchPlayer
          /\ \A k \in 1 .. n : NetSendRequestQueue'[k] = NetSendRequestQueue[k]
          /\ \A k \in 1 .. MaxMatchPlayer : NetSendRequestQueue'[n + k] = msgs[k]
      BY <2>1, <2>3, <2>4 DEF n
    <2> QED
      BY <2>5 DEF msgs
  <1> QED
    BY <1>1, <1>4, <1>5, <1>8 DEF n

LEMMA IntrosFit ==
    ASSUME SendQueueSuffices, IInv, BudgetInv, NEW m \in MatchIds, MatchSendInfo(m)
    PROVE  /\ Len(NetSendRequestQueue') = Len(NetSendRequestQueue) + MaxMatchPlayer
           /\ \A k \in 1 .. Len(NetSendRequestQueue) :
                 NetSendRequestQueue'[k] = NetSendRequestQueue[k]
           /\ \A k \in 1 .. MaxMatchPlayer :
                 NetSendRequestQueue'[Len(NetSendRequestQueue) + k] = IntroPackets(m)[k]
           /\ Len(NetSendRequestQueue') + Cardinality(Acked) * MaxMatchPlayer
                 <= (RequestQueueCap + 1) * MaxMatchPlayer
  <1> DEFINE n == Len(NetSendRequestQueue)
             c == Cardinality(Acked) + Intros
  <1>0. TypeOK /\ FullRoster
    BY DEF IInv
  <1>1. m \in DOMAIN matches /\ Intros = 1
    BY <1>0 DEF MatchSendInfo, Updating, Intros, TypeOK
  <1>2. n + c * MaxMatchPlayer <= (RequestQueueCap + 1) * MaxMatchPlayer
    BY DEF MatchSendInfo, Updating, BudgetInv
  <1>3. n \in Nat /\ c \in Nat /\ c >= 1 /\ Cardinality(Acked) = c - 1
    BY <1>0, <1>1, AckedFinite DEF TypeOK
  <1> HIDE DEF c, n
  <1>5. /\ n + MaxMatchPlayer <= SendQueueCap
        /\ (n + MaxMatchPlayer) + (c - 1) * MaxMatchPlayer
              <= (RequestQueueCap + 1) * MaxMatchPlayer
    BY <1>2, <1>3, Room
  <1>6. IntroPackets(m) \in Seq(SendRequestCommand) /\ Len(IntroPackets(m)) = MaxMatchPlayer
    BY <1>0, <1>1, IntroPacketsType
  <1>7. /\ NetSendRequestQueue \in Seq(SendRequestCommand) /\ SendQueueCap \in Nat
        /\ NetSendRequestQueue' = EmplaceAll(NetSendRequestQueue, IntroPackets(m), SendQueueCap)
    BY <1>0, SizeAssumption DEF MatchSendInfo, TypeOK
  <1>8. /\ Len(NetSendRequestQueue') = n + MaxMatchPlayer
        /\ \A k \in 1 .. n : NetSendRequestQueue'[k] = NetSendRequestQueue[k]
        /\ \A k \in 1 .. MaxMatchPlayer : NetSendRequestQueue'[n + k] = IntroPackets(m)[k]
    <2> DEFINE msgs == IntroPackets(m)
    <2>1. msgs \in Seq(SendRequestCommand) /\ Len(msgs) = MaxMatchPlayer
      BY <1>6
    <2> HIDE DEF msgs
    <2>2. Len(NetSendRequestQueue) + Len(msgs) <= SendQueueCap
      BY <1>5, <2>1 DEF n
    <2>3. LET new == EmplaceAll(NetSendRequestQueue, msgs, SendQueueCap)
          IN  /\ Len(new) = Len(NetSendRequestQueue) + Len(msgs)
              /\ \A k \in 1 .. Len(NetSendRequestQueue) : new[k] = NetSendRequestQueue[k]
              /\ \A k \in 1 .. Len(msgs) : new[Len(NetSendRequestQueue) + k] = msgs[k]
      BY <1>7, <2>1, <2>2, EmplaceAllFits
    <2>4. NetSendRequestQueue' = EmplaceAll(NetSendRequestQueue, msgs, SendQueueCap)
      BY <1>7 DEF msgs
    <2>5. /\ Len(NetSendRequestQueue') = n + MaxMatchPlayer
          /\ \A k \in 1 .. n : NetSendRequestQueue'[k] = NetSendRequestQueue[k]
          /\ \A k \in 1 .. MaxMatchPlayer : NetSendRequestQueue'[n + k] = msgs[k]
      BY <2>1, <2>3, <2>4 DEF n
    <2> QED
      BY <2>5 DEF msgs
  <1> QED
    BY <1>3, <1>5, <1>8 DEF n

-----------------------------------------------------------------------------
(***************************************************************************)
(* Every step preserves the parts of SendInv.                              *)
(***************************************************************************)
LEMMA BlankNext == IInv /\ BlankInv /\ [Next]_vars => BlankInv'
  <1> SUFFICES ASSUME IInv, BlankInv, [Next]_vars PROVE BlankInv'
    OBVIOUS
  <1>0. ctx \in MatchContext /\ ctx.slot \in Nat /\ MaxMatchPlayer \in Nat
    BY SizeAssumption DEF IInv, TypeOK, MatchContext
  <1>1. CASE UNCHANGED ctx
    BY <1>1 DEF BlankInv
  <1>2. CASE CreateMatchContext
    <2>1. \A i \in Slots : ctx'.players[i] = Uninit
      BY <1>2 DEF CreateMatchContext, NoContext
    <2> QED
      BY <2>1 DEF BlankInv
  <1>3. CASE AddMatch
    BY <1>3 DEF AddMatch, NoContext, BlankInv
  <1>4. ASSUME NEW e \in DOMAIN pq, PopPlayer(e)
        PROVE  BlankInv'
    <2>1. ctx' = [ctx EXCEPT !.players[ctx.slot] = e, !.slot = ctx.slot + 1]
      BY <1>4 DEF PopPlayer
    <2>2. /\ ctx'.slot = ctx.slot + 1
          /\ ctx'.players = [ctx.players EXCEPT ![ctx.slot] = e]
      BY <1>0, <2>1 DEF MatchContext
    <2>3. \A i \in Slots : i # ctx.slot => ctx'.players[i] = ctx.players[i]
      BY <1>0, <2>2 DEF MatchContext, Players
    <2> QED
      BY <1>0, <2>2, <2>3 DEF BlankInv, Slots
  <1> QED
    BY <1>1, <1>2, <1>3, <1>4
    DEF Next, Packet, Loop, UpdateMatch, vars, MatchRequestPacket, MatchCancelPacket,
        IntroSuccessPacket, Submit, ProcessNetSendRequest, HandleEnqueue, HandleCancel,
        HandleIntroResult, Handling, SkipCreation, PopDeleted, Popping, EndTick, MatchInit,
        MatchSendInfo, MatchWait, MatchReady, MatchTimeout, Updating

LEMMA OneByOneNext == IInv /\ OneByOne /\ [Next]_vars => OneByOne'
  <1> SUFFICES ASSUME IInv, OneByOne, [Next]_vars PROVE OneByOne'
    OBVIOUS
  <1>0. TypeOK /\ ContextInv
    BY DEF IInv
  <1>1. CASE UNCHANGED <<matches, todo>>
    BY <1>1 DEF OneByOne
  <1>2. CASE HandleIntroResult
    <2>1. todo' = todo
      BY <1>2 DEF HandleIntroResult, Handling
    <2> QED
      BY <1>0, <1>2, <2>1, IntroResultKeeps DEF OneByOne
  <1>3. CASE SkipCreation
    <2>1. matches' = matches /\ todo' = DOMAIN matches /\ todo = {}
      BY <1>0, <1>3 DEF SkipCreation, RequestsHandled, ContextInv
    <2> QED
      BY <2>1 DEF OneByOne
  <1>4. CASE AddMatch
    <2>1. todo = {} /\ todo' = DOMAIN matches \cup {ctx.matchId}
      BY <1>0, <1>4 DEF AddMatch, ContextInv
    <2>2. /\ DOMAIN matches' = DOMAIN matches \cup {ctx.matchId}
          /\ \A m \in DOMAIN matches : matches'[m] = matches[m]
          /\ matches'[ctx.matchId].state = "Init"
      BY <1>4, AddsMatch DEF NewMatch
    <2> QED
      BY <2>1, <2>2 DEF OneByOne
  <1>5. ASSUME NEW m \in MatchIds, MatchInit(m)
        PROVE  OneByOne'
    <2>1. m \in todo /\ todo' = todo \ {m} /\ matches[m].state = "Init"
      BY <1>5 DEF MatchInit, Updating
    <2>2. /\ m \in DOMAIN matches
          /\ DOMAIN matches' = DOMAIN matches
          /\ \A i \in DOMAIN matches : i # m => matches'[i] = matches[i]
          /\ matches'[m].state = "InfoSent"
      BY <1>0, <1>5, InitMatch
    <2> QED
      BY <2>1, <2>2 DEF OneByOne
  <1>6. ASSUME NEW m \in MatchIds, MatchSendInfo(m) \/ MatchWait(m)
        PROVE  OneByOne'
    <2>1. m \in todo /\ todo' = todo \ {m}
      BY <1>6 DEF MatchSendInfo, MatchWait, Updating
    <2>2. /\ DOMAIN matches' = DOMAIN matches
          /\ \A i \in DOMAIN matches : i # m => matches'[i] = matches[i]
          /\ matches'[m].state = "WaitPeerReady"
      BY <1>0, <1>6, AdvancingKeeps, AdvancesMatch
    <2> QED
      BY <2>1, <2>2 DEF OneByOne
  <1>7. ASSUME NEW m \in MatchIds, MatchReady(m) \/ MatchTimeout(m)
        PROVE  OneByOne'
    <2>1. todo' = todo \ {m}
      BY <1>7 DEF MatchReady, MatchTimeout, Updating
    <2>2. /\ DOMAIN matches' = DOMAIN matches \ {m}
          /\ \A i \in DOMAIN matches' : matches'[i] = matches[i]
      BY <1>7, ErasesMatch DEF MatchReady, MatchTimeout
    <2> QED
      BY <2>1, <2>2 DEF OneByOne
  <1> QED
    BY <1>1, <1>2, <1>3, <1>4, <1>5, <1>6, <1>7
    DEF Next, Packet, Loop, UpdateMatch, vars, MatchRequestPacket, MatchCancelPacket,
        IntroSuccessPacket, Submit, ProcessNetSendRequest, HandleEnqueue, HandleCancel,
        Handling, CreateMatchContext, PopDeleted, PopPlayer, Popping, EndTick

(* The packets MatchSendInfo and MatchReady add keep what IntroInv says of the
   queue. *)
LEMMA IntroNext == SendQueueSuffices /\ IInv /\ SendInv /\ [Next]_vars => IntroInv'
  <1> SUFFICES ASSUME SendQueueSuffices, IInv, SendInv, [Next]_vars PROVE IntroInv'
    OBVIOUS
  <1>0. TypeOK /\ ContextInv /\ FullRoster /\ IntroInv /\ BudgetInv
    BY DEF IInv, SendInv
  <1>1. CASE UNCHANGED <<phase, NetSendRequestQueue, matches, todo, introduced>>
             /\ reported' \subseteq introduced
    BY <1>0, <1>1 DEF IntroInv
  <1>2. ASSUME NEW s \in Sessions, NEW m \in MatchIds, IntroSuccessPacket(s, m)
        PROVE  IntroInv'
    <2>1. reported' \subseteq introduced
      BY <1>0, <1>2 DEF IntroSuccessPacket, IntroInv
    <2> QED
      BY <1>1, <1>2, <2>1 DEF IntroSuccessPacket, Submit
  <1>3. CASE ProcessNetSendRequest
    <2>1. /\ NetSendRequestQueue' = <<>> /\ matches' = matches /\ reported' = reported
          /\ Len(NetSendRequestQueue') = 0
      BY <1>3 DEF ProcessNetSendRequest
    <2>2. introduced \subseteq introduced'
      BY <1>3 DEF ProcessNetSendRequest
    <2>3. \A p \in introduced' \ introduced :
             \E k \in 1 .. Len(NetSendRequestQueue) :
                /\ NetSendRequestQueue[k].type = "MATCH_INTRO"
                /\ p[2] = NetSendRequestQueue[k].matchId
      BY <1>3 DEF ProcessNetSendRequest
    <2>4. \A p \in introduced' :
             p[2] \in DOMAIN matches /\ matches[p[2]].state = "WaitPeerReady"
      BY <1>0, <2>3 DEF IntroInv
    <2> QED
      BY <1>0, <2>1, <2>2, <2>4 DEF IntroInv
  <1>4. CASE HandleIntroResult
    <2>1. UNCHANGED <<phase, NetSendRequestQueue, todo, introduced, reported>>
      BY <1>4 DEF HandleIntroResult, Handling
    <2> QED
      BY <1>0, <1>4, <2>1, IntroResultKeeps DEF IntroInv
  <1>5. CASE SkipCreation \/ CreateMatchContext
    <2>1. /\ phase = "Requests"
          /\ UNCHANGED <<NetSendRequestQueue, matches, introduced, reported>>
      BY <1>5 DEF SkipCreation, CreateMatchContext, RequestsHandled
    <2>2. NetSendRequestQueue = <<>> /\ Len(NetSendRequestQueue') = 0
      BY <1>0, <2>1 DEF IntroInv
    <2> QED
      BY <1>0, <2>1, <2>2 DEF IntroInv
  <1>6. CASE AddMatch
    <2>1. phase = "Fill" /\ UNCHANGED <<NetSendRequestQueue, introduced, reported>>
      BY <1>6 DEF AddMatch
    <2>2. NetSendRequestQueue' = <<>> /\ Len(NetSendRequestQueue') = 0
      BY <1>0, <2>1 DEF IntroInv
    <2>3. \A m \in DOMAIN matches : m \in DOMAIN matches' /\ matches'[m] = matches[m]
      BY <1>6, AddsMatch
    <2> QED
      BY <1>0, <2>1, <2>2, <2>3 DEF IntroInv
  <1>7. ASSUME NEW m \in MatchIds, MatchInit(m) \/ MatchWait(m)
        PROVE  IntroInv'
    <2>1. UNCHANGED <<phase, NetSendRequestQueue, introduced, reported>> /\ todo' \subseteq todo
      BY <1>7 DEF MatchInit, MatchWait, Updating
    <2>2. /\ DOMAIN matches' = DOMAIN matches
          /\ \A i \in DOMAIN matches :
                matches[i].state = "WaitPeerReady" => matches'[i].state = "WaitPeerReady"
      BY <1>0, <1>7, AdvancingKeeps, AdvancesMatch DEF MatchInit
    <2> QED
      BY <1>0, <2>1, <2>2 DEF IntroInv
  <1>8. ASSUME NEW m \in MatchIds, MatchSendInfo(m)
        PROVE  IntroInv'
    <2>1. /\ phase = "Results" /\ UNCHANGED <<phase, introduced, reported>>
          /\ todo' = todo \ {m}
      BY <1>8 DEF MatchSendInfo, Updating
    <2>2. /\ m \in DOMAIN matches
          /\ DOMAIN matches' = DOMAIN matches
          /\ matches'[m].state = "WaitPeerReady"
          /\ \A i \in DOMAIN matches :
                matches[i].state = "WaitPeerReady" => matches'[i].state = "WaitPeerReady"
      BY <1>0, <1>8, AdvancingKeeps, AdvancesMatch
    <2> DEFINE n == Len(NetSendRequestQueue)
    <2>3. n \in Nat /\ MaxMatchPlayer \in Nat
      BY <1>0, SizeAssumption DEF TypeOK
    <2>4. /\ Len(NetSendRequestQueue') = n + MaxMatchPlayer
          /\ \A k \in 1 .. n : NetSendRequestQueue'[k] = NetSendRequestQueue[k]
          /\ \A k \in 1 .. MaxMatchPlayer : NetSendRequestQueue'[n + k] = IntroPackets(m)[k]
      BY <1>0, <1>8, IntrosFit
    <2>5. \A k \in 1 .. MaxMatchPlayer : IntroPackets(m)[k].matchId = m
      BY DEF IntroPackets
    <2>6. \A k \in 1 .. Len(NetSendRequestQueue') :
             \/ k \in 1 .. n
             \/ k - n \in 1 .. MaxMatchPlayer /\ n + (k - n) = k
      BY <2>3, <2>4
    <2>7. \A k \in 1 .. Len(NetSendRequestQueue') :
             \/ k \in 1 .. n /\ NetSendRequestQueue'[k] = NetSendRequestQueue[k]
             \/ NetSendRequestQueue'[k].matchId = m
      BY <2>4, <2>5, <2>6
    <2> QED
      BY <1>0, <2>1, <2>2, <2>7 DEF IntroInv
  <1>9. ASSUME NEW m \in MatchIds, MatchReady(m) \/ MatchTimeout(m)
        PROVE  IntroInv'
    <2>1. phase = "Results" /\ phase' = phase /\ m \in todo /\ todo' = todo \ {m}
      BY <1>9 DEF MatchReady, MatchTimeout, Updating
    <2>2. /\ DOMAIN matches' = DOMAIN matches \ {m}
          /\ \A i \in DOMAIN matches' : matches'[i] = matches[i]
          /\ introduced' = {p \in introduced : p[2] # m}
          /\ reported' = {p \in reported : p[2] # m}
      BY <1>9, ErasesMatch DEF MatchReady, MatchTimeout
    <2> DEFINE n == Len(NetSendRequestQueue)
    <2>3. \A k \in 1 .. Len(NetSendRequestQueue') :
             \/ k \in 1 .. n /\ NetSendRequestQueue'[k] = NetSendRequestQueue[k]
             \/ NetSendRequestQueue'[k].type = "MATCH_START"
      <3>1. CASE MatchTimeout(m)
        BY <3>1 DEF MatchTimeout
      <3>2. CASE MatchReady(m)
        <4>1. n \in Nat /\ MaxMatchPlayer \in Nat
          BY <1>0, SizeAssumption DEF TypeOK
        <4>2. /\ Len(NetSendRequestQueue') = n + MaxMatchPlayer
              /\ \A k \in 1 .. n : NetSendRequestQueue'[k] = NetSendRequestQueue[k]
              /\ \A k \in 1 .. MaxMatchPlayer : NetSendRequestQueue'[n + k] = StartPackets(m)[k]
          BY <1>0, <3>2, StartsFit
        <4>3. \A k \in 1 .. MaxMatchPlayer : StartPackets(m)[k].type = "MATCH_START"
          BY DEF StartPackets
        <4>4. \A k \in 1 .. Len(NetSendRequestQueue') :
                 \/ k \in 1 .. n
                 \/ k - n \in 1 .. MaxMatchPlayer /\ n + (k - n) = k
          BY <4>1, <4>2
        <4> QED
          BY <4>2, <4>3, <4>4
      <3> QED
        BY <1>9, <3>1, <3>2
    <2>4. \A k \in 1 .. Len(NetSendRequestQueue') :
             NetSendRequestQueue'[k].type = "MATCH_INTRO" =>
                /\ NetSendRequestQueue'[k].matchId \in DOMAIN matches
                /\ matches[NetSendRequestQueue'[k].matchId].state = "WaitPeerReady"
                /\ NetSendRequestQueue'[k].matchId \notin todo
      BY <1>0, <2>3 DEF IntroInv
    <2> QED
      BY <1>0, <2>1, <2>2, <2>4 DEF IntroInv
  <1>10. CASE EndTick
    <2>1. /\ phase = "Results" /\ phase' = "Network"
          /\ UNCHANGED <<NetSendRequestQueue, matches, todo, introduced, reported>>
      BY <1>10 DEF EndTick
    <2> QED
      BY <1>0, <2>1 DEF IntroInv
  <1>11. CASE UNCHANGED <<phase, NetSendRequestQueue, matches, todo, introduced, reported>>
    BY <1>0, <1>1, <1>11 DEF IntroInv
  <1> QED
    BY <1>2, <1>3, <1>4, <1>5, <1>6, <1>7, <1>8, <1>9, <1>10, <1>11
    DEF Next, Packet, Loop, UpdateMatch, vars, MatchRequestPacket, MatchCancelPacket,
        Submit, HandleEnqueue, HandleCancel, Handling, PopDeleted, PopPlayer, Popping

LEMMA TimesKeepsOrder ==
    ASSUME NEW a \in Nat, NEW b \in Nat, NEW M \in Nat, a <= b
    PROVE  a * M \in Nat /\ a * M <= b * M
  <1> DEFINE d == b - a
  <1>1. d \in Nat /\ b = a + d
    OBVIOUS
  <1>2. b * M = a * M + d * M /\ a * M \in Nat /\ d * M \in Nat
    <2>1. (a + d) * M = a * M + d * M
      BY <1>1
    <2> QED
      BY <1>1, <2>1
  <1> HIDE DEF d
  <1> QED
    BY <1>2

(* A report taken from the command queue pays for the packets it causes. *)
LEMMA BudgetNext == SendQueueSuffices /\ IInv /\ SendInv /\ [Next]_vars => BudgetInv'
  <1> SUFFICES ASSUME SendQueueSuffices, IInv, SendInv, [Next]_vars PROVE BudgetInv'
    OBVIOUS
  <1>0. TypeOK /\ ContextInv /\ FullRoster /\ IntroInv /\ OneByOne /\ BudgetInv
    BY DEF IInv, SendInv
  <1>a. /\ MaxMatchPlayer \in Nat /\ RequestQueueCap \in Nat
        /\ Len(NetSendRequestQueue) \in Nat /\ Len(MatchRequestQueue) \in Nat
        /\ Len(MatchRequestQueue) <= RequestQueueCap
        /\ Cardinality(Acked) \in Nat /\ Intros \in {0, 1} /\ Intros' \in {0, 1}
    BY <1>0, AckedFinite, SizeAssumption DEF TypeOK, Intros
  <1>1. CASE UNCHANGED <<phase, MatchRequestQueue, NetSendRequestQueue, matches, todo>>
    <2>1. Acked' = Acked /\ Intros' = Intros
      BY <1>1 DEF Acked, AllAcked, Intros
    <2> QED
      BY <1>0, <1>1, <2>1 DEF BudgetInv
  <1>2. ASSUME NEW cmd, Submit(cmd)
        PROVE  BudgetInv'
    <2>1. phase = "Network" /\ phase' = "Network" /\ matches' = matches
      BY <1>2 DEF Submit
    <2>2. Acked' = Acked
      BY <2>1 DEF Acked, AllAcked
    <2> QED
      BY <1>0, <2>1, <2>2 DEF BudgetInv
  <1>3. CASE ProcessNetSendRequest
    <2>1. /\ phase = "Network" /\ phase' = "Requests" /\ matches' = matches
          /\ MatchRequestQueue' = MatchRequestQueue
      BY <1>3 DEF ProcessNetSendRequest
    <2>2. Acked' = {} /\ Cardinality({}) = 0
      BY <1>0, <2>1, FS_EmptySet DEF Acked, AllAcked, BudgetInv
    <2> QED
      BY <1>a, <2>1, <2>2 DEF BudgetInv
  <1>4. CASE HandleEnqueue \/ HandleCancel
    <2>1. phase = "Requests" /\ phase' = phase /\ matches' = matches
      BY <1>4 DEF HandleEnqueue, HandleCancel, Handling
    <2>2. Len(MatchRequestQueue') = Len(MatchRequestQueue) - 1
      BY <1>0, <1>4, HandlingType DEF HandleEnqueue, HandleCancel
    <2>3. Acked' = Acked
      BY <2>1 DEF Acked, AllAcked
    <2> QED
      BY <1>0, <1>a, <2>1, <2>2, <2>3 DEF BudgetInv
  <1>5. CASE HandleIntroResult
    <2>1. phase = "Requests" /\ phase' = phase
      BY <1>5 DEF HandleIntroResult, Handling
    <2>2. Len(MatchRequestQueue') = Len(MatchRequestQueue) - 1
      BY <1>0, <1>5, HandlingType DEF HandleIntroResult
    <2>3. Acked' \subseteq Acked \cup {Head(MatchRequestQueue).matchId}
      BY <1>0, <1>5, AcksOne, IntroResultKeeps DEF Acked, AllAcked
    <2>4. Cardinality(Acked') \in Nat /\ Cardinality(Acked') <= Cardinality(Acked) + 1
      BY <1>0, <2>3, AckedMore
    <2> QED
      BY <1>0, <1>a, <2>1, <2>2, <2>4 DEF BudgetInv
  <1>6. CASE CreateMatchContext
    <2>1. /\ phase = "Requests" /\ phase' = "Fill"
          /\ UNCHANGED <<matches, MatchRequestQueue>>
      BY <1>6 DEF CreateMatchContext, RequestsHandled
    <2>2. Acked' = Acked
      BY <2>1 DEF Acked, AllAcked
    <2> QED
      BY <1>0, <2>1, <2>2 DEF BudgetInv
  <1>7. CASE SkipCreation \/ AddMatch
    <2>1. /\ phase \in {"Requests", "Fill"} /\ phase' = "Results"
          /\ NetSendRequestQueue' = NetSendRequestQueue
      BY <1>7 DEF SkipCreation, AddMatch, RequestsHandled
    <2>2. NetSendRequestQueue = <<>> /\ Len(NetSendRequestQueue') = 0
      BY <1>0, <2>1 DEF IntroInv
    <2>3. Acked' = Acked /\ Acked \subseteq todo'
      <3>1. CASE SkipCreation
        BY <3>1 DEF SkipCreation, Acked, AllAcked
      <3>2. CASE AddMatch
        <4>1. 0 \in Slots /\ ~matches'[ctx.matchId].peerAck[0]
          BY <3>2, AddsMatch, SizeAssumption DEF NewMatch, Slots
        <4>2. todo' = DOMAIN matches \cup {ctx.matchId}
          BY <3>2 DEF AddMatch
        <4> QED
          BY <3>2, <4>1, <4>2, AddsMatch DEF Acked, AllAcked
      <3> QED
        BY <1>7, <3>1, <3>2
    <2>4. Cardinality(Acked) + Intros' <= RequestQueueCap + 1
      BY <1>0, <1>a, <2>1 DEF BudgetInv
    <2>5. (Cardinality(Acked) + Intros') * MaxMatchPlayer \in Nat
          /\ (Cardinality(Acked) + Intros') * MaxMatchPlayer
                <= (RequestQueueCap + 1) * MaxMatchPlayer
      <3> DEFINE c == Cardinality(Acked) + Intros'
      <3>1. c \in Nat /\ RequestQueueCap + 1 \in Nat /\ c <= RequestQueueCap + 1
        BY <1>a, <2>4
      <3> HIDE DEF c
      <3>2. c * MaxMatchPlayer \in Nat /\ c * MaxMatchPlayer <= (RequestQueueCap + 1) * MaxMatchPlayer
        BY <1>a, <3>1, TimesKeepsOrder
      <3> QED
        BY <3>2 DEF c
    <2> QED
      BY <2>1, <2>2, <2>3, <2>5 DEF BudgetInv
  <1>8. ASSUME phase = "Results", phase' = "Results",
               NetSendRequestQueue' = NetSendRequestQueue,
               Acked' = Acked, Acked \subseteq todo', Intros' <= Intros
        PROVE  BudgetInv'
    <2> DEFINE c == Cardinality(Acked) + Intros
               d == Cardinality(Acked) + Intros'
    <2>1. c \in Nat /\ d \in Nat /\ d <= c
      BY <1>a, <1>8
    <2>2. /\ Len(NetSendRequestQueue) + c * MaxMatchPlayer <= (RequestQueueCap + 1) * MaxMatchPlayer
          /\ Len(NetSendRequestQueue') = Len(NetSendRequestQueue)
      BY <1>0, <1>8 DEF BudgetInv
    <2> HIDE DEF c, d
    <2>3. /\ d * MaxMatchPlayer \in Nat /\ c * MaxMatchPlayer \in Nat
          /\ d * MaxMatchPlayer <= c * MaxMatchPlayer
      BY <1>a, <2>1, TimesKeepsOrder
    <2>4. Len(NetSendRequestQueue') + d * MaxMatchPlayer <= (RequestQueueCap + 1) * MaxMatchPlayer
      <3> DEFINE x == (RequestQueueCap + 1) * MaxMatchPlayer
                 y == c * MaxMatchPlayer
                 z == d * MaxMatchPlayer
      <3>1. x \in Int /\ y \in Nat /\ z \in Nat /\ z <= y /\ Len(NetSendRequestQueue) + y <= x
        BY <1>a, <2>2, <2>3
      <3> HIDE DEF x, y, z
      <3>2. Len(NetSendRequestQueue) + z <= x
        BY <1>a, <3>1
      <3> QED
        BY <2>2, <3>2 DEF x, z
    <2> QED
      BY <1>8, <2>4 DEF BudgetInv, d
  <1>9. ASSUME NEW m \in MatchIds, MatchInit(m) \/ MatchWait(m)
        PROVE  BudgetInv'
    <2>1. /\ phase = "Results" /\ phase' = phase /\ todo' = todo \ {m}
          /\ NetSendRequestQueue' = NetSendRequestQueue
      BY <1>9 DEF MatchInit, MatchWait, Updating
    <2>2. /\ DOMAIN matches' = DOMAIN matches
          /\ \A i \in DOMAIN matches : i # m => matches'[i] = matches[i]
          /\ \A i \in DOMAIN matches : matches'[i].peerAck = matches[i].peerAck
      BY <1>0, <1>9, AdvancingKeeps
    <2>3. m \notin Acked
      BY <1>0, <1>9, AckedAreWaiting DEF MatchInit, MatchWait, Acked
    <2>4. Acked' = Acked /\ Acked \subseteq todo'
      BY <1>0, <2>1, <2>2, <2>3 DEF Acked, AllAcked, BudgetInv
    <2>5. Intros' <= Intros
      BY <1>0, <2>1, <2>2 DEF Intros, TypeOK
    <2> QED
      BY <1>8, <2>1, <2>4, <2>5
  <1>10. ASSUME NEW m \in MatchIds, MatchTimeout(m)
         PROVE  BudgetInv'
    <2>1. /\ phase = "Results" /\ phase' = phase /\ todo' = todo \ {m}
          /\ NetSendRequestQueue' = NetSendRequestQueue
      BY <1>10 DEF MatchTimeout, Updating
    <2>2. /\ DOMAIN matches' = DOMAIN matches \ {m}
          /\ \A i \in DOMAIN matches' : matches'[i] = matches[i]
      BY <1>10, ErasesMatch DEF MatchTimeout
    <2>3. m \notin Acked
      BY <1>10 DEF MatchTimeout, Acked
    <2>4. Acked' = Acked /\ Acked \subseteq todo'
      BY <1>0, <2>1, <2>2, <2>3 DEF Acked, AllAcked, BudgetInv
    <2>5. Intros' <= Intros
      BY <1>0, <2>1, <2>2 DEF Intros, TypeOK
    <2> QED
      BY <1>8, <2>1, <2>4, <2>5
  <1>11. ASSUME NEW m \in MatchIds, MatchSendInfo(m)
         PROVE  BudgetInv'
    <2>1. /\ phase = "Results" /\ phase' = phase /\ m \in todo /\ todo' = todo \ {m}
          /\ matches[m].state = "InfoSent"
      BY <1>11 DEF MatchSendInfo, Updating
    <2>2. /\ DOMAIN matches' = DOMAIN matches
          /\ \A i \in DOMAIN matches : i # m => matches'[i] = matches[i]
          /\ \A i \in DOMAIN matches : matches'[i].peerAck = matches[i].peerAck
      BY <1>0, <1>11, AdvancingKeeps
    <2>3. m \notin Acked
      BY <1>0, <2>1, AckedAreWaiting
    <2>4. Acked' = Acked /\ Acked \subseteq todo'
      BY <1>0, <2>1, <2>2, <2>3 DEF Acked, AllAcked, BudgetInv
    <2>5. \A n \in todo' : matches'[n].state # "InfoSent"
      BY <1>0, <2>1, <2>2 DEF OneByOne, TypeOK
    <2>6. Intros' = 0
      BY <2>5 DEF Intros
    <2>7. Cardinality(Acked') + Intros' = Cardinality(Acked)
      BY <1>a, <2>4, <2>6
    <2>8. Len(NetSendRequestQueue') + Cardinality(Acked) * MaxMatchPlayer
             <= (RequestQueueCap + 1) * MaxMatchPlayer
      BY <1>0, <1>11, IntrosFit
    <2> QED
      BY <2>1, <2>4, <2>7, <2>8 DEF BudgetInv
  <1>12. ASSUME NEW m \in MatchIds, MatchReady(m)
         PROVE  BudgetInv'
    <2>1. /\ phase = "Results" /\ phase' = phase /\ m \in todo /\ todo' = todo \ {m}
          /\ matches[m].state = "WaitPeerReady"
      BY <1>12 DEF MatchReady, Updating
    <2>2. /\ DOMAIN matches' = DOMAIN matches \ {m}
          /\ \A i \in DOMAIN matches' : matches'[i] = matches[i]
      BY <1>12, ErasesMatch DEF MatchReady
    <2>3. Acked' = Acked \ {m}
      BY <2>2 DEF Acked, AllAcked
    <2>4. Intros' = Intros
      BY <1>0, <2>1, <2>2 DEF Intros, TypeOK
    <2>5. Len(NetSendRequestQueue') + (Cardinality(Acked \ {m}) + Intros) * MaxMatchPlayer
             <= (RequestQueueCap + 1) * MaxMatchPlayer
      BY <1>0, <1>12, StartsFit
    <2>6. Acked' \subseteq todo'
      BY <1>0, <2>1, <2>3 DEF BudgetInv
    <2> QED
      BY <2>1, <2>3, <2>4, <2>5, <2>6 DEF BudgetInv
  <1>13. CASE EndTick
    <2>1. phase = "Results" /\ todo = {} /\ phase' = "Network" /\ matches' = matches
      BY <1>13 DEF EndTick
    <2>2. Acked' = {}
      BY <1>0, <2>1 DEF Acked, AllAcked, BudgetInv
    <2> QED
      BY <2>1, <2>2 DEF BudgetInv
  <1> QED
    BY <1>1, <1>2, <1>3, <1>4, <1>5, <1>6, <1>7, <1>9, <1>10, <1>11, <1>12, <1>13
    DEF Next, Packet, Loop, UpdateMatch, vars, MatchRequestPacket, MatchCancelPacket,
        IntroSuccessPacket, PopDeleted, PopPlayer, Popping

(* Since nothing is dropped, the intro of every player joins the queue, and
   stays in it until it is sent. *)
LEMMA IntroReachesNext ==
    SendQueueSuffices /\ IInv /\ SendInv /\ [Next]_vars => IntroReachesPlayers'
  <1> SUFFICES ASSUME SendQueueSuffices, IInv, SendInv, [Next]_vars
               PROVE  IntroReachesPlayers'
    OBVIOUS
  <1>0. TypeOK /\ FullRoster /\ BudgetInv /\ IntroReachesPlayers
    BY DEF IInv, SendInv
  <1>a. Len(NetSendRequestQueue) \in Nat /\ MaxMatchPlayer \in Nat \ {0}
    BY <1>0, SizeAssumption DEF TypeOK
  <1>1. ASSUME UNCHANGED <<NetSendRequestQueue, introduced>>,
               \A m \in DOMAIN matches' :
                  matches'[m].state = "WaitPeerReady" =>
                     /\ m \in DOMAIN matches
                     /\ matches[m].state = "WaitPeerReady"
                     /\ matches'[m].players = matches[m].players
        PROVE  IntroReachesPlayers'
    BY <1>0, <1>1 DEF IntroReachesPlayers, SessionsOf
  <1>2. CASE ProcessNetSendRequest
    <2>1. /\ matches' = matches /\ introduced \subseteq introduced'
          /\ \A k \in 1 .. Len(NetSendRequestQueue) :
                NetSendRequestQueue[k].type = "MATCH_INTRO" =>
                   <<NetSendRequestQueue[k].sessionId, NetSendRequestQueue[k].matchId>>
                      \in introduced'
      BY <1>2 DEF ProcessNetSendRequest
    <2> QED
      BY <1>0, <2>1 DEF IntroReachesPlayers
  <1>3. CASE HandleIntroResult
    BY <1>0, <1>1, <1>3, IntroResultKeeps DEF HandleIntroResult, Handling
  <1>4. CASE AddMatch
    <2>1. UNCHANGED <<NetSendRequestQueue, introduced>>
      BY <1>4 DEF AddMatch
    <2>2. /\ DOMAIN matches' = DOMAIN matches \cup {ctx.matchId}
          /\ \A m \in DOMAIN matches : matches'[m] = matches[m]
          /\ matches'[ctx.matchId].state = "Init"
      BY <1>0, <1>4, AddsMatch DEF NewMatch
    <2> QED
      BY <1>1, <2>1, <2>2
  <1>5. ASSUME NEW m \in MatchIds, MatchInit(m) \/ MatchWait(m)
        PROVE  IntroReachesPlayers'
    <2>1. UNCHANGED <<NetSendRequestQueue, introduced>>
      BY <1>5 DEF MatchInit, MatchWait
    <2>2. /\ DOMAIN matches' = DOMAIN matches
          /\ \A i \in DOMAIN matches : i # m => matches'[i] = matches[i]
          /\ matches'[m].players = matches[m].players
      BY <1>0, <1>5, AdvancingKeeps
    <2>3. matches'[m].state = "WaitPeerReady" => matches[m].state = "WaitPeerReady"
      BY <1>0, <1>5, InitMatch DEF MatchWait
    <2> QED
      BY <1>1, <2>1, <2>2, <2>3
  <1>6. ASSUME NEW m \in MatchIds, MatchSendInfo(m)
        PROVE  IntroReachesPlayers'
    <2> DEFINE n == Len(NetSendRequestQueue)
    <2>1. introduced' = introduced
      BY <1>6 DEF MatchSendInfo
    <2>2. /\ m \in DOMAIN matches
          /\ DOMAIN matches' = DOMAIN matches
          /\ \A i \in DOMAIN matches : i # m => matches'[i] = matches[i]
          /\ matches'[m].players = matches[m].players
      BY <1>0, <1>6, AdvancingKeeps
    <2>3. /\ Len(NetSendRequestQueue') = n + MaxMatchPlayer
          /\ \A k \in 1 .. n : NetSendRequestQueue'[k] = NetSendRequestQueue[k]
          /\ \A k \in 1 .. MaxMatchPlayer : NetSendRequestQueue'[n + k] = IntroPackets(m)[k]
      BY <1>0, <1>6, IntrosFit
    <2>4. \A i \in Slots :
             \E k \in 1 .. Len(NetSendRequestQueue') :
                /\ NetSendRequestQueue'[k].type = "MATCH_INTRO"
                /\ NetSendRequestQueue'[k].sessionId = matches[m].players[i].sessionId
                /\ NetSendRequestQueue'[k].matchId = m
      <3> SUFFICES ASSUME NEW i \in Slots
                   PROVE  /\ n + (i + 1) \in 1 .. Len(NetSendRequestQueue')
                          /\ NetSendRequestQueue'[n + (i + 1)].type = "MATCH_INTRO"
                          /\ NetSendRequestQueue'[n + (i + 1)].sessionId
                                = matches[m].players[i].sessionId
                          /\ NetSendRequestQueue'[n + (i + 1)].matchId = m
        OBVIOUS
      <3>1. i + 1 \in 1 .. MaxMatchPlayer /\ (i + 1) - 1 = i
        BY <1>a DEF Slots
      <3>2. n + (i + 1) \in 1 .. Len(NetSendRequestQueue')
        BY <1>a, <2>3, <3>1
      <3>3. /\ IntroPackets(m)[i + 1].type = "MATCH_INTRO"
            /\ IntroPackets(m)[i + 1].sessionId = matches[m].players[i].sessionId
            /\ IntroPackets(m)[i + 1].matchId = m
        BY <3>1 DEF IntroPackets
      <3> QED
        BY <2>3, <3>1, <3>2, <3>3
    <2>5. 1 .. n \subseteq 1 .. Len(NetSendRequestQueue')
      BY <1>a, <2>3
    <2> QED
      BY <1>0, <2>1, <2>2, <2>3, <2>4, <2>5 DEF IntroReachesPlayers, SessionsOf
  <1>7. ASSUME NEW m \in MatchIds, MatchReady(m) \/ MatchTimeout(m)
        PROVE  IntroReachesPlayers'
    <2>1. /\ DOMAIN matches' = DOMAIN matches \ {m}
          /\ \A i \in DOMAIN matches' : matches'[i] = matches[i]
          /\ introduced' = {p \in introduced : p[2] # m}
      BY <1>7, ErasesMatch DEF MatchReady, MatchTimeout
    <2>2. \A k \in 1 .. Len(NetSendRequestQueue) :
             /\ k \in 1 .. Len(NetSendRequestQueue')
             /\ NetSendRequestQueue'[k] = NetSendRequestQueue[k]
      <3>1. CASE MatchTimeout(m)
        BY <3>1 DEF MatchTimeout
      <3>2. CASE MatchReady(m)
        <4>1. /\ Len(NetSendRequestQueue') = Len(NetSendRequestQueue) + MaxMatchPlayer
              /\ \A k \in 1 .. Len(NetSendRequestQueue) :
                    NetSendRequestQueue'[k] = NetSendRequestQueue[k]
          BY <1>0, <3>2, StartsFit
        <4>2. 1 .. Len(NetSendRequestQueue) \subseteq 1 .. Len(NetSendRequestQueue')
          BY <1>a, <4>1
        <4> QED
          BY <4>1, <4>2
      <3> QED
        BY <1>7, <3>1, <3>2
    <2>3. \A s, i : <<s, i>> \in introduced /\ i # m => <<s, i>> \in introduced'
      BY <2>1
    <2> QED
      BY <1>0, <2>1, <2>2, <2>3 DEF IntroReachesPlayers
  <1>8. CASE UNCHANGED <<NetSendRequestQueue, matches, introduced>>
    BY <1>1, <1>8
  <1> QED
    BY <1>2, <1>3, <1>4, <1>5, <1>6, <1>7, <1>8
    DEF Next, Packet, Loop, UpdateMatch, vars, MatchRequestPacket, MatchCancelPacket,
        IntroSuccessPacket, Submit, HandleEnqueue, HandleCancel, Handling, SkipCreation,
        CreateMatchContext, PopDeleted, PopPlayer, Popping, EndTick

(* A session moves from the requests to the context, to a match, and back to
   the requests; it leaves when its start packet is queued. *)
LEMMA ForgottenNext ==
    SendQueueSuffices /\ IInv /\ SendInv /\ [Next]_vars => NobodyForgotten'
  <1> SUFFICES ASSUME SendQueueSuffices, IInv, SendInv, [Next]_vars
               PROVE  NobodyForgotten'
    OBVIOUS
  <1>0. TypeOK /\ ContextInv /\ FullRoster /\ BlankInv /\ BudgetInv /\ NobodyForgotten
    BY DEF IInv, SendInv
  <1>a. \A s \in seeking : \/ s \in DOMAIN requests
                           \/ s \in SessionsOf(ctx.players)
                           \/ \E m \in DOMAIN matches : s \in SessionsOf(matches[m].players)
    BY <1>0 DEF NobodyForgotten
  <1>b. seeking \subseteq Sessions /\ NoSession \notin Sessions
    BY <1>0, SessionAssumption DEF TypeOK
  <1>1. ASSUME \A s \in seeking' :
                  \/ s \in DOMAIN requests'
                  \/ s \in SessionsOf(ctx'.players)
                  \/ \E m \in DOMAIN matches' : s \in SessionsOf(matches'[m].players)
        PROVE  NobodyForgotten'
    BY <1>1 DEF NobodyForgotten, SessionsOf
  <1>2. CASE UNCHANGED <<requests, ctx, matches, seeking>>
    BY <1>a, <1>1, <1>2
  <1>3. CASE HandleEnqueue
    <2>1. /\ UNCHANGED <<ctx, matches>>
          /\ DOMAIN requests' = DOMAIN requests \cup {Head(MatchRequestQueue).sessionId}
          /\ seeking' = seeking \cup {Head(MatchRequestQueue).sessionId}
      BY <1>3 DEF HandleEnqueue, Handling, TryEmplace, FreshRequest
    <2> QED
      BY <1>a, <1>1, <2>1
  <1>4. CASE HandleCancel
    <2>1. /\ UNCHANGED <<ctx, matches>>
          /\ DOMAIN requests' = DOMAIN requests \ {Head(MatchRequestQueue).sessionId}
          /\ seeking' = seeking \ {Head(MatchRequestQueue).sessionId}
      BY <1>4 DEF HandleCancel, Handling, EraseRequest, Restrict
    <2> QED
      BY <1>a, <1>1, <2>1
  <1>5. ASSUME UNCHANGED <<requests, ctx, seeking>>, DOMAIN matches' = DOMAIN matches,
               \A m \in DOMAIN matches : matches'[m].players = matches[m].players
        PROVE  NobodyForgotten'
    BY <1>a, <1>1, <1>5
  <1>6. CASE HandleIntroResult
    BY <1>0, <1>5, <1>6, IntroResultKeeps DEF HandleIntroResult, Handling
  <1>7. CASE CreateMatchContext
    <2>1. ctx = NoContext
      BY <1>0, <1>7 DEF CreateMatchContext, RequestsHandled, ContextInv
    <2>2. ctx'.players = ctx.players
      BY <1>7, <2>1 DEF CreateMatchContext, NoContext
    <2> QED
      BY <1>a, <1>1, <1>7, <2>2 DEF CreateMatchContext
  <1>8. ASSUME NEW e \in DOMAIN pq, PopPlayer(e)
        PROVE  NobodyForgotten'
    <2>1. /\ UNCHANGED <<matches, seeking>>
          /\ DOMAIN requests' = DOMAIN requests \ {e.sessionId}
      BY <1>8 DEF PopPlayer, Popping, EraseRequest, Restrict
    <2>2. /\ ctx \in MatchContext /\ ctx.slot \in Slots
          /\ ctx' = [ctx EXCEPT !.players[ctx.slot] = e, !.slot = ctx.slot + 1]
      BY <1>0, <1>8, SizeAssumption DEF PopPlayer, Popping, TypeOK, MatchContext, Slots
    <2>3. ctx'.players = [ctx.players EXCEPT ![ctx.slot] = e]
      BY <2>2 DEF MatchContext
    <2>4. /\ ctx'.players[ctx.slot] = e
          /\ \A i \in Slots : i # ctx.slot => ctx'.players[i] = ctx.players[i]
      BY <2>2, <2>3 DEF MatchContext, Players
    <2>5. ctx.players[ctx.slot].sessionId = NoSession
      BY <2>2, SizeAssumption DEF Uninit, BlankInv, Slots, SendInv
    <2>6. SessionsOf(ctx.players) \ {NoSession} \subseteq SessionsOf(ctx'.players)
      BY <2>2, <2>4, <2>5 DEF SessionsOf
    <2>7. e.sessionId \in SessionsOf(ctx'.players)
      BY <2>2, <2>4 DEF SessionsOf
    <2> QED
      BY <1>a, <1>b, <1>1, <2>1, <2>6, <2>7
  <1>9. CASE AddMatch
    <2>1. /\ DOMAIN matches' = DOMAIN matches \cup {ctx.matchId}
          /\ \A m \in DOMAIN matches : matches'[m] = matches[m]
          /\ matches'[ctx.matchId].players = ctx.players
      BY <1>9, AddsMatch DEF NewMatch
    <2>2. UNCHANGED <<requests, seeking>>
      BY <1>9 DEF AddMatch
    <2> QED
      BY <1>a, <1>1, <2>1, <2>2
  <1>10. ASSUME NEW m \in MatchIds, MatchInit(m) \/ MatchSendInfo(m) \/ MatchWait(m)
         PROVE  NobodyForgotten'
    <2>1. UNCHANGED <<requests, ctx, seeking>>
      BY <1>10 DEF MatchInit, MatchSendInfo, MatchWait, Updating
    <2> QED
      BY <1>0, <1>5, <1>10, <2>1, AdvancingKeeps
  <1>11. ASSUME NEW m \in MatchIds, MatchReady(m)
         PROVE  NobodyForgotten'
    <2>1. /\ DOMAIN matches' = DOMAIN matches \ {m}
          /\ \A i \in DOMAIN matches' : matches'[i] = matches[i]
      BY <1>11, ErasesMatch DEF MatchReady
    <2>2. UNCHANGED <<requests, ctx>>
      BY <1>11 DEF MatchReady, Updating
    <2> DEFINE n == Len(NetSendRequestQueue)
    <2>3. n \in Nat /\ MaxMatchPlayer \in Nat
      BY <1>0, SizeAssumption DEF TypeOK
    <2>4. /\ Len(NetSendRequestQueue') = n + MaxMatchPlayer
          /\ \A k \in 1 .. MaxMatchPlayer : NetSendRequestQueue'[n + k] = StartPackets(m)[k]
      BY <1>0, <1>11, StartsFit
    <2>5. \A i \in Slots :
             matches[m].players[i].sessionId \in
                {NetSendRequestQueue'[k].sessionId : k \in n + 1 .. Len(NetSendRequestQueue')}
      <3> SUFFICES ASSUME NEW i \in Slots
                   PROVE  /\ n + (i + 1) \in n + 1 .. Len(NetSendRequestQueue')
                          /\ NetSendRequestQueue'[n + (i + 1)].sessionId
                                = matches[m].players[i].sessionId
        OBVIOUS
      <3>1. i + 1 \in 1 .. MaxMatchPlayer /\ (i + 1) - 1 = i
        BY <2>3 DEF Slots
      <3>2. StartPackets(m)[i + 1].sessionId = matches[m].players[i].sessionId
        BY <3>1 DEF StartPackets
      <3>3. n + (i + 1) \in n + 1 .. Len(NetSendRequestQueue')
        BY <2>3, <2>4, <3>1
      <3> QED
        BY <2>4, <3>1, <3>2, <3>3
    <2>6. /\ seeking' \subseteq seeking
          /\ \A s \in seeking' : s \notin SessionsOf(matches[m].players)
      BY <1>11, <2>5 DEF MatchReady, SessionsOf
    <2> QED
      BY <1>a, <1>1, <2>1, <2>2, <2>6
  <1>12. ASSUME NEW m \in MatchIds, MatchTimeout(m)
         PROVE  NobodyForgotten'
    <2>1. /\ DOMAIN matches' = DOMAIN matches \ {m}
          /\ \A i \in DOMAIN matches' : matches'[i] = matches[i]
      BY <1>12, ErasesMatch DEF MatchTimeout
    <2>2. ctx' = ctx
      BY <1>12 DEF MatchTimeout, Updating
    <2>3. DOMAIN requests' = DOMAIN requests \cup {r.sessionId : r \in Retries(m)}
      BY <1>12 DEF MatchTimeout, TryEmplace
    <2>4. seeking' = seeking \
             {r.sessionId : r \in {matches[m].players[i] : i \in {j \in Slots : ~MayRetry(matches[m].players[j])}}}
      BY <1>12 DEF MatchTimeout
    <2>5. \A i \in Slots : MayRetry(matches[m].players[i]) =>
             matches[m].players[i].sessionId \in {r.sessionId : r \in Retries(m)}
      <3> SUFFICES ASSUME NEW i \in Slots, MayRetry(matches[m].players[i])
                   PROVE  /\ RetryRequest(matches[m].players[i]) \in Retries(m)
                          /\ RetryRequest(matches[m].players[i]).sessionId
                                = matches[m].players[i].sessionId
        OBVIOUS
      <3> QED
        BY DEF Retries, RetryRequest
    <2>6. \A s \in seeking' : s \in SessionsOf(matches[m].players) => s \in DOMAIN requests'
      BY <2>3, <2>4, <2>5 DEF SessionsOf
    <2> QED
      BY <1>a, <1>1, <2>1, <2>2, <2>3, <2>4, <2>6
  <1> QED
    BY <1>2, <1>3, <1>4, <1>6, <1>7, <1>8, <1>9, <1>10, <1>11, <1>12
    DEF Next, Packet, Loop, UpdateMatch, vars, MatchRequestPacket, MatchCancelPacket,
        IntroSuccessPacket, Submit, ProcessNetSendRequest, SkipCreation, PopDeleted, Popping,
        EndTick

LEMMA SendInit == Init => SendInv
  <1> SUFFICES ASSUME Init PROVE SendInv
    OBVIOUS
  <1> USE DEF Init
  <1>1. BlankInv
    BY DEF BlankInv, NoContext
  <1>2. IntroInv /\ IntroReachesPlayers /\ OneByOne
    BY DEF IntroInv, IntroReachesPlayers, OneByOne
  <1>3. BudgetInv
    BY DEF BudgetInv, Acked
  <1>4. NobodyForgotten
    BY DEF NobodyForgotten
  <1> QED
    BY <1>1, <1>2, <1>3, <1>4 DEF SendInv

LEMMA SendInvariance ==
    ASSUME SendQueueSuffices
    PROVE  Spec => []SendInv
  <1> DEFINE Both == IInv /\ SendInv
  <1>1. Init => Both
    BY InitInv, SendInit
  <1>2. Both /\ [Next]_vars => Both'
    <2> SUFFICES ASSUME IInv, SendInv, [Next]_vars PROVE IInv' /\ SendInv'
      OBVIOUS
    <2>1. IInv'
      BY TypeNext, HeapNext, RosterNext, ContextNext, IdNext, AckNext DEF IInv
    <2>2. BlankInv' /\ OneByOne'
      BY BlankNext, OneByOneNext DEF SendInv
    <2>3. IntroInv' /\ BudgetInv' /\ IntroReachesPlayers' /\ NobodyForgotten'
      BY SendQueueSuffices, IntroNext, BudgetNext, IntroReachesNext, ForgottenNext
    <2> QED
      BY <2>1, <2>2, <2>3 DEF SendInv
  <1>3. Both => SendInv
    OBVIOUS
  <1> HIDE DEF Both
  <1> QED
    BY <1>1, <1>2, <1>3, PTL DEF Spec

(* No MATCH_INTRO is lost between Match::Update and the clients: when the
   queue holds what one tick can send, every player of a match that waits for
   its peers has it or will have it. *)
THEOREM IntrosReachPlayers ==
    ASSUME SendQueueSuffices
    PROVE  Spec => []IntroReachesPlayers
  <1>1. SendInv => IntroReachesPlayers
    BY DEF SendInv
  <1> QED
    BY SendQueueSuffices, SendInvariance, <1>1, PTL

(* Under the same condition no step of the match maker loses a session that
   asked for a match: neither the lazy deletion nor a start packet that found
   no room nor a retry that was already waiting. *)
THEOREM NobodyIsForgotten ==
    ASSUME SendQueueSuffices
    PROVE  Spec => []NobodyForgotten
  <1>1. SendInv => NobodyForgotten
    BY DEF SendInv
  <1> QED
    BY SendQueueSuffices, SendInvariance, <1>1, PTL
-----------------------------------------------------------------------------
(***************************************************************************)
(* The match maker implements MatchService.                                *)
(***************************************************************************)

(* How often a bag holds e. *)
Copies(e, B) == IF e \in DOMAIN B THEN B[e] ELSE 0

(* Two bags with the same multiplicities are the same. *)
LEMMA BagEqual ==
    ASSUME NEW A, NEW B, IsABag(A), IsABag(B), \A e : Copies(e, A) = Copies(e, B)
    PROVE  A = B
  <1>1. DOMAIN A = DOMAIN B
    BY DEF IsABag, Copies
  <1>2. \A e \in DOMAIN A : A[e] = B[e]
    BY <1>1 DEF Copies
  <1> QED
    BY <1>1, <1>2 DEF IsABag

(* Adding a set of requests adds one copy of each. *)
LEMMA BagAdd ==
    ASSUME NEW B, NEW S, \A e \in DOMAIN B : B[e] \in Nat \ {0}
    PROVE  /\ IsABag(B (+) SetToBag(S))
           /\ \A e : Copies(e, B (+) SetToBag(S)) =
                       Copies(e, B) + (IF e \in S THEN 1 ELSE 0)
  <1> DEFINE new == B (+) SetToBag(S)
  <1>1. /\ DOMAIN new = DOMAIN B \cup S
        /\ \A e \in DOMAIN new : new[e] = (IF e \in DOMAIN B THEN B[e] ELSE 0)
                                          + (IF e \in S THEN 1 ELSE 0)
        /\ new = [e \in DOMAIN new |-> new[e]]
    BY DEF (+), SetToBag
  <1> HIDE DEF new
  <1>2. IsABag(new)
    <2>1. \A e \in DOMAIN new : new[e] \in {n \in Nat : n > 0}
      BY <1>1
    <2> QED
      BY <1>1, <2>1 DEF IsABag
  <1>3. \A e : Copies(e, new) = Copies(e, B) + (IF e \in S THEN 1 ELSE 0)
    BY <1>1 DEF Copies
  <1> QED
    BY <1>2, <1>3 DEF new

(* Taking a set of requests out takes one copy of each, if there is one. *)
LEMMA BagTake ==
    ASSUME NEW B, NEW S, \A e \in DOMAIN B : B[e] \in Nat \ {0}
    PROVE  /\ IsABag(B (-) SetToBag(S))
           /\ \A e : Copies(e, B (-) SetToBag(S)) =
                       IF e \in S /\ e \in DOMAIN B THEN Copies(e, B) - 1 ELSE Copies(e, B)
  <1> DEFINE new == B (-) SetToBag(S)
             left == [e \in DOMAIN B |-> IF e \in S THEN B[e] - 1 ELSE B[e]]
  <1>1. DOMAIN SetToBag(S) = S /\ \A e \in S : SetToBag(S)[e] = 1
    BY DEF SetToBag
  <1>2. left = [e \in DOMAIN B |-> IF e \in DOMAIN SetToBag(S) THEN B[e] - SetToBag(S)[e] ELSE B[e]]
    BY <1>1
  <1>3. new = [e \in {d \in DOMAIN left : left[d] > 0} |-> left[e]]
    BY <1>2 DEF (-)
  <1>4. \A e \in DOMAIN B : left[e] \in Nat
    OBVIOUS
  <1>5. /\ DOMAIN new = {d \in DOMAIN B : left[d] > 0}
        /\ \A e \in DOMAIN new : new[e] = left[e]
        /\ new = [e \in DOMAIN new |-> new[e]]
    BY <1>3
  <1> HIDE DEF new
  <1>6. IsABag(new)
    <2>1. \A e \in DOMAIN new : new[e] \in {n \in Nat : n > 0}
      BY <1>4, <1>5
    <2> QED
      BY <1>5, <2>1 DEF IsABag
  <1>7. \A e : Copies(e, new) =
                  IF e \in S /\ e \in DOMAIN B THEN Copies(e, B) - 1 ELSE Copies(e, B)
    BY <1>5 DEF Copies
  <1> QED
    BY <1>6, <1>7 DEF new

(* A bag has a positive number of copies of what is in it. *)
LEMMA BagCounts ==
    ASSUME NEW B, \A e \in DOMAIN B : B[e] \in Nat \ {0}
    PROVE  \A e : Copies(e, B) \in Nat /\ (e \in DOMAIN B <=> Copies(e, B) > 0)
  BY DEF Copies

(* In which order requests are added to a bag does not matter. *)
LEMMA BagAddCommutes ==
    ASSUME NEW B, NEW S, NEW T, \A e \in DOMAIN B : B[e] \in Nat \ {0}
    PROVE  (B (+) SetToBag(S)) (+) SetToBag(T) = (B (+) SetToBag(T)) (+) SetToBag(S)
  <1> DEFINE BS == B (+) SetToBag(S)
             BT == B (+) SetToBag(T)
  <1>1. /\ \A e \in DOMAIN BS : BS[e] \in Nat \ {0}
        /\ \A e \in DOMAIN BT : BT[e] \in Nat \ {0}
    BY BagUnionDomain
  <1>2. \A e : /\ Copies(e, BS) = Copies(e, B) + (IF e \in S THEN 1 ELSE 0)
               /\ Copies(e, BT) = Copies(e, B) + (IF e \in T THEN 1 ELSE 0)
               /\ Copies(e, B) \in Nat
    BY BagAdd, BagCounts
  <1> HIDE DEF BS, BT
  <1>3. /\ IsABag(BS (+) SetToBag(T)) /\ IsABag(BT (+) SetToBag(S))
        /\ \A e : Copies(e, BS (+) SetToBag(T)) = Copies(e, BS) + (IF e \in T THEN 1 ELSE 0)
        /\ \A e : Copies(e, BT (+) SetToBag(S)) = Copies(e, BT) + (IF e \in S THEN 1 ELSE 0)
    BY <1>1, BagAdd
  <1>4. \A e : Copies(e, BS (+) SetToBag(T)) = Copies(e, BT (+) SetToBag(S))
    BY <1>2, <1>3
  <1>5. BS (+) SetToBag(T) = BT (+) SetToBag(S)
    BY <1>3, <1>4, BagEqual
  <1> QED
    BY <1>5 DEF BS, BT

(* A request that moves from the heap to those drawn stays in their union. *)
LEMMA BagMove ==
    ASSUME NEW B, NEW D, NEW x, \A e \in DOMAIN B : B[e] \in Nat \ {0},
           x \in DOMAIN B, x \notin D
    PROVE  (B (-) SetToBag({x})) (+) SetToBag(D \cup {x}) = B (+) SetToBag(D)
  <1> DEFINE less == B (-) SetToBag({x})
  <1>1. \A e \in DOMAIN less : less[e] \in Nat \ {0}
    BY BagRemoveDomain
  <1>2. \A e : Copies(e, less) =
                  IF e \in {x} /\ e \in DOMAIN B THEN Copies(e, B) - 1 ELSE Copies(e, B)
    BY BagTake
  <1> HIDE DEF less
  <1>3. /\ IsABag(less (+) SetToBag(D \cup {x})) /\ IsABag(B (+) SetToBag(D))
        /\ \A e : Copies(e, less (+) SetToBag(D \cup {x})) =
                     Copies(e, less) + (IF e \in D \cup {x} THEN 1 ELSE 0)
        /\ \A e : Copies(e, B (+) SetToBag(D)) = Copies(e, B) + (IF e \in D THEN 1 ELSE 0)
    BY <1>1, BagAdd
  <1>4. \A e : Copies(e, B) \in Nat
    BY BagCounts
  <1>5. \A e : Copies(e, less (+) SetToBag(D \cup {x})) = Copies(e, B (+) SetToBag(D))
    BY <1>2, <1>3, <1>4
  <1>6. less (+) SetToBag(D \cup {x}) = B (+) SetToBag(D)
    BY <1>3, <1>5, BagEqual
  <1> QED
    BY <1>6 DEF less

(* Taking a request off the heap takes it out of the union with those drawn,
   whether or not another copy of it was drawn. *)
LEMMA BagTakeOne ==
    ASSUME NEW B, NEW D, NEW x, \A e \in DOMAIN B : B[e] \in Nat \ {0}, x \in DOMAIN B
    PROVE  (B (-) SetToBag({x})) (+) SetToBag(D) = (B (+) SetToBag(D)) (-) SetToBag({x})
  <1> DEFINE less == B (-) SetToBag({x})
             more == B (+) SetToBag(D)
  <1>0. \A e \in DOMAIN less : less[e] \in Nat \ {0}
    BY BagRemoveDomain
  <1>b. DOMAIN more = DOMAIN B \cup D /\ \A e \in DOMAIN more : more[e] \in Nat \ {0}
    BY BagUnionDomain
  <1>1. /\ \A e \in DOMAIN less : less[e] \in Nat \ {0}
        /\ \A e \in DOMAIN more : more[e] \in Nat \ {0}
        /\ x \in DOMAIN more
    BY <1>0, <1>b
  <1>2. \A e : Copies(e, less) =
                  IF e \in {x} /\ e \in DOMAIN B THEN Copies(e, B) - 1 ELSE Copies(e, B)
    BY BagTake
  <1>3. \A e : Copies(e, more) = Copies(e, B) + (IF e \in D THEN 1 ELSE 0)
    BY BagAdd
  <1> HIDE DEF less, more
  <1>a. /\ IsABag(less (+) SetToBag(D))
        /\ \A e : Copies(e, less (+) SetToBag(D)) =
                     Copies(e, less) + (IF e \in D THEN 1 ELSE 0)
    BY <1>1, BagAdd
  <1>4. /\ IsABag(more (-) SetToBag({x}))
        /\ \A e : Copies(e, more (-) SetToBag({x})) =
              IF e \in {x} /\ e \in DOMAIN more THEN Copies(e, more) - 1 ELSE Copies(e, more)
    BY <1>1, BagTake
  <1>5. \A e : Copies(e, B) \in Nat
    BY BagCounts
  <1>6. \A e : Copies(e, less (+) SetToBag(D)) = Copies(e, more (-) SetToBag({x}))
    <2> TAKE e
    <2>1. CASE e = x
      BY <1>1, <1>2, <1>3, <1>a, <1>4, <1>5, <2>1
    <2>2. CASE e # x
      BY <1>2, <1>3, <1>a, <1>4, <2>2
    <2> QED
      BY <2>1, <2>2
  <1>7. less (+) SetToBag(D) = more (-) SetToBag({x})
    BY <1>a, <1>4, <1>6, BagEqual
  <1> QED
    BY <1>7 DEF less, more

(* What was added can be taken out again. *)
LEMMA BagTakeBack ==
    ASSUME NEW B, NEW D, \A e \in DOMAIN B : B[e] \in Nat \ {0}
    PROVE  (B (+) SetToBag(D)) (-) SetToBag(D) = B (+) SetToBag({})
  <1> DEFINE more == B (+) SetToBag(D)
  <1>1. DOMAIN more = DOMAIN B \cup D /\ \A e \in DOMAIN more : more[e] \in Nat \ {0}
    BY BagUnionDomain
  <1>2. \A e : Copies(e, more) = Copies(e, B) + (IF e \in D THEN 1 ELSE 0)
    BY BagAdd
  <1> HIDE DEF more
  <1>3. /\ IsABag(more (-) SetToBag(D)) /\ IsABag(B (+) SetToBag({}))
        /\ \A e : Copies(e, more (-) SetToBag(D)) =
              IF e \in D /\ e \in DOMAIN more THEN Copies(e, more) - 1 ELSE Copies(e, more)
        /\ \A e : Copies(e, B (+) SetToBag({})) = Copies(e, B) + (IF e \in {} THEN 1 ELSE 0)
    BY <1>1, BagAdd, BagTake
  <1>4. \A e : Copies(e, B) \in Nat
    BY BagCounts
  <1>5. \A e : Copies(e, more (-) SetToBag(D)) = Copies(e, B (+) SetToBag({}))
    BY <1>1, <1>2, <1>3, <1>4
  <1>6. more (-) SetToBag(D) = B (+) SetToBag({})
    BY <1>3, <1>5, BagEqual
  <1> QED
    BY <1>6 DEF more

(* Steps that leave the players and the acknowledgements of every match, the
   requests, the heap and those drawn alone are not seen from outside. *)
LEMMA UnseenKeeps ==
    ASSUME UNCHANGED <<requests, pq>>, Drawn' = Drawn, DOMAIN matches' = DOMAIN matches,
           \A m \in DOMAIN matches : /\ matches'[m].players = matches[m].players
                                    /\ matches'[m].peerAck = matches[m].peerAck
    PROVE  UNCHANGED <<Waiting, Offers, Live>>
  <1>1. Waiting' = Waiting /\ Offers' = Offers
    BY DEF Waiting, Offers
  <1>2. \A m \in DOMAIN matches : Reporters(m)' = Reporters(m)
    BY DEF Reporters
  <1>3. Live' = Live
    BY <1>2 DEF Live
  <1> QED
    BY <1>1, <1>3

(* Nobody is drawn outside the loop over the slots. *)
LEMMA NobodyDrawn ==
    ASSUME IInv, phase # "Fill"
    PROVE  Drawn = {} /\ ctx = NoContext
  <1>1. ctx = NoContext
    BY DEF IInv, ContextInv
  <1>2. ctx.slot = 0
    BY <1>1 DEF NoContext
  <1> QED
    BY <1>1, <1>2 DEF Drawn, Slots

(* What is drawn is among the offers, which are finitely often there. *)
LEMMA OffersDomain ==
    ASSUME IInv
    PROVE  /\ \A e \in DOMAIN pq : pq[e] \in Nat \ {0}
           /\ DOMAIN Offers = DOMAIN pq \cup Drawn
  <1>1. \A e \in DOMAIN pq : pq[e] \in Nat \ {0}
    BY DEF IInv, TypeOK
  <1> QED
    BY <1>1, BagUnionDomain DEF Offers

(* The bags of MatchService are those of the match maker. *)
LEMMA ServiceBags ==
    ASSUME NEW B, NEW S
    PROVE  /\ Service!(+)(B, Service!SetToBag(S)) = B (+) SetToBag(S)
           /\ Service!(-)(B, Service!SetToBag(S)) = B (-) SetToBag(S)
  BY DEF (+), (-), SetToBag, Service!(+), Service!(-), Service!SetToBag

LEMMA EnqueueAsks ==
    ASSUME IInv, HandleEnqueue
    PROVE  \E s \in Sessions, a \in Addresses : Service!Ask(s, a)
  <1> DEFINE cmd == Head(MatchRequestQueue)
             r == FreshRequest(cmd)
  <1>1. cmd \in MatchRequestCommand /\ cmd.action = "Enqueue"
    BY HandlingType DEF HandleEnqueue, Handling, IInv
  <1>2. cmd.sessionId \in Sessions /\ cmd.address \in Addresses
    BY <1>1 DEF MatchRequestCommand
  <1>3. /\ DOMAIN requests' = DOMAIN requests \cup {cmd.sessionId}
        /\ pq' = pq (+) SetToBag({r})
        /\ Drawn' = Drawn
        /\ matches' = matches
    BY DEF HandleEnqueue, Handling, TryEmplace, Drawn, FreshRequest
  <1>4. Waiting' = Waiting \cup {cmd.sessionId}
    BY <1>3 DEF Waiting
  <1>5. Offers' = Offers (+) SetToBag({r})
    <2> HIDE DEF r
    <2>1. Offers' = (pq (+) SetToBag({r})) (+) SetToBag(Drawn)
      BY <1>3 DEF Offers
    <2>2. \A e \in DOMAIN pq : pq[e] \in Nat \ {0}
      BY OffersDomain
    <2> QED
      BY <2>1, <2>2, BagAddCommutes DEF Offers
  <1>6. Live' = Live
    BY <1>3 DEF Live, Reporters
  <1>7. Service!Ask(cmd.sessionId, cmd.address)
    <2>1. r = [sessionId |-> cmd.sessionId, address |-> cmd.address,
               enqueueTime |-> 0, retryCount |-> 0]
      BY DEF FreshRequest
    <2> HIDE DEF r, cmd
    <2>2. Offers' = Service!(+)(Offers, Service!SetToBag({r}))
      BY <1>5, ServiceBags
    <2> QED
      BY <1>4, <1>6, <2>1, <2>2 DEF Service!Ask
  <1> QED
    BY <1>2, <1>7

LEMMA CancelWithdraws ==
    ASSUME IInv, HandleCancel
    PROVE  \E s \in Sessions : Service!Withdraw(s)
  <1> DEFINE client == Head(MatchRequestQueue).sessionId
  <1>1. client \in Sessions
    BY HandlingType DEF HandleCancel, Handling, IInv, MatchRequestCommand
  <1>2. DOMAIN requests' = DOMAIN requests \ {client} /\ UNCHANGED <<pq, matches, ctx>>
    BY DEF HandleCancel, Handling, EraseRequest, Restrict
  <1>3. Drawn = {} /\ Drawn' = {}
    BY <1>2, NobodyDrawn DEF HandleCancel, Handling, Drawn
  <1>4. Waiting' = Waiting \ {client} /\ Offers' = Offers /\ Live' = Live
    BY <1>2, <1>3 DEF Waiting, Offers, Live, Reporters
  <1>5. Service!Withdraw(client)
    BY <1>4 DEF Service!Withdraw
  <1> QED
    BY <1>1, <1>5

(* A slot whose connection is a client's is that client's. *)
LEMMA ConnectionIsPlayer ==
    ASSUME IInv, NEW m \in DOMAIN matches, NEW s \in Sessions, NEW i \in Slots,
           matches[m].conn[i].sessionId = s
    PROVE  matches[m].players[i].sessionId = s
  <1>1. CASE matches[m].state = "Init"
    <2>1. matches[m].conn = [j \in Slots |-> NoConnection]
      BY <1>1 DEF IInv, AckInv
    <2> QED
      BY <2>1, SessionAssumption DEF NoConnection
  <1>2. CASE matches[m].state # "Init"
    <2>1. matches[m].conn = CollectNetConnection(matches[m].players)
      BY <1>2 DEF IInv, AckInv
    <2> QED
      BY <2>1 DEF CollectNetConnection
  <1> QED
    BY <1>1, <1>2

LEMMA IntroResultReports ==
    ASSUME IInv, HandleIntroResult
    PROVE  \/ \E m \in MatchIds, s \in Sessions : Service!Report(m, s)
           \/ UNCHANGED <<Waiting, Offers, Live>>
  <1> DEFINE cmd == Head(MatchRequestQueue)
             client == cmd.sessionId
             n == cmd.matchId
             idx == IF n \in DOMAIN matches THEN GetPlayerId(matches[n], client) ELSE -1
  <1>1. /\ matches' = IF idx < 0 THEN matches ELSE [matches EXCEPT ![n].peerAck[idx] = TRUE]
        /\ UNCHANGED <<requests, pq, ctx>>
    BY DEF HandleIntroResult, Handling
  <1>2. client \in Sessions
    BY HandlingType DEF HandleIntroResult, Handling, IInv, MatchRequestCommand
  <1>3. Drawn' = Drawn
    BY <1>1 DEF Drawn
  <1>4. CASE idx < 0
    <2>1. matches' = matches
      BY <1>1, <1>4
    <2> QED
      BY <1>1, <1>3, <2>1, UnseenKeeps
  <1>5. CASE ~(idx < 0)
    <2>1. n \in DOMAIN matches /\ idx = GetPlayerId(matches[n], client)
      BY <1>5
    <2>2. n \in MatchIds /\ matches[n] \in Match
      BY <2>1 DEF IInv, TypeOK
    <2>3. \A i, j \in Slots : matches[n].conn[i].sessionId = client
                               /\ matches[n].conn[j].sessionId = client => i = j
      BY <1>2, <2>1, ConnectionIsPlayer DEF IInv, FullRoster
    <2>4. idx \in Slots /\ matches[n].conn[idx].sessionId = client
      <3>1. idx # -1
        BY <1>5
      <3> QED
        BY <2>1, <2>3, <3>1, GetPlayerIdFinds
    <2>5. matches[n].players[idx].sessionId = client
      BY <1>2, <2>1, <2>4, ConnectionIsPlayer
    <2> HIDE DEF idx, n, client, cmd
    <2>6. matches' = [matches EXCEPT ![n].peerAck[idx] = TRUE]
      BY <1>1, <1>5
    <2>7. /\ DOMAIN matches' = DOMAIN matches
          /\ \A m \in DOMAIN matches : m # n => matches'[m] = matches[m]
          /\ matches'[n].players = matches[n].players
          /\ \A i \in Slots : matches'[n].peerAck[i] <=> matches[n].peerAck[i] \/ i = idx
      <3>1. matches' = [matches EXCEPT ![n] = [matches[n] EXCEPT !.peerAck[idx] = TRUE]]
        BY <2>6
      <3>2. matches'[n] = [matches[n] EXCEPT !.peerAck[idx] = TRUE]
        BY <2>1, <3>1
      <3>3. /\ matches'[n].players = matches[n].players
            /\ matches'[n].peerAck = [matches[n].peerAck EXCEPT ![idx] = TRUE]
        BY <2>2, <3>2 DEF Match
      <3>4. matches[n].peerAck \in [Slots -> BOOLEAN]
        BY <2>2 DEF Match
      <3>5. \A i \in Slots : matches'[n].peerAck[i] <=> matches[n].peerAck[i] \/ i = idx
        BY <2>4, <3>3, <3>4
      <3> QED
        BY <3>1, <3>3, <3>5
    <2>8. \A m \in DOMAIN matches :
             /\ matches'[m].players = matches[m].players
             /\ Reporters(m)' = IF m = n THEN Reporters(m) \cup {client} ELSE Reporters(m)
      <3> SUFFICES ASSUME NEW m \in DOMAIN matches
                   PROVE  /\ matches'[m].players = matches[m].players
                          /\ Reporters(m)' = IF m = n THEN Reporters(m) \cup {client} ELSE Reporters(m)
        OBVIOUS
      <3> DEFINE acked == {j \in Slots : matches[m].peerAck[j]}
      <3>1. Reporters(m) = {matches[m].players[i].sessionId : i \in acked}
        BY DEF Reporters
      <3>2. CASE m = n
        <4>1. {j \in Slots : matches'[m].peerAck[j]} = acked \cup {idx}
          BY <2>4, <2>7, <3>2
        <4>2. Reporters(m)' = {matches[m].players[i].sessionId : i \in acked \cup {idx}}
          BY <2>7, <3>2, <4>1 DEF Reporters
        <4> HIDE DEF acked
        <4>3. Reporters(m)' = Reporters(m) \cup {client}
          BY <2>5, <3>1, <3>2, <4>2
        <4> QED
          BY <2>7, <3>2, <4>3
      <3>3. CASE m # n
        BY <2>7, <3>3 DEF Reporters
      <3> QED
        BY <3>2, <3>3
    <2>10. DOMAIN Live = DOMAIN matches /\ Live[n] = [players |-> matches[n].players, acked |-> Reporters(n)]
      BY <2>1 DEF Live
    <2>11. Live' = [Live EXCEPT ![n].acked = @ \cup {client}]
      <3>1. Live' = [m \in DOMAIN matches |->
                       [players |-> matches'[m].players, acked |-> Reporters(m)']]
        BY <2>7 DEF Live
      <3>2. Live' = [m \in DOMAIN matches |->
                       [players |-> matches[m].players,
                        acked |-> IF m = n THEN Reporters(m) \cup {client} ELSE Reporters(m)]]
        BY <2>8, <3>1
      <3>3. [Live EXCEPT ![n].acked = @ \cup {client}] =
              [m \in DOMAIN Live |-> IF m = n THEN [Live[n] EXCEPT !.acked = @ \cup {client}] ELSE Live[m]]
        OBVIOUS
      <3>4. [Live[n] EXCEPT !.acked = @ \cup {client}] =
              [players |-> matches[n].players, acked |-> Reporters(n) \cup {client}]
        BY <2>10
      <3>5. \A m \in DOMAIN matches : Live[m] = [players |-> matches[m].players, acked |-> Reporters(m)]
        BY DEF Live
      <3> QED
        BY <2>10, <3>2, <3>3, <3>4, <3>5
    <2>12. client \in Service!SessionsIn(Live[n].players)
      BY <2>4, <2>5, <2>10 DEF Service!SessionsIn, Service!Players, Slots
    <2>13. Waiting' = Waiting /\ Offers' = Offers
      BY <1>1, <1>3 DEF Waiting, Offers
    <2>14. Service!Report(n, client)
      BY <2>1, <2>10, <2>11, <2>12, <2>13 DEF Service!Report, Service!Counts
    <2> QED
      BY <1>2, <2>2, <2>14
  <1> QED
    BY <1>4, <1>5

LEMMA PopPlayerUnseen ==
    ASSUME IInv, NEW e \in DOMAIN pq, PopPlayer(e)
    PROVE  UNCHANGED <<Waiting, Offers, Live>>
  <1>1. /\ e.sessionId \in DOMAIN requests
        /\ DOMAIN requests' = DOMAIN requests \ {e.sessionId}
        /\ pq' = pq (-) SetToBag({e})
        /\ matches' = matches
        /\ ctx.slot < MaxMatchPlayer
    BY DEF PopPlayer, Popping, EraseRequest, Restrict
  <1>2. ctx.slot \in Slots /\ ctx.players \in Players /\ ctx \in MatchContext
    BY <1>1, SizeAssumption DEF IInv, TypeOK, MatchContext, Slots
  <1>3. /\ ctx'.slot = ctx.slot + 1
        /\ ctx'.players = [ctx.players EXCEPT ![ctx.slot] = e]
    BY <1>2 DEF PopPlayer, MatchContext
  <1>4. Drawn' = Drawn \cup {e}
    <2>1. {j \in Slots : j < ctx'.slot} = {j \in Slots : j < ctx.slot} \cup {ctx.slot}
      BY <1>2, <1>3, SizeAssumption DEF Slots
    <2>2. /\ ctx'.players[ctx.slot] = e
          /\ \A j \in Slots : j < ctx.slot => ctx'.players[j] = ctx.players[j]
      BY <1>2, <1>3, SizeAssumption DEF Players, Slots
    <2>3. \A x : x \in Drawn' <=> \E i \in {j \in Slots : j < ctx.slot} \cup {ctx.slot} : x = ctx'.players[i]
      BY <2>1 DEF Drawn
    <2>4. \A x : x \in Drawn <=> \E i \in {j \in Slots : j < ctx.slot} : x = ctx.players[i]
      BY DEF Drawn
    <2>5. \A x : x \in Drawn' <=> x \in Drawn \/ x = e
      BY <2>2, <2>3, <2>4
    <2> QED
      BY <2>5
  <1>5. e \notin Drawn
    BY <1>1 DEF Drawn, IInv, ContextInv
  <1>6. Offers' = Offers
    <2>1. Offers' = (pq (-) SetToBag({e})) (+) SetToBag(Drawn \cup {e})
      BY <1>1, <1>4 DEF Offers
    <2>2. \A x \in DOMAIN pq : pq[x] \in Nat \ {0}
      BY OffersDomain
    <2> QED
      BY <1>5, <2>1, <2>2, BagMove DEF Offers
  <1>7. Waiting' = Waiting
    <2>1. {r.sessionId : r \in Drawn'} = {r.sessionId : r \in Drawn} \cup {e.sessionId}
      BY <1>4
    <2> QED
      BY <1>1, <2>1 DEF Waiting
  <1>8. Live' = Live
    BY <1>1 DEF Live, Reporters
  <1> QED
    BY <1>6, <1>7, <1>8

LEMMA PopDeletedForgets ==
    ASSUME IInv, NEW e \in DOMAIN pq, PopDeleted(e)
    PROVE  Service!Forget(e) /\ e \in DOMAIN Offers
  <1>1. /\ e.sessionId \notin DOMAIN requests
        /\ pq' = pq (-) SetToBag({e})
        /\ UNCHANGED <<requests, matches, ctx>>
    BY DEF PopDeleted, Popping
  <1>2. Drawn' = Drawn /\ Waiting' = Waiting /\ Live' = Live
    BY <1>1 DEF Drawn, Waiting, Live, Reporters
  <1>3. Offers' = Offers (-) SetToBag({e})
    <2>1. Offers' = (pq (-) SetToBag({e})) (+) SetToBag(Drawn)
      BY <1>1, <1>2 DEF Offers
    <2>2. \A x \in DOMAIN pq : pq[x] \in Nat \ {0}
      BY OffersDomain
    <2> QED
      BY <2>1, <2>2, BagTakeOne DEF Offers
  <1>4. e.sessionId \in Waiting => \E q \in DOMAIN Offers' : q.sessionId = e.sessionId
    <2>1. SUFFICES ASSUME e.sessionId \in Waiting
                   PROVE  \E q \in DOMAIN Offers' : q.sessionId = e.sessionId
      OBVIOUS
    <2>2. PICK q \in Drawn : q.sessionId = e.sessionId
      BY <1>1, <2>1 DEF Waiting
    <2>3. DOMAIN Offers' = DOMAIN pq' \cup Drawn
      <3>1. \A x \in DOMAIN pq : pq[x] \in Nat \ {0}
        BY OffersDomain
      <3>2. \A x \in DOMAIN pq' : pq'[x] \in Nat \ {0}
        BY <1>1, <3>1, BagRemoveDomain
      <3>3. Offers' = pq' (+) SetToBag(Drawn)
        BY <1>2 DEF Offers
      <3> QED
        BY <3>2, <3>3, BagUnionDomain
    <2> QED
      BY <2>2, <2>3
  <1>5. Offers' = Service!(-)(Offers, Service!SetToBag({e}))
    BY <1>3, ServiceBags
  <1>6. Service!Forget(e)
    BY <1>2, <1>4, <1>5 DEF Service!Forget
  <1> QED
    BY <1>6, OffersDomain

LEMMA AddMatchDraws ==
    ASSUME IInv, AddMatch
    PROVE  \E m \in MatchIds : \E players \in [Service!Players -> DOMAIN Offers] :
              Service!Draw(m, players)
  <1> DEFINE players == ctx.players
             m == ctx.matchId
  <1>1. Service!Players = Slots
    BY DEF Service!Players, Slots
  <1>2. /\ ctx.slot = MaxMatchPlayer
        /\ m \in MatchIds
        /\ players \in Players
    BY ContextComplete DEF IInv, TypeOK, MatchContext
  <1>3. \A i \in Slots : i < ctx.slot
    BY <1>2, SizeAssumption DEF Slots
  <1>4. Drawn = {players[i] : i \in Slots}
    <2>1. {j \in Slots : j < ctx.slot} = Slots
      BY <1>3
    <2> QED
      BY <2>1 DEF Drawn
  <1>5. players \in [Slots -> DOMAIN Offers]
    BY <1>2, <1>4, OffersDomain DEF Players
  <1>6. {r.sessionId : r \in Drawn} = Service!SessionsIn(players)
    BY <1>1, <1>4 DEF Service!SessionsIn
  <1>7. /\ \A i \in Slots : players[i].sessionId \notin DOMAIN requests
        /\ \A i, j \in Slots : players[i].sessionId = players[j].sessionId => i = j
    BY <1>3 DEF IInv, ContextInv
  <1>8. Service!SessionsIn(players) \cap DOMAIN requests = {}
    BY <1>1, <1>7 DEF Service!SessionsIn
  <1>9. Drawn' = {}
    <2>1. ctx'.slot = 0
      BY DEF AddMatch, NoContext
    <2> QED
      BY <2>1 DEF Drawn, Slots
  <1>10. UNCHANGED <<requests, pq>>
    BY DEF AddMatch
  <1>11. Waiting' = Waiting \ Service!SessionsIn(players)
    BY <1>6, <1>8, <1>9, <1>10 DEF Waiting
  <1>12. Offers' = Service!(-)(Offers, Service!SetToBag({players[i] : i \in Service!Players}))
    <2>1. \A x \in DOMAIN pq : pq[x] \in Nat \ {0}
      BY OffersDomain
    <2>2. Offers' = pq (+) SetToBag({})
      BY <1>9, <1>10 DEF Offers
    <2>3. Offers' = Offers (-) SetToBag(Drawn)
      BY <2>1, <2>2, BagTakeBack DEF Offers
    <2> QED
      BY <1>1, <1>4, <2>3, ServiceBags
  <1>13. /\ m \notin DOMAIN matches
         /\ DOMAIN matches' = DOMAIN matches \cup {m}
         /\ \A k \in DOMAIN matches : matches'[k] = matches[k]
         /\ matches'[m] = NewMatch(players)
    BY AddsMatch
  <1>14. Live' = [k \in DOMAIN Live \cup {m} |->
                    IF k = m THEN [players |-> players, acked |-> {}] ELSE Live[k]]
    <2>1. Live' = [k \in DOMAIN matches' |-> [players |-> matches'[k].players, acked |-> Reporters(k)']]
      BY DEF Live
    <2>2. \A k \in DOMAIN matches' :
             [players |-> matches'[k].players, acked |-> Reporters(k)'] =
                IF k = m THEN [players |-> players, acked |-> {}] ELSE Live[k]
      <3> SUFFICES ASSUME NEW k \in DOMAIN matches'
                   PROVE  [players |-> matches'[k].players, acked |-> Reporters(k)'] =
                             IF k = m THEN [players |-> players, acked |-> {}] ELSE Live[k]
        OBVIOUS
      <3>1. CASE k = m
        <4>1. matches'[k].players = players /\ \A j \in Slots : ~matches'[k].peerAck[j]
          BY <1>13, <3>1 DEF NewMatch
        <4>2. Reporters(k)' = {}
          BY <4>1 DEF Reporters
        <4> QED
          BY <3>1, <4>1, <4>2
      <3>2. CASE k # m
        <4>1. k \in DOMAIN matches /\ matches'[k] = matches[k]
          BY <1>13, <3>2
        <4>2. Reporters(k)' = Reporters(k)
          BY <4>1 DEF Reporters
        <4> QED
          BY <3>2, <4>1, <4>2 DEF Live
      <3> QED
        BY <3>1, <3>2
    <2>3. DOMAIN Live = DOMAIN matches
      BY DEF Live
    <2> QED
      BY <1>13, <2>1, <2>2, <2>3
  <1>15. m \notin DOMAIN Live
    BY <1>13 DEF Live
  <1>16. Service!SessionsIn(players) \subseteq Waiting
    BY <1>6 DEF Waiting
  <1>17. Service!Draw(m, players)
    BY <1>1, <1>7, <1>11, <1>12, <1>14, <1>15, <1>16 DEF Service!Draw
  <1> QED
    BY <1>1, <1>2, <1>5, <1>17

(* What Live says of a match that is there, and how it ends. *)
LEMMA LiveEnds ==
    ASSUME NEW m \in DOMAIN matches, Erase(m)
    PROVE  /\ m \in DOMAIN Live
           /\ Live[m] = [players |-> matches[m].players, acked |-> Reporters(m)]
           /\ Service!End(m)
  <1>1. DOMAIN Live = DOMAIN matches
        /\ \A k \in DOMAIN matches : Live[k] = [players |-> matches[k].players, acked |-> Reporters(k)]
    BY DEF Live
  <1>2. /\ DOMAIN matches' = DOMAIN matches \ {m}
        /\ \A k \in DOMAIN matches' : matches'[k] = matches[k]
    BY ErasesMatch
  <1>3. Live' = [k \in DOMAIN matches' |-> [players |-> matches'[k].players, acked |-> Reporters(k)']]
    BY DEF Live
  <1>4. \A k \in DOMAIN matches' :
           [players |-> matches'[k].players, acked |-> Reporters(k)'] = Live[k]
    <2> SUFFICES ASSUME NEW k \in DOMAIN matches'
                 PROVE  [players |-> matches'[k].players, acked |-> Reporters(k)'] = Live[k]
      OBVIOUS
    <2>1. Reporters(k)' = Reporters(k)
      BY <1>2 DEF Reporters
    <2> QED
      BY <1>1, <1>2, <2>1
  <1>5. Live' = [k \in DOMAIN Live \ {m} |-> Live[k]]
    BY <1>1, <1>2, <1>3, <1>4
  <1> QED
    BY <1>1, <1>5 DEF Service!End

(* All have reported when every slot is acknowledged, and only then: no
   session plays twice in a match. *)
LEMMA ReportersAreAcked ==
    ASSUME IInv, NEW m \in DOMAIN matches
    PROVE  AllAcked(m) <=> Service!SessionsIn(matches[m].players) \subseteq Reporters(m)
  <1>1. Service!SessionsIn(matches[m].players) = {matches[m].players[i].sessionId : i \in Slots}
    BY DEF Service!SessionsIn, Service!Players, Slots
  <1>2. \A i, j \in Slots :
           matches[m].players[i].sessionId = matches[m].players[j].sessionId => i = j
    BY DEF IInv, FullRoster
  <1>3. ASSUME NEW i \in Slots, matches[m].players[i].sessionId \in Reporters(m)
        PROVE  matches[m].peerAck[i]
    BY <1>2, <1>3 DEF Reporters
  <1>4. ASSUME NEW i \in Slots, matches[m].peerAck[i]
        PROVE  matches[m].players[i].sessionId \in Reporters(m)
    BY <1>4 DEF Reporters
  <1> QED
    BY <1>1, <1>3, <1>4 DEF AllAcked

LEMMA ReadyStarts ==
    ASSUME IInv, NEW m \in MatchIds, MatchReady(m)
    PROVE  Service!Start(m)
  <1>1. m \in DOMAIN matches /\ AllAcked(m) /\ Erase(m) /\ UNCHANGED <<requests, pq, ctx>>
    BY DEF MatchReady, Updating, IInv, TypeOK
  <1>2. Waiting' = Waiting /\ Offers' = Offers
    BY <1>1 DEF Waiting, Offers, Drawn
  <1>3. Service!AllReported(m)
    <2>1. Live[m] = [players |-> matches[m].players, acked |-> Reporters(m)]
      BY <1>1 DEF Live
    <2>2. Service!SessionsIn(matches[m].players) \subseteq Reporters(m)
      BY <1>1, ReportersAreAcked
    <2> QED
      BY <2>1, <2>2 DEF Service!AllReported
  <1> QED
    BY <1>1, <1>2, <1>3, LiveEnds DEF Service!Start

LEMMA TimeoutGivesUp ==
    ASSUME IInv, NEW m \in MatchIds, MatchTimeout(m)
    PROVE  \E t \in 0 .. Horizon : Service!GiveUp(m, t)
  <1>1. /\ m \in DOMAIN matches /\ ~AllAcked(m) /\ Erase(m)
        /\ pq' = pq (+) SetToBag(Retries(m))
        /\ UNCHANGED ctx
        /\ phase = "Results"
    BY DEF MatchTimeout, Updating, IInv, TypeOK
  <1>2. now \in 0 .. Horizon
    BY DEF IInv, TypeOK
  <1>3. Live[m].players = matches[m].players /\ Live[m].acked = Reporters(m)
    <2>1. Live[m] = [players |-> matches[m].players, acked |-> Reporters(m)]
      BY <1>1 DEF Live
    <2> QED
      BY <2>1
  <1>4. ~Service!AllReported(m)
    BY <1>1, <1>3, ReportersAreAcked DEF Service!AllReported
  <1>5. Service!SecondTries(m, now) = Retries(m)
    <2>1. \A i \in Slots : MayRetry(matches[m].players[i]) <=> matches[m].players[i].retryCount < MaxRetry
      <3> SUFFICES ASSUME NEW i \in Slots
                   PROVE  MayRetry(matches[m].players[i]) <=> matches[m].players[i].retryCount < MaxRetry
        OBVIOUS
      <3>1. matches[m].players[i] \in MatchRequest
        BY <1>1 DEF IInv, FullRoster
      <3>2. matches[m].players[i].retryCount \in 0 .. MaxRetry
        BY <3>1 DEF MatchRequest
      <3> QED
        BY <3>2, SizeAssumption DEF MayRetry
    <2>2. {j \in Slots : MayRetry(matches[m].players[j])} =
             {j \in Service!Players : Live[m].players[j].retryCount < MaxRetry}
      BY <1>3, <2>1 DEF Service!Players, Slots
    <2> QED
      BY <1>3, <2>2 DEF Service!SecondTries, Retries, RetryRequest
  <1>6. DOMAIN requests' = DOMAIN requests \cup {r.sessionId : r \in Retries(m)}
    BY DEF MatchTimeout, TryEmplace
  <1>7. Drawn = {} /\ Drawn' = {}
    BY <1>1, NobodyDrawn DEF Drawn
  <1>8. Waiting' = Waiting \cup {r.sessionId : r \in Service!SecondTries(m, now)}
    BY <1>5, <1>6, <1>7 DEF Waiting
  <1>9. Offers' = Service!(+)(Offers, Service!SetToBag(Service!SecondTries(m, now)))
    <2>1. Offers' = (pq (+) SetToBag(Retries(m))) (+) SetToBag(Drawn)
      BY <1>1, <1>7 DEF Offers
    <2>2. \A x \in DOMAIN pq : pq[x] \in Nat \ {0}
      BY OffersDomain
    <2>3. Offers' = Offers (+) SetToBag(Retries(m))
      BY <2>1, <2>2, BagAddCommutes DEF Offers
    <2> QED
      BY <1>5, <2>3, ServiceBags
  <1>10. Service!GiveUp(m, now)
    BY <1>1, <1>4, <1>8, <1>9, LiveEnds DEF Service!GiveUp
  <1> QED
    BY <1>2, <1>10

LEMMA StepImplements ==
    IInv /\ [Next]_vars => [Service!Next]_<<Waiting, Offers, Live>>
  <1> SUFFICES ASSUME IInv, [Next]_vars PROVE [Service!Next]_<<Waiting, Offers, Live>>
    OBVIOUS
  <1>1. CASE HandleEnqueue
    BY <1>1, EnqueueAsks DEF Service!Next
  <1>2. CASE HandleCancel
    BY <1>2, CancelWithdraws DEF Service!Next
  <1>3. CASE HandleIntroResult
    BY <1>3, IntroResultReports DEF Service!Next
  <1>4. ASSUME NEW e \in DOMAIN pq, PopDeleted(e)
        PROVE  [Service!Next]_<<Waiting, Offers, Live>>
    BY <1>4, PopDeletedForgets DEF Service!Next
  <1>5. ASSUME NEW e \in DOMAIN pq, PopPlayer(e)
        PROVE  [Service!Next]_<<Waiting, Offers, Live>>
    BY <1>5, PopPlayerUnseen
  <1>6. CASE AddMatch
    BY <1>6, AddMatchDraws DEF Service!Next
  <1>7. ASSUME NEW m \in MatchIds, MatchReady(m)
        PROVE  [Service!Next]_<<Waiting, Offers, Live>>
    BY <1>7, ReadyStarts DEF Service!Next
  <1>8. ASSUME NEW m \in MatchIds, MatchTimeout(m)
        PROVE  [Service!Next]_<<Waiting, Offers, Live>>
    BY <1>8, TimeoutGivesUp DEF Service!Next
  <1>9. ASSUME NEW m \in MatchIds, MatchInit(m) \/ MatchSendInfo(m) \/ MatchWait(m)
        PROVE  UNCHANGED <<Waiting, Offers, Live>>
    <2>1. /\ DOMAIN matches' = DOMAIN matches
          /\ \A k \in DOMAIN matches : /\ matches'[k].players = matches[k].players
                                       /\ matches'[k].peerAck = matches[k].peerAck
      <3>1. CASE MatchInit(m)
        BY <3>1, InitMatch DEF IInv
      <3>2. CASE MatchSendInfo(m) \/ MatchWait(m)
        <4>1. m \in DOMAIN matches /\ matches' = Advance(m, "WaitPeerReady") /\ "WaitPeerReady" \in MatchState
          BY <3>2 DEF MatchSendInfo, MatchWait, Updating, IInv, TypeOK, MatchState
        <4> QED
          BY <4>1, AdvanceMatch DEF IInv
      <3> QED
        BY <1>9, <3>1, <3>2
    <2>2. UNCHANGED <<requests, pq, ctx>>
      BY <1>9 DEF MatchInit, MatchSendInfo, MatchWait, Updating
    <2>3. Drawn' = Drawn
      BY <2>2 DEF Drawn
    <2> QED
      BY <2>1, <2>2, <2>3, UnseenKeeps
  <1>10. ASSUME \/ \E s \in Sessions : \/ \E a \in Addresses : MatchRequestPacket(s, a)
                                      \/ MatchCancelPacket(s)
                                      \/ \E m \in MatchIds : IntroSuccessPacket(s, m)
                \/ ProcessNetSendRequest \/ SkipCreation \/ EndTick \/ UNCHANGED vars
         PROVE  UNCHANGED <<Waiting, Offers, Live>>
    <2>1. UNCHANGED <<requests, pq, matches, ctx>>
      BY <1>10 DEF MatchRequestPacket, MatchCancelPacket, IntroSuccessPacket, Submit,
                   ProcessNetSendRequest, SkipCreation, EndTick, vars
    <2>2. Drawn' = Drawn
      BY <2>1 DEF Drawn
    <2> QED
      BY <2>1, <2>2, UnseenKeeps
  <1>11. CASE CreateMatchContext
    <2>1. phase # "Fill" /\ ctx'.slot = 0 /\ UNCHANGED <<requests, pq, matches>>
      BY <1>11 DEF CreateMatchContext, RequestsHandled, NoContext
    <2>2. Drawn' = {}
      BY <2>1 DEF Drawn, Slots
    <2> QED
      BY <2>1, <2>2, NobodyDrawn, UnseenKeeps
  <1> QED
    BY <1>1, <1>2, <1>3, <1>4, <1>5, <1>6, <1>7, <1>8, <1>9, <1>10, <1>11
       DEF Next, Packet, Loop, UpdateMatch

(* Whatever the sessions send and in whatever order a tick advances the
   matches, the match maker keeps the promises of MatchService: sessions are
   drawn together only while all of them wait, a match starts when all of its
   players reported and is given up only when not, and then exactly those
   with tries left wait again. *)
THEOREM MatchManagerIsService == Spec => ImplementsService
  <1>1. Init => Service!Init
    <2> SUFFICES ASSUME Init PROVE Service!Init
      OBVIOUS
    <2> USE DEF Init
    <2>1. Drawn = {}
      BY DEF Drawn, NoContext, Slots
    <2>2. Waiting = {}
      BY <2>1 DEF Waiting
    <2>3. Offers = Service!EmptyBag
      BY <2>1 DEF Offers, (+), SetToBag, EmptyBag, Service!EmptyBag, Service!SetToBag
    <2>4. Live = [m \in {} |-> {}]
      BY DEF Live
    <2> QED
      BY <2>2, <2>3, <2>4 DEF Service!Init
  <1>2. IInv /\ [Next]_vars => [Service!Next]_Service!serviceVars
    BY StepImplements DEF Service!serviceVars
  <1> QED
    BY <1>1, <1>2, Invariance, PTL DEF Spec, ImplementsService, Service!Spec
=============================================================================
