---------------------------- MODULE MatchService ----------------------------
(***************************************************************************)
(* What the match maker promises to the sessions that ask it for a match,  *)
(* each promise taking effect in one step.  Who asks waits.  A match is    *)
(* drawn at once from as many different sessions that wait as it has       *)
(* players.  It ends in one of two ways: it starts, when all of its        *)
(* players have reported that they reached each other; or it is given up,  *)
(* when they have not, and then those who have tries left wait again.      *)
(*                                                                         *)
(* When this happens, and which of those who wait are drawn, is left open. *)
(***************************************************************************)
EXTENDS Integers, Bags

CONSTANTS
    Sessions,
    Addresses,   \* the UDP addresses that sessions announce
    NoAddress,   \* what stands for the address in a second try
    MatchSize,   \* players of a match
    MaxRetry,    \* how often a session is asked again
    Times,       \* of the clock
    MatchIds

VARIABLES
    waiting,     \* the sessions that wait
    offers,      \* a bag: the requests that may be drawn while they do
    live         \* match id -> its players' requests and who has reported

serviceVars == <<waiting, offers, live>>

Players == 0 .. MatchSize - 1

SessionsIn(players) == {players[i].sessionId : i \in Players}

Init ==
    /\ waiting = {}
    /\ offers = EmptyBag
    /\ live = [m \in {} |-> {}]

(* A session that waits already has one more request in the bag.           *)
Ask(s, a) ==
    /\ waiting' = waiting \cup {s}
    /\ offers' = offers (+) SetToBag({[sessionId |-> s, address |-> a,
                                       enqueueTime |-> 0, retryCount |-> 0]})
    /\ UNCHANGED live

Withdraw(s) ==
    /\ waiting' = waiting \ {s}
    /\ UNCHANGED <<offers, live>>

(* A request may be thrown away, but the last one of a session only while  *)
(* it does not wait.                                                       *)
Forget(r) ==
    /\ offers' = offers (-) SetToBag({r})
    /\ r.sessionId \in waiting => \E q \in DOMAIN offers' : q.sessionId = r.sessionId
    /\ UNCHANGED <<waiting, live>>

Draw(m, players) ==
    /\ m \notin DOMAIN live
    /\ SessionsIn(players) \subseteq waiting
    /\ \A i, j \in Players : players[i].sessionId = players[j].sessionId => i = j
    /\ waiting' = waiting \ SessionsIn(players)
    /\ offers' = offers (-) SetToBag({players[i] : i \in Players})
    /\ live' = [k \in DOMAIN live \cup {m} |->
                   IF k = m THEN [players |-> players, acked |-> {}] ELSE live[k]]

(* A report counts for a match that is not over, from a player of it.      *)
Counts(m, s) == m \in DOMAIN live /\ s \in SessionsIn(live[m].players)

Report(m, s) ==
    /\ Counts(m, s)
    /\ live' = [live EXCEPT ![m].acked = @ \cup {s}]
    /\ UNCHANGED <<waiting, offers>>

AnyReported(m) == SessionsIn(live[m].players) \cap live[m].acked # {}

AllReported(m) == SessionsIn(live[m].players) \subseteq live[m].acked

End(m) == live' = [k \in DOMAIN live \ {m} |-> live[k]]

Start(m) ==
    /\ m \in DOMAIN live
    /\ AllReported(m)
    /\ End(m)
    /\ UNCHANGED <<waiting, offers>>

(* The second try of a player is one without its address.                  *)
SecondTries(m, now) ==
    {[sessionId |-> live[m].players[i].sessionId, address |-> NoAddress,
      enqueueTime |-> now, retryCount |-> live[m].players[i].retryCount + 1] :
        i \in {j \in Players : live[m].players[j].retryCount < MaxRetry}}

GiveUp(m, now) ==
    /\ m \in DOMAIN live
    /\ ~ AllReported(m)
    /\ waiting' = waiting \cup {r.sessionId : r \in SecondTries(m, now)}
    /\ offers' = offers (+) SetToBag(SecondTries(m, now))
    /\ End(m)

Next ==
    \/ \E s \in Sessions : \/ \E a \in Addresses : Ask(s, a)
                           \/ Withdraw(s)
    \/ \E r \in DOMAIN offers : Forget(r)
    \/ \E m \in MatchIds :
          \/ \E players \in [Players -> DOMAIN offers] : Draw(m, players)
          \/ \E s \in Sessions : Report(m, s)
          \/ Start(m)
          \/ \E now \in Times : GiveUp(m, now)

Spec == Init /\ [][Next]_serviceVars
=============================================================================
