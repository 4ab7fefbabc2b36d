----------------------------- MODULE BoundedFifo -----------------------------
(***************************************************************************)
(* What SPSCQueue promises to its two threads, each call taking effect in  *)
(* one step: a first-in first-out queue of at most Capacity values that    *)
(* refuses a value exactly when it is full and has none to give exactly    *)
(* when it is empty.                                                       *)
(***************************************************************************)
EXTENDS Integers, Sequences

CONSTANTS
    Values,    \* what the queue holds
    Capacity,  \* how many of them, a positive number
    Nothing    \* the answer of an empty queue

VARIABLES
    queue,     \* the values in the queue, oldest first
    accepted,  \* what the last completed put returned
    taken      \* what the last completed take returned

Init == queue = <<>> /\ accepted = FALSE /\ taken = Nothing

Put(v) ==
    /\ Len(queue) < Capacity
    /\ queue' = Append(queue, v)
    /\ accepted' = TRUE
    /\ UNCHANGED taken

Refuse ==
    /\ Len(queue) = Capacity
    /\ accepted' = FALSE
    /\ UNCHANGED <<queue, taken>>

Take ==
    /\ queue # <<>>
    /\ taken' = Head(queue)
    /\ queue' = Tail(queue)
    /\ UNCHANGED accepted

Miss ==
    /\ queue = <<>>
    /\ taken' = Nothing
    /\ UNCHANGED <<queue, accepted>>

(* The queue is thrown away with what is in it. *)
Discard == queue' = <<>> /\ UNCHANGED <<accepted, taken>>

Next == (\E v \in Values : Put(v)) \/ Refuse \/ Take \/ Miss \/ Discard

Spec == Init /\ [][Next]_<<queue, accepted, taken>>
=============================================================================
