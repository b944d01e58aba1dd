----------------------------- MODULE BoundedFifo -----------------------------
(***************************************************************************)
(* What LockFreeEventQueue promises, with no word on how: a queue of at    *)
(* most Capacity events from which consumers take in the order of arrival. *)
(* try_push and try_pop may also give up (full, empty): that changes       *)
(* nothing here.                                                           *)
(***************************************************************************)
EXTENDS Integers, Sequences

CONSTANTS
    Events,     \* events
    Consumers,  \* threads that call try_pop
    Capacity,   \* Capacity of the template
    NoEvent     \* no event

VARIABLES
    queue,      \* events waiting, oldest first
    inHand      \* the event a consumer has taken and not returned yet

vars == <<queue, inHand>>

Init ==
    /\ queue = <<>>
    /\ inHand = [c \in Consumers |-> NoEvent]

Put(e) ==
    /\ Len(queue) < Capacity
    /\ queue' = Append(queue, e)
    /\ UNCHANGED inHand

Take(c) ==
    /\ queue # <<>>
    /\ inHand[c] = NoEvent
    /\ inHand' = [inHand EXCEPT ![c] = Head(queue)]
    /\ queue' = Tail(queue)

Return(c) ==
    /\ inHand[c] # NoEvent
    /\ inHand' = [inHand EXCEPT ![c] = NoEvent]
    /\ UNCHANGED queue

Next ==
    \/ \E e \in Events : Put(e)
    \/ \E c \in Consumers : Take(c) \/ Return(c)

Spec == Init /\ [][Next]_vars
=============================================================================
