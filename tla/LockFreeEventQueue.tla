------------------------- MODULE LockFreeEventQueue -------------------------
(***************************************************************************)
(* backtest::LockFreeEventQueue: a ring of Capacity slots, each with a     *)
(* sequence number that says whose turn it is.  Position p uses the slot   *)
(* p % Capacity; the slot's number is p when p may be written, p + 1 when  *)
(* its event may be read, and p + Capacity when the next round may write.  *)
(*                                                                         *)
(* One action per atomic access.  The relaxed loads of tail_ and head_ may *)
(* return any value since the last one the thread has seen.  The numbers   *)
(* in sequence_ are read as last written: an older number only makes a     *)
(* call give up, or lose its exchange, and both can happen here anyway.    *)
(* The exchanges act on the newest counter, and the release and acquire of *)
(* a number order the accesses to the slot it guards.                      *)
(***************************************************************************)
EXTENDS Integers, Sequences

CONSTANTS
    Events,     \* events, each one pushed at most once
    Producers,  \* threads that call try_push
    Consumers,  \* threads that call try_pop
    Capacity,   \* Capacity of the template
    NoEvent     \* no event

\* The template accepts a Capacity of one as well, with which the number of a
\* full slot and that of a free one coincide; the queue needs two.
ASSUME CapacityAssumption == Capacity \in Nat \ {0, 1}
ASSUME ThreadsAssumption ==
    /\ Producers \cap Consumers = {}
    /\ NoEvent \notin Events

VARIABLES
    tail,      \* tail_
    head,      \* head_
    sequence,  \* sequence_
    buffer,    \* buffer_
    pc,        \* where each thread is in its call
    pos,       \* the local pos; between calls, the newest value seen
    item,      \* the event a thread holds
    log        \* history: the events accepted, by position

ringVars == <<tail, head, sequence, buffer, pc, pos, item, log>>

Threads == Producers \cup Consumers
Slots == 0 .. Capacity - 1
Slot(p) == p % Capacity

\* The difference between the number of the slot and the one that is awaited.
Ahead(t, awaited) == sequence[Slot(pos[t])] - awaited

\* Some value of an atomic counter, at least as new as the one t saw last.
Reload(t, counter) == \E v \in pos[t] .. counter : pos' = [pos EXCEPT ![t] = v]

Goto(t, label) == pc' = [pc EXCEPT ![t] = label]

-----------------------------------------------------------------------------
(* try_push                                                                *)

\* An event is a tag that tells events apart: each is offered until accepted.
Offered(e) ==
    /\ \A i \in 1 .. Len(log) : log[i] # e
    /\ \A t \in Producers : item[t] # e

PushCall(t, e) ==
    /\ pc[t] = "idle"
    /\ Offered(e)
    /\ item' = [item EXCEPT ![t] = e]
    /\ Reload(t, tail)
    /\ Goto(t, "check")
    /\ UNCHANGED <<tail, head, sequence, buffer, log>>

PushFree(t) ==
    /\ pc[t] = "check"
    /\ Ahead(t, pos[t]) = 0
    /\ Goto(t, "claim")
    /\ UNCHANGED <<tail, head, sequence, buffer, pos, item, log>>

PushFull(t) ==
    /\ pc[t] = "check"
    /\ Ahead(t, pos[t]) < 0
    /\ item' = [item EXCEPT ![t] = NoEvent]
    /\ Goto(t, "idle")
    /\ UNCHANGED <<tail, head, sequence, buffer, pos, log>>

PushBehind(t) ==
    /\ pc[t] = "check"
    /\ Ahead(t, pos[t]) > 0
    /\ Reload(t, tail)
    /\ UNCHANGED <<tail, head, sequence, buffer, pc, item, log>>

\* Variants named ..._ are plausible slips in the definition that follows them;
\* no specification uses them, the mutation checks do.
PushClaim_Blind(t) ==
    /\ pc[t] = "claim"
    /\ tail' = pos[t] + 1
    /\ log' = Append(log, item[t])
    /\ Goto(t, "move")
    /\ UNCHANGED <<head, sequence, buffer, pos, item>>

PushClaim(t) ==
    /\ pc[t] = "claim"
    /\ tail = pos[t]
    /\ tail' = pos[t] + 1
    /\ log' = Append(log, item[t])
    /\ Goto(t, "move")
    /\ UNCHANGED <<head, sequence, buffer, pos, item>>

PushRetry_MovedFrom(t) ==
    /\ pc[t] = "claim"
    /\ Reload(t, tail)
    /\ item' = [item EXCEPT ![t] = NoEvent]
    /\ Goto(t, "check")
    /\ UNCHANGED <<tail, head, sequence, buffer, log>>

\* compare_exchange_weak may fail for no reason; it reloads pos when it fails.
PushRetry(t) ==
    /\ pc[t] = "claim"
    /\ Reload(t, tail)
    /\ Goto(t, "check")
    /\ UNCHANGED <<tail, head, sequence, buffer, item, log>>

PushMove(t) ==
    /\ pc[t] = "move"
    /\ buffer' = [buffer EXCEPT ![Slot(pos[t])] = item[t]]
    /\ Goto(t, "publish")
    /\ UNCHANGED <<tail, head, sequence, pos, item, log>>

PushPublish(t) ==
    /\ pc[t] = "publish"
    /\ sequence' = [sequence EXCEPT ![Slot(pos[t])] = pos[t] + 1]
    /\ item' = [item EXCEPT ![t] = NoEvent]
    /\ pos' = [pos EXCEPT ![t] = @ + 1]
    /\ Goto(t, "idle")
    /\ UNCHANGED <<tail, head, buffer, log>>

-----------------------------------------------------------------------------
(* try_pop                                                                 *)

PopCall(t) ==
    /\ pc[t] = "idle"
    /\ Reload(t, head)
    /\ Goto(t, "check")
    /\ UNCHANGED <<tail, head, sequence, buffer, item, log>>

PopReady(t) ==
    /\ pc[t] = "check"
    /\ Ahead(t, pos[t] + 1) = 0
    /\ Goto(t, "claim")
    /\ UNCHANGED <<tail, head, sequence, buffer, pos, item, log>>

PopEmpty(t) ==
    /\ pc[t] = "check"
    /\ Ahead(t, pos[t] + 1) < 0
    /\ Goto(t, "idle")
    /\ UNCHANGED <<tail, head, sequence, buffer, pos, item, log>>

PopBehind(t) ==
    /\ pc[t] = "check"
    /\ Ahead(t, pos[t] + 1) > 0
    /\ Reload(t, head)
    /\ UNCHANGED <<tail, head, sequence, buffer, pc, item, log>>

PopClaim_ReleasesFirst(t) ==
    /\ pc[t] = "claim"
    /\ head = pos[t]
    /\ head' = pos[t] + 1
    /\ sequence' = [sequence EXCEPT ![Slot(pos[t])] = pos[t] + Capacity]
    /\ Goto(t, "move")
    /\ UNCHANGED <<tail, buffer, pos, item, log>>

PopClaim(t) ==
    /\ pc[t] = "claim"
    /\ head = pos[t]
    /\ head' = pos[t] + 1
    /\ Goto(t, "move")
    /\ UNCHANGED <<tail, sequence, buffer, pos, item, log>>

PopRetry(t) ==
    /\ pc[t] = "claim"
    /\ Reload(t, head)
    /\ Goto(t, "check")
    /\ UNCHANGED <<tail, head, sequence, buffer, item, log>>

PopMove(t) ==
    /\ pc[t] = "move"
    /\ item' = [item EXCEPT ![t] = buffer[Slot(pos[t])]]
    /\ Goto(t, "publish")
    /\ UNCHANGED <<tail, head, sequence, buffer, pos, log>>

PopPublish_NextPosition(t) ==
    /\ pc[t] = "publish"
    /\ sequence' = [sequence EXCEPT ![Slot(pos[t])] = pos[t] + 1]
    /\ item' = [item EXCEPT ![t] = NoEvent]
    /\ pos' = [pos EXCEPT ![t] = @ + 1]
    /\ Goto(t, "idle")
    /\ UNCHANGED <<tail, head, buffer, log>>

PopPublish(t) ==
    /\ pc[t] = "publish"
    /\ sequence' = [sequence EXCEPT ![Slot(pos[t])] = pos[t] + Capacity]
    /\ item' = [item EXCEPT ![t] = NoEvent]
    /\ pos' = [pos EXCEPT ![t] = @ + 1]
    /\ Goto(t, "idle")
    /\ UNCHANGED <<tail, head, buffer, log>>

-----------------------------------------------------------------------------

RingInit ==
    /\ tail = 0
    /\ head = 0
    /\ sequence = [s \in Slots |-> s]
    /\ buffer = [s \in Slots |-> NoEvent]
    /\ pc = [t \in Threads |-> "idle"]
    /\ pos = [t \in Threads |-> 0]
    /\ item = [t \in Threads |-> NoEvent]
    /\ log = <<>>

TryPush(t) ==
    \/ \E e \in Events : PushCall(t, e)
    \/ PushFree(t)
    \/ PushFull(t)
    \/ PushBehind(t)
    \/ PushClaim(t)
    \/ PushRetry(t)
    \/ PushMove(t)
    \/ PushPublish(t)

TryPop(t) ==
    \/ PopCall(t)
    \/ PopReady(t)
    \/ PopEmpty(t)
    \/ PopBehind(t)
    \/ PopClaim(t)
    \/ PopRetry(t)
    \/ PopMove(t)
    \/ PopPublish(t)

RingNext ==
    \/ \E t \in Producers : TryPush(t)
    \/ \E t \in Consumers : TryPop(t)

RingSpec == RingInit /\ [][RingNext]_ringVars

-----------------------------------------------------------------------------
(* Properties                                                              *)

\* Type invariant of the ring.
RingTypeOK ==
    /\ tail \in Nat
    /\ head \in Nat
    /\ sequence \in [Slots -> Nat]
    /\ buffer \in [Slots -> Events \cup {NoEvent}]
    /\ pc \in [Threads -> {"idle", "check", "claim", "move", "publish"}]
    /\ pos \in [Threads -> Nat]
    /\ item \in [Threads -> Events \cup {NoEvent}]
    /\ log \in Seq(Events)

\* A thread that owns a slot: it has claimed a position and not passed it on.
Owns(t) == pc[t] \in {"move", "publish"}

\* No two threads work on the same slot at the same time, so the plain accesses
\* to buffer_ never race.
OneOwnerPerSlot ==
    \A t, u \in Threads :
        (t # u /\ Owns(t) /\ Owns(u)) => Slot(pos[t]) # Slot(pos[u])

\* No slot is ever lost: when no thread is inside a slot, the events waiting can
\* all be read, and every other slot can be written in the coming round.
NoSlotLost ==
    (\A t \in Threads : ~ Owns(t)) =>
        /\ tail - head \in 0 .. Capacity
        /\ \A p \in head .. tail - 1 : sequence[Slot(p)] = p + 1
        /\ \A p \in tail .. head + Capacity - 1 : sequence[Slot(p)] = p

\* The last Capacity positions claimed by producers, one per slot.
Window == tail - Capacity .. tail - 1

\* A position of the window is being written, ready or being read, or free again.
Writing(p) ==
    /\ sequence[Slot(p)] = p
    /\ p >= head
    /\ \E t \in Producers : Owns(t) /\ pos[t] = p

Readable(p) ==
    /\ sequence[Slot(p)] = p + 1
    /\ buffer[Slot(p)] = log[p + 1]
    /\ p >= head \/ \E t \in Consumers : Owns(t) /\ pos[t] = p

Released(p) ==
    /\ sequence[Slot(p)] = p + Capacity
    /\ p < head

PositionOK(p) == Writing(p) \/ Readable(p) \/ Released(p)

\* A producer in its slot holds the event accepted for its position.
ProducerOK(t) ==
    /\ pc[t] \in {"check", "claim"} => item[t] \in Events
    /\ pc[t] = "claim" => sequence[Slot(pos[t])] >= pos[t]
    /\ Owns(t) =>
          /\ pos[t] \in Window
          /\ sequence[Slot(pos[t])] = pos[t]
          /\ item[t] = log[pos[t] + 1]
    /\ pc[t] = "publish" => buffer[Slot(pos[t])] = log[pos[t] + 1]

\* A consumer in its slot has a position that producers published.
ConsumerOK(t) ==
    /\ pc[t] = "claim" => sequence[Slot(pos[t])] > pos[t]
    /\ Owns(t) =>
          /\ pos[t] \in Window
          /\ pos[t] < head
          /\ sequence[Slot(pos[t])] = pos[t] + 1
    /\ item[t] = IF pc[t] = "publish" THEN log[pos[t] + 1] ELSE NoEvent

\* The inductive invariant behind ImplementsFifo.
RingInv ==
    /\ RingTypeOK
    /\ Len(log) = tail
    /\ head <= tail /\ tail <= head + Capacity
    /\ \A p \in Window : PositionOK(p)
    /\ \A t \in Producers : ProducerOK(t)
    /\ \A t \in Consumers : ConsumerOK(t)
    /\ \A t, u \in Producers : (t # u /\ Owns(t) /\ Owns(u)) => pos[t] # pos[u]
    /\ \A t, u \in Consumers : (t # u /\ Owns(t) /\ Owns(u)) => pos[t] # pos[u]

\* The ring implements a bounded queue that is first in, first out: each event
\* accepted is handed to one consumer, unchanged, in the order of acceptance.
Fifo == INSTANCE BoundedFifo WITH
    queue <- SubSeq(log, head + 1, Len(log)),
    inHand <- [t \in Consumers |->
                 IF pc[t] = "move" THEN log[pos[t] + 1] ELSE item[t]]

ImplementsFifo == Fifo!Spec
=============================================================================
