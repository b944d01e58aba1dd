----------------------------- MODULE TimeQueue -----------------------------
(***************************************************************************)
(* What a set of event queues promises: an event taken from a queue is one *)
(* of its earliest, and an event taken across the queues is one of the     *)
(* earliest of all.  Nothing is said of events at the same time.  Across   *)
(* the queues, events at the largest timestamp are never found.            *)
(***************************************************************************)
EXTENDS Integers

CONSTANTS
    Sources,    \* the queues
    Event,      \* events, each with a timestamp ts
    Never,      \* the largest timestamp
    Merger,     \* who takes from all of them
    None        \* no event

VARIABLES
    pending,    \* the events in each queue
    out         \* who took last, and the event it got

vars == <<pending, out>>

Earliest(S) == { e \in S : \A f \in S : e.ts <= f.ts }
All == UNION { pending[s] : s \in Sources }
Due == { e \in All : e.ts < Never }

Got(by, e) == [by |-> by, event |-> e]

Init ==
    /\ pending = [s \in Sources |-> {}]
    /\ out = Got(Merger, None)

Put(s, e) ==
    /\ e \notin All
    /\ pending' = [pending EXCEPT ![s] = @ \cup {e}]
    /\ UNCHANGED out

Take(s) ==
    \/ \E e \in Earliest(pending[s]) :
          /\ pending' = [pending EXCEPT ![s] = @ \ {e}]
          /\ out' = Got(s, e)
    \/ /\ pending[s] = {}
       /\ out' = Got(s, None)
       /\ UNCHANGED pending

TakeNext ==
    \/ \E s \in Sources : \E e \in pending[s] \cap Earliest(Due) :
          /\ pending' = [pending EXCEPT ![s] = @ \ {e}]
          /\ out' = Got(Merger, e)
    \/ /\ Due = {}
       /\ out' = Got(Merger, None)
       /\ UNCHANGED pending

Drop(s) ==
    /\ pending' = [pending EXCEPT ![s] = {}]
    /\ UNCHANGED out

Next ==
    \/ \E s \in Sources : (\E e \in Event : Put(s, e)) \/ Take(s) \/ Drop(s)
    \/ TakeNext

Spec == Init /\ [][Next]_vars
=============================================================================
