------------------------------ MODULE MCQueues ------------------------------
(* The two queues of events, EventQueue with its merger and                *)
(* LockFreeEventQueue, in one instance for TLC.  They share nothing: a      *)
(* behaviour runs one of them and leaves the other as it was made.          *)
EXTENDS EventQueue, LockFreeEventQueue, TLC

VARIABLE part

QueuesInit == Init /\ RingInit /\ part \in {"heap", "ring"}

QueuesNext ==
    \/ part = "heap" /\ Next /\ UNCHANGED <<ringVars, part>>
    \/ part = "ring" /\ RingNext /\ UNCHANGED <<vars, part>>

QueuesSpec == QueuesInit /\ [][QueuesNext]_<<vars, ringVars, part>>

\* The events of the ring differ in name only.
Interchangeable == Permutations(Events)
=============================================================================
