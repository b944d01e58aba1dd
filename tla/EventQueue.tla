----------------------------- MODULE EventQueue -----------------------------
(***************************************************************************)
(* backtest::EventQueue, a std::priority_queue of events that compares     *)
(* timestamps only, and backtest::EventMerger over several of them.        *)
(*                                                                         *)
(* heap[s] is the array below the priority queue, its root first.  Pushes  *)
(* and pops arrange it as libstdc++ does, because what comes first among   *)
(* events at the same time depends on nothing else.                        *)
(***************************************************************************)
EXTENDS Integers, Sequences, Functions

CONSTANTS
    NSources,   \* number of queues in sources_
    Times,      \* timestamps
    Never,      \* std::numeric_limits<Timestamp>::max()
    MaxPushes,  \* bound: events pushed in one behaviour
    None        \* std::nullopt

ASSUME ConstantsAssumption ==
    /\ NSources \in Nat \ {0}
    /\ Times \subseteq Int
    /\ Never \in Int
    /\ \A t \in Times : t <= Never
    /\ MaxPushes \in Nat

VARIABLES
    heap,       \* events_ of each queue
    count,      \* event_count_ of each queue
    last        \* the last pop or pop_next: whose it was, and what it returned

vars == <<heap, count, last>>

Sources == 1 .. NSources
Merger == 0

\* An event; n tells when its queue received it and is not part of the program.
Event == [ts : Times, source : Sources, n : 1 .. MaxPushes]

-----------------------------------------------------------------------------
(* The heap                                                                *)

\* EventComparator: e has to wait for f.
Later(e, f) == e.ts > f.ts

Parent(i) == i \div 2

\* Position i and those above it.
Path(i) ==
    LET above[j \in 1 .. i] == IF j = 1 THEN {1} ELSE {j} \cup above[Parent(j)]
    IN  above[i]

\* std::push_heap: on the way from the new leaf to the root, every event later
\* than e moves down by one, and e takes the place that is left.
HeapPush(h, e) ==
    LET n == Len(h) + 1
        MovesDown(i) == i \in Path(n) \ {n} /\ Later(h[i], e)
    IN
    [ i \in 1 .. n |->
        IF i > 1 /\ i \in Path(n) /\ MovesDown(Parent(i)) THEN h[Parent(i)]
        ELSE IF i = n \/ MovesDown(i) THEN e
        ELSE h[i] ]

\* Of two children, the one that the hole at the root moves to: the left one
\* only if the right one is later or missing.
Preferred(h, m, i) ==
    IF i % 2 = 0
    THEN i = m \/ Later(h[i + 1], h[i])
    ELSE ~ Later(h[i], h[i - 1])

HeapPop_NoSink(h) ==
    [ i \in 1 .. Len(h) - 1 |-> IF i = 1 THEN h[Len(h)] ELSE h[i] ]

\* std::pop_heap: the hole left by the root sinks to a leaf through preferred
\* children, and the last event of the array rises from there.
HeapPop(h) ==
    LET m == Len(h) - 1
        e == h[m + 1]
        Sinks(i) == i \in 1 .. m /\ \A j \in Path(i) \ {1} : Preferred(h, m, j)
        MovesUp(i) == i > 1 /\ Sinks(i) /\ ~ Later(h[i], e)
    IN
    [ i \in 1 .. m |->
        IF MovesUp(2 * i) THEN h[2 * i]
        ELSE IF MovesUp(2 * i + 1) THEN h[2 * i + 1]
        ELSE IF (i = 1) \/ MovesUp(i) THEN e
        ELSE h[i] ]

NextTimestamp(s) == IF heap[s] = <<>> THEN Never ELSE heap[s][1].ts

-----------------------------------------------------------------------------
(* Calls                                                                   *)

Got(by, e) == [by |-> by, event |-> e]

Push(s, ts) ==
    /\ SumFunctionOnSet(count, Sources) < MaxPushes
    /\ heap' = [heap EXCEPT ![s] =
                  HeapPush(@, [ts |-> ts, source |-> s, n |-> count[s] + 1])]
    /\ count' = [count EXCEPT ![s] = @ + 1]
    /\ UNCHANGED last

\* Variants named ..._ are plausible slips in the definition that follows them;
\* no specification uses them, the mutation checks do.
PopFor_Uncounts(s, by) ==
    /\ IF heap[s] = <<>>
       THEN last' = Got(by, None) /\ UNCHANGED heap
       ELSE /\ last' = Got(by, heap[s][1])
            /\ heap' = [heap EXCEPT ![s] = HeapPop(@)]
    /\ count' = [count EXCEPT ![s] = @ - 1]

PopFor(s, by) ==
    /\ IF heap[s] = <<>>
       THEN last' = Got(by, None) /\ UNCHANGED heap
       ELSE /\ last' = Got(by, heap[s][1])
            /\ heap' = [heap EXCEPT ![s] = HeapPop(@)]
    /\ UNCHANGED count

Pop(s) == PopFor(s, s)

Best_FirstWithEvents(s) ==
    /\ heap[s] # <<>>
    /\ \A r \in 1 .. s - 1 : heap[r] = <<>>

\* EventMerger::pop_next keeps the first source that is strictly earlier than
\* those before it, starting from Never.
Best(s) ==
    /\ heap[s] # <<>>
    /\ NextTimestamp(s) < Never
    /\ \A r \in 1 .. s - 1 : NextTimestamp(r) > NextTimestamp(s)
    /\ \A r \in s + 1 .. NSources : NextTimestamp(r) >= NextTimestamp(s)

PopNext ==
    \/ \E s \in Sources : Best(s) /\ PopFor(s, Merger)
    \/ /\ ~ \E s \in Sources : Best(s)
       /\ last' = Got(Merger, None)
       /\ UNCHANGED <<heap, count>>

Clear(s) ==
    /\ heap' = [heap EXCEPT ![s] = <<>>]
    /\ UNCHANGED <<count, last>>

Init ==
    /\ heap = [s \in Sources |-> <<>>]
    /\ count = [s \in Sources |-> 0]
    /\ last = Got(Merger, None)

Next ==
    \/ \E s \in Sources : \E ts \in Times : Push(s, ts)
    \/ \E s \in Sources : Pop(s)
    \/ PopNext
    \/ \E s \in Sources : Clear(s)

Spec == Init /\ [][Next]_vars

-----------------------------------------------------------------------------
(* Properties                                                              *)

\* Type invariant of the queues.
TypeOK ==
    /\ heap \in [Sources -> Seq(Event)]
    /\ count \in [Sources -> Nat]
    /\ last \in [by : Sources \cup {Merger}, event : Event \cup {None}]

\* No event is in front of an earlier one above it in the heap.
HeapOrdered ==
    \A s \in Sources : \A i \in 2 .. Len(heap[s]) :
        ~ Later(heap[s][Parent(i)], heap[s][i])

\* The heaps and the merger implement queues that give out an earliest event,
\* lose none and invent none.
Pending == [s \in Sources |-> Range(heap[s])]

Promise == INSTANCE TimeQueue WITH pending <- Pending, out <- last

ImplementsTimeQueue == Promise!Spec

\* Events that are pushed at the same time come out in the order of the pushes.
FirstPushedFirst ==
    [][\A s \in Sources : \A i, j \in 1 .. Len(heap[s]) :
          LET e == heap[s][i]  f == heap[s][j] IN
          (e.ts = f.ts /\ e.n < f.n) => last'.event # f]_vars
=============================================================================
