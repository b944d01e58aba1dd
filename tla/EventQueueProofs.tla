-------------------------- MODULE EventQueueProofs --------------------------
(***************************************************************************)
(* Proofs about the queues of event_queue.hpp.  EventQueue: a push and a   *)
(* pop of the priority queue leave a heap with the right events in it, so  *)
(* its root is an earliest event, and the heaps with the merger implement  *)
(* the abstract TimeQueue, for any number of sources, any timestamps and   *)
(* any number of events.  LockFreeEventQueue (from "Positions and slots"   *)
(* on): the ring implements the abstract BoundedFifo, for every capacity   *)
(* of at least two and any number of threads and events.                   *)
(***************************************************************************)
EXTENDS EventQueue, LockFreeEventQueue, SumTheorems, SequenceTheorems, TLAPS

-----------------------------------------------------------------------------
(* Induction on positions                                                  *)

LEMMA LeastPosition ==
    ASSUME NEW S \in SUBSET Nat, S # {}
    PROVE  \E k \in S : \A j \in S : k <= j
<1> DEFINE Good == { n \in Nat : \A j \in S : n <= j }
<1>1. SUFFICES ASSUME \A k \in S : \E j \in S : j < k
               PROVE  FALSE
  OBVIOUS
<1>2. 0 \in Good
  OBVIOUS
<1>3. ASSUME NEW n \in Nat, n \in Good
      PROVE  n + 1 \in Good
  BY <1>1, <1>3
<1>4. PICK s \in S : s \in Nat
  BY <1>1
<1>5. s + 1 \in Nat
  BY <1>4
<1>6. s + 1 \notin Good
  BY <1>4
<1> HIDE DEF Good
<1> QED
  BY <1>2, <1>3, <1>5, <1>6, NatSetInduction

LEMMA GreatestPosition ==
    ASSUME NEW m \in Nat, NEW S, S # {}, \A j \in S : j \in Nat /\ 1 <= j /\ j <= m
    PROVE  \E k \in S : \A j \in S : j <= k
<1> DEFINE Bounds == { n \in Nat : \A j \in S : j <= n }
<1>1. Bounds \in SUBSET Nat /\ Bounds # {}
  <2>1. m \in Bounds
    OBVIOUS
  <2> QED
    BY <2>1
<1>2. PICK n \in Bounds : \A j \in Bounds : n <= j
  <2> HIDE DEF Bounds
  <2> QED
    BY <1>1, LeastPosition
<1>3. n \in Nat /\ \A j \in S : j <= n
  OBVIOUS
<1>4. n \in S
  <2> SUFFICES ASSUME n \notin S
               PROVE  FALSE
    OBVIOUS
  <2>1. n - 1 \in Nat
    <3>1. PICK j \in S : j \in Nat /\ j >= 1
      OBVIOUS
    <3> HIDE DEF Bounds
    <3> QED
      BY <1>3, <3>1
  <2>2. n - 1 \in Bounds
    BY <1>3, <2>1
  <2> QED
    BY <1>2, <1>3, <2>2
<1> QED
  BY <1>3, <1>4

-----------------------------------------------------------------------------
(* The way from a position to the root                                     *)

LEMMA ParentFacts ==
    ASSUME NEW i \in Nat, i > 1
    PROVE  /\ Parent(i) \in Nat
           /\ Parent(i) >= 1
           /\ Parent(i) < i
           /\ i = 2 * Parent(i) \/ i = 2 * Parent(i) + 1
  BY DEF Parent

LEMMA ChildFacts ==
    ASSUME NEW i \in Nat, i >= 1
    PROVE  Parent(2 * i) = i /\ Parent(2 * i + 1) = i
  BY DEF Parent

AboveRound(f, j) == IF j = 1 THEN {1} ELSE {j} \cup f[Parent(j)]
IsAbove(f, i) == f = [j \in 1 .. i |-> AboveRound(f, j)]

LEMMA AboveAt ==
    ASSUME NEW i \in Nat, NEW f, IsAbove(f, i), NEW j \in 1 .. i
    PROVE  f[j] = AboveRound(f, j)
<1> DEFINE g == [k \in 1 .. i |-> AboveRound(f, k)]
<1>1. f = g
  BY DEF IsAbove
<1>2. g[j] = AboveRound(f, j)
  OBVIOUS
<1> HIDE DEF g
<1> QED
  BY <1>1, <1>2

LEMMA AboveExists ==
    ASSUME NEW i \in Nat
    PROVE  \E f : IsAbove(f, i)
<1> DEFINE Good == { n \in Nat : \E f : IsAbove(f, n) }
<1>1. 0 \in Good
  <2>1. IsAbove([j \in 1 .. 0 |-> {}], 0)
    BY DEF IsAbove
  <2> QED
    BY <2>1
<1>2. ASSUME NEW n \in Nat, n \in Good
      PROVE  n + 1 \in Good
  <2>1. PICK f : IsAbove(f, n)
    BY <1>2
  <2> DEFINE g == [j \in 1 .. n + 1 |-> IF j <= n THEN f[j] ELSE AboveRound(f, j)]
  <2>2. ASSUME NEW j \in 1 .. n + 1
        PROVE  g[j] = AboveRound(g, j)
    <3>1. j > 1 => Parent(j) \in 1 .. n + 1 /\ Parent(j) <= n
      BY ParentFacts
    <3>2. j > 1 => g[Parent(j)] = f[Parent(j)]
      BY <3>1
    <3>3. j <= n => f[j] = AboveRound(f, j)
      BY <2>1, AboveAt
    <3>4. g[j] = AboveRound(f, j)
      BY <3>3
    <3>5. AboveRound(g, j) = AboveRound(f, j)
      <4> HIDE DEF g
      <4>1. CASE j = 1
        BY <4>1 DEF AboveRound
      <4>2. CASE j > 1
        BY <4>2, <3>2 DEF AboveRound
      <4> QED
        BY <4>1, <4>2
    <3> QED
      BY <3>4, <3>5
  <2>3. IsAbove(g, n + 1)
    <3>1. g = [j \in 1 .. n + 1 |-> g[j]]
      OBVIOUS
    <3> HIDE DEF g
    <3> QED
      BY <2>2, <3>1 DEF IsAbove
  <2> QED
    BY <2>3
<1> HIDE DEF Good
<1>3. i \in Good
  BY <1>1, <1>2, NatSetInduction
<1> QED
  BY <1>3 DEF Good

LEMMA AboveUnique ==
    ASSUME NEW i \in Nat, NEW k \in Nat, NEW f, NEW g, IsAbove(f, i), IsAbove(g, k),
           NEW j \in Nat, 1 <= j, j <= i, j <= k
    PROVE  f[j] = g[j]
<1> DEFINE Bad == { a \in 1 .. j : f[a] # g[a] }
<1>1. SUFFICES ASSUME Bad # {} PROVE FALSE
  OBVIOUS
<1>2. Bad \in SUBSET Nat
  OBVIOUS
<1>3. PICK a \in Bad : \A b \in Bad : a <= b
  <2> HIDE DEF Bad
  <2> QED
    BY <1>1, <1>2, LeastPosition
<1>4. f[a] = AboveRound(f, a) /\ g[a] = AboveRound(g, a)
  <2>1. a \in 1 .. i /\ a \in 1 .. k
    OBVIOUS
  <2> QED
    BY <2>1, AboveAt
<1>5. a > 1 => f[Parent(a)] = g[Parent(a)]
  <2> SUFFICES ASSUME a > 1 PROVE f[Parent(a)] = g[Parent(a)]
    OBVIOUS
  <2>1. Parent(a) \in 1 .. j /\ Parent(a) < a
    BY ParentFacts
  <2> QED
    BY <1>3, <2>1
<1>6. f[a] = g[a]
  <2>1. CASE a = 1
    BY <1>4, <2>1 DEF AboveRound
  <2>2. CASE a > 1
    BY <1>4, <1>5, <2>2 DEF AboveRound
  <2> QED
    BY <2>1, <2>2
<1> QED
  BY <1>6

LEMMA PathStep ==
    /\ Path(1) = {1}
    /\ \A i \in Nat : i > 1 => Path(i) = {i} \cup Path(Parent(i))
<1> DEFINE Of(i) == CHOOSE f : IsAbove(f, i)
<1>1. \A i \in Nat : IsAbove(Of(i), i)
  BY AboveExists
<1>2. \A i \in Nat : Path(i) = Of(i)[i]
  BY DEF Path, IsAbove, AboveRound
<1> HIDE DEF Of
<1>3. \A i \in Nat : i >= 1 => Of(i)[i] = AboveRound(Of(i), i)
  BY <1>1, AboveAt
<1>4. Path(1) = {1}
  <2>1. Path(1) = Of(1)[1] /\ Of(1)[1] = AboveRound(Of(1), 1)
    BY <1>2, <1>3
  <2>2. AboveRound(Of(1), 1) = {1}
    BY DEF AboveRound
  <2> QED
    BY <2>1, <2>2
<1>5. ASSUME NEW i \in Nat, i > 1
      PROVE  Path(i) = {i} \cup Path(Parent(i))
  <2>1. Parent(i) \in Nat /\ 1 <= Parent(i) /\ Parent(i) <= i
    BY <1>5, ParentFacts
  <2>2. Of(i)[Parent(i)] = Of(Parent(i))[Parent(i)]
    BY <1>1, <2>1, AboveUnique
  <2>3. Path(i) = Of(i)[i] /\ Of(i)[i] = AboveRound(Of(i), i)
    BY <1>2, <1>3, <1>5
  <2>4. AboveRound(Of(i), i) = {i} \cup Of(i)[Parent(i)]
    BY <1>5 DEF AboveRound
  <2>5. Path(Parent(i)) = Of(Parent(i))[Parent(i)]
    BY <1>2, <2>1
  <2> QED
    BY <2>2, <2>3, <2>4, <2>5
<1> QED
  BY <1>4, <1>5

\* A path leads from its position to the root, one child under each position
\* but the last.
LEMMA PathFacts ==
    ASSUME NEW i \in Nat, i >= 1
    PROVE  /\ i \in Path(i)
           /\ 1 \in Path(i)
           /\ \A j \in Path(i) : j \in Nat /\ 1 <= j /\ j <= i
           /\ \A j \in Path(i) : j > 1 => Parent(j) \in Path(i)
           /\ \A j \in Path(i) : j # i =>
                 \E c \in Path(i) : c > 1 /\ Parent(c) = j
<1> DEFINE Right(k) ==
               /\ k \in Path(k)
               /\ 1 \in Path(k)
               /\ \A j \in Path(k) : j \in Nat /\ 1 <= j /\ j <= k
               /\ \A j \in Path(k) : j > 1 => Parent(j) \in Path(k)
               /\ \A j \in Path(k) : j # k => \E c \in Path(k) : c > 1 /\ Parent(c) = j
           Bad == { k \in Nat : k >= 1 /\ ~ Right(k) }
<1>1. SUFFICES ASSUME Bad # {} PROVE FALSE
  OBVIOUS
<1>2. Bad \in SUBSET Nat
  OBVIOUS
<1>3. PICK k \in Bad : \A j \in Bad : k <= j
  <2> HIDE DEF Bad
  <2> QED
    BY <1>1, <1>2, LeastPosition
<1>4. k \in Nat /\ k >= 1 /\ ~ Right(k)
  OBVIOUS
<1>5. \A j \in Nat : 1 <= j /\ j < k => Right(j)
  <2> SUFFICES ASSUME NEW j \in Nat, 1 <= j, j < k, ~ Right(j)
               PROVE  FALSE
    OBVIOUS
  <2>1. j \in Bad
    OBVIOUS
  <2> HIDE DEF Bad
  <2> QED
    BY <1>3, <1>4, <2>1
<1>6. CASE k = 1
  BY <1>4, <1>6, PathStep
<1>7. CASE k > 1
  <2> DEFINE p == Parent(k)
  <2>1. p \in Nat /\ 1 <= p /\ p < k
    BY <1>4, <1>7, ParentFacts
  <2>2. Path(k) = {k} \cup Path(p)
    BY <1>4, <1>7, PathStep
  <2>3. Right(p)
    <3> HIDE DEF Right
    <3> QED
      BY <1>5, <2>1
  <2>4. /\ k \in Path(k)
        /\ 1 \in Path(k)
        /\ \A j \in Path(k) : j \in Nat /\ 1 <= j /\ j <= k
    BY <1>4, <2>1, <2>2, <2>3
  <2>5. \A j \in Path(k) : j > 1 => Parent(j) \in Path(k)
    BY <1>4, <2>1, <2>2, <2>3
  <2>6. ASSUME NEW j \in Path(k), j # k
        PROVE  \E c \in Path(k) : c > 1 /\ Parent(c) = j
    <3>1. CASE j = p
      BY <1>7, <2>4, <3>1
    <3>2. CASE j \in Path(p) /\ j # p
      BY <2>2, <2>3, <3>2
    <3> QED
      BY <2>2, <2>6, <3>1, <3>2
  <2> QED
    BY <1>4, <2>4, <2>5, <2>6
<1> QED
  BY <1>4, <1>6, <1>7


-----------------------------------------------------------------------------
(* Pushing                                                                 *)

IsHeap(h) == \A i \in 2 .. Len(h) : ~ Later(h[Parent(i)], h[i])

\* g is a heap with the events of h, and e.
IsPushed(E, h, e, g) ==
    /\ g \in Seq(E)
    /\ Len(g) = Len(h) + 1
    /\ IsHeap(g)
    /\ \A j \in 1 .. Len(h) : \E i \in 1 .. Len(g) : g[i] = h[j]
    /\ \E i \in 1 .. Len(g) : g[i] = e
    /\ \A i \in 1 .. Len(g) : g[i] = e \/ \E j \in 1 .. Len(h) : g[i] = h[j]

\* std::push_heap keeps the heap order, and the events of the heap are those
\* that were in it and the new one.
LEMMA PushKeepsHeap ==
    ASSUME NEW E, \A x \in E : x.ts \in Int,
           NEW h \in Seq(E), IsHeap(h), NEW e \in E
    PROVE  IsPushed(E, h, e, HeapPush(h, e))
<1> DEFINE n == Len(h) + 1
           P == Path(n)
           D(i) == i \in P \ {n} /\ Later(h[i], e)
           A(i) == i > 1 /\ i \in P /\ D(Parent(i))
           g == HeapPush(h, e)
<1>1. n \in Nat /\ n >= 1 /\ Len(h) \in Nat
  BY LenProperties
<1>2. \A i \in 1 .. n - 1 : h[i] \in E /\ h[i].ts \in Int
  BY ElementOfSeq
<1>3. /\ g = [i \in 1 .. n |-> IF A(i) THEN h[Parent(i)]
                               ELSE IF i = n \/ D(i) THEN e ELSE h[i]]
  BY DEF HeapPush
<1>4. /\ n \in P /\ 1 \in P
      /\ \A j \in P : j \in Nat /\ 1 <= j /\ j <= n
      /\ \A j \in P : j > 1 => Parent(j) \in P
      /\ \A j \in P : j # n => \E c \in P : c > 1 /\ Parent(c) = j
  BY <1>1, PathFacts
<1>5. \A i \in 2 .. n : Parent(i) \in 1 .. n - 1 /\ Parent(i) < i
  BY <1>1, ParentFacts
<1>6. \A i \in 1 .. n : /\ A(i) => g[i] = h[Parent(i)]
                        /\ ~ A(i) /\ (i = n \/ D(i)) => g[i] = e
                        /\ ~ A(i) /\ i # n /\ ~ D(i) => g[i] = h[i]
  <2> HIDE DEF A, D, g, n
  <2> QED
    BY <1>3
<1>7. \A i : D(i) <=> i \in P /\ i # n /\ h[i].ts > e.ts
  BY DEF Later
<1>8. \A i : A(i) <=> i > 1 /\ i \in P /\ D(Parent(i))
  OBVIOUS
<1>9. e.ts \in Int
  OBVIOUS
<1>10. \A i \in 2 .. n - 1 : h[Parent(i)].ts <= h[i].ts
  <2> SUFFICES ASSUME NEW i \in 2 .. n - 1
               PROVE  h[Parent(i)].ts <= h[i].ts
    OBVIOUS
  <2>1. ~ Later(h[Parent(i)], h[i])
    BY <1>1 DEF IsHeap
  <2>2. Parent(i) \in 1 .. n - 1 /\ i \in 1 .. n - 1
    BY <1>1, <1>5
  <2> HIDE DEF n
  <2> QED
    BY <1>2, <2>1, <2>2 DEF Later
<1> HIDE DEF n, P, D, A, g
\* Below an event that moves down, every event on the path moves down.
<1>11. \A i \in 2 .. n - 1 : i \in P /\ D(Parent(i)) => D(i)
  <2> SUFFICES ASSUME NEW i \in 2 .. n - 1, i \in P, D(Parent(i))
               PROVE  D(i)
    OBVIOUS
  <2>1. h[Parent(i)].ts > e.ts /\ h[Parent(i)].ts <= h[i].ts
    BY <1>7, <1>10
  <2>2. h[i].ts \in Int /\ h[Parent(i)].ts \in Int
    BY <1>1, <1>2, <1>5
  <2>3. i # n
    BY <1>1
  <2> QED
    BY <1>7, <1>9, <2>1, <2>2, <2>3
<1>12. \A i \in 1 .. n : g[i] \in E
  <2> TAKE i \in 1 .. n
  <2>1. CASE A(i)
    <3>1. Parent(i) \in 1 .. n - 1
      BY <1>1, <1>5, <1>8, <2>1
    <3> QED
      BY <1>2, <1>6, <2>1, <3>1
  <2>2. CASE ~ A(i)
    BY <1>1, <1>2, <1>6, <2>2
  <2> QED
    BY <2>1, <2>2
<1>13. g \in Seq(E) /\ Len(g) = n
  <2>1. DOMAIN g = 1 .. n /\ g = [i \in 1 .. n |-> g[i]]
    BY <1>3, Zenon
  <2>2. g \in [1 .. n -> E]
    BY <1>12, <2>1
  <2>3. g \in Seq(E)
    BY <1>1, <2>2, SeqDef
  <2> QED
    BY <1>1, <2>1, <2>3, LenProperties
<1>14. ASSUME NEW i \in 2 .. n
       PROVE  g[Parent(i)].ts <= g[i].ts
  <2> DEFINE p == Parent(i)
  <2>1. p \in 1 .. n - 1 /\ p < i /\ i \in 1 .. n /\ p \in 1 .. n /\ p # n
    BY <1>1, <1>5
  <2>2. h[p].ts \in Int /\ (i # n => i \in 2 .. n - 1 /\ h[i].ts \in Int /\ h[p].ts <= h[i].ts)
    BY <1>1, <1>2, <1>10, <2>1
  <2>3. A(p) => D(p) /\ g[p] = h[Parent(p)] /\ h[Parent(p)].ts <= h[p].ts
                /\ h[Parent(p)].ts \in Int
    <3> SUFFICES ASSUME A(p) PROVE /\ D(p) /\ g[p] = h[Parent(p)]
                                   /\ h[Parent(p)].ts <= h[p].ts
                                   /\ h[Parent(p)].ts \in Int
      OBVIOUS
    <3>1. p \in 2 .. n - 1 /\ p \in P /\ D(Parent(p))
      BY <1>1, <1>8, <2>1
    <3>2. D(p) /\ g[p] = h[Parent(p)]
      BY <1>1, <1>6, <1>11, <2>1, <3>1
    <3>3. Parent(p) \in 1 .. n - 1
      BY <1>1, <1>5, <3>1
    <3>4. h[Parent(p)].ts \in Int /\ h[Parent(p)].ts <= h[p].ts
      BY <1>1, <1>2, <1>10, <3>1, <3>3
    <3> QED
      BY <3>2, <3>4
  <2>4. ~ A(p) /\ D(p) => g[p] = e
    BY <1>6, <2>1
  <2>5. ~ A(p) /\ ~ D(p) => g[p] = h[p]
    BY <1>6, <2>1
  <2>6. A(i) <=> i \in P /\ D(p)
    BY <1>1, <1>8
  <2>7. i # n => (i \in P /\ D(p) => D(i))
    BY <1>11, <2>2
  <2>8. i \in P => p \in P
    BY <1>1, <1>4
  <2>9. n \in P
    BY <1>4
  <2>10. D(p) => p \in P /\ h[p].ts > e.ts
    BY <1>7
  <2>11. p \in P /\ ~ D(p) => h[p].ts <= e.ts
    BY <1>7, <1>9, <2>1, <2>2
  <2>12. D(i) => i \in P /\ i # n
    BY <1>7
  <2> HIDE DEF p
  <2>13. CASE A(i)
    <3>1. g[i] = h[p] /\ D(p)
      BY <1>6, <2>1, <2>6, <2>13 DEF p
    <3> QED
      BY <1>9, <2>2, <2>3, <2>4, <2>10, <3>1 DEF p
  <2>14. CASE ~ A(i) /\ (i = n \/ D(i))
    <3>1. g[i] = e /\ i \in P /\ p \in P /\ ~ D(p)
      BY <1>6, <2>1, <2>6, <2>8, <2>9, <2>12, <2>14
    <3> QED
      BY <1>9, <2>2, <2>3, <2>5, <2>11, <3>1 DEF p
  <2>15. CASE ~ A(i) /\ i # n /\ ~ D(i)
    <3>1. g[i] = h[i]
      BY <1>6, <2>1, <2>15
    <3> QED
      BY <1>9, <2>2, <2>3, <2>4, <2>5, <2>10, <2>15, <3>1 DEF p
  <2> QED
    BY <2>13, <2>14, <2>15
<1>15. \A i \in 1 .. n : g[i].ts \in Int
  BY <1>12
<1>16. IsHeap(g)
  <2> SUFFICES ASSUME NEW i \in 2 .. n
               PROVE  ~ Later(g[Parent(i)], g[i])
    BY <1>13 DEF IsHeap
  <2>1. Parent(i) \in 1 .. n /\ i \in 1 .. n
    BY <1>1, <1>5
  <2> QED
    BY <1>14, <1>15, <2>1 DEF Later
<1>17. ASSUME NEW j \in 1 .. n - 1
       PROVE  \E i \in 1 .. n : g[i] = h[j]
  <2>1. CASE D(j)
    <3>1. PICK c \in P : c > 1 /\ Parent(c) = j
      BY <1>4, <1>7, <2>1
    <3>2. A(c) /\ c \in 1 .. n
      BY <1>1, <1>4, <1>8, <2>1, <3>1
    <3> QED
      BY <1>6, <3>1, <3>2
  <2>2. CASE ~ D(j)
    <3>1. j \in 1 .. n /\ j # n
      BY <1>1
    <3>2. ~ A(j)
      <4> SUFFICES ASSUME A(j) PROVE FALSE
        OBVIOUS
      <4>1. j \in 2 .. n - 1 /\ j \in P /\ D(Parent(j))
        BY <1>1, <1>8
      <4> QED
        BY <1>11, <2>2, <4>1
    <3> QED
      BY <1>6, <2>2, <3>1, <3>2
  <2> QED
    BY <2>1, <2>2
\* e is at the highest position on the path that an event has left.
<1>18. \E i \in 1 .. n : g[i] = e
  <2> DEFINE Left == { k \in P : k = n \/ D(k) }
  <2>1. Left \in SUBSET Nat /\ Left # {}
    BY <1>4
  <2>2. PICK k \in Left : \A j \in Left : k <= j
    <3> HIDE DEF Left
    <3> QED
      BY <2>1, LeastPosition
  <2>3. k \in P /\ (k = n \/ D(k)) /\ k \in 1 .. n /\ k \in Nat
    BY <1>1, <1>4
  <2>4. ~ A(k)
    <3> SUFFICES ASSUME A(k) PROVE FALSE
      OBVIOUS
    <3>1. k > 1 /\ D(Parent(k)) /\ Parent(k) \in P
      BY <1>4, <1>8
    <3>2. Parent(k) \in Left
      BY <3>1
    <3>3. Parent(k) < k /\ Parent(k) \in Nat
      BY <2>3, <3>1, ParentFacts
    <3> QED
      BY <2>2, <2>3, <3>2, <3>3
  <2>5. g[k] = e
    BY <1>6, <2>3, <2>4
  <2> QED
    BY <2>3, <2>5
<1>19. ASSUME NEW i \in 1 .. n
       PROVE  g[i] = e \/ \E j \in 1 .. n - 1 : g[i] = h[j]
  <2>1. CASE A(i)
    <3>1. Parent(i) \in 1 .. n - 1
      BY <1>1, <1>5, <1>8, <2>1
    <3> QED
      BY <1>6, <2>1, <3>1
  <2>2. CASE ~ A(i)
    <3>1. i # n => i \in 1 .. n - 1
      BY <1>1
    <3> QED
      BY <1>6, <2>2, <3>1
  <2> QED
    BY <2>1, <2>2
<1>20. n - 1 = Len(h)
  BY <1>1 DEF n
<1> QED
  BY <1>13, <1>16, <1>17, <1>18, <1>19, <1>20 DEF g, IsPushed


-----------------------------------------------------------------------------
(* Popping                                                                 *)

\* g is a heap with the events of h but its root.
IsPopped(E, h, g) ==
    /\ g \in Seq(E)
    /\ Len(g) = Len(h) - 1
    /\ IsHeap(g)
    /\ \A j \in 2 .. Len(h) : \E i \in 1 .. Len(g) : g[i] = h[j]
    /\ \A i \in 1 .. Len(g) : \E j \in 2 .. Len(h) : g[i] = h[j]

\* std::pop_heap keeps the heap order, and the events of the heap are those
\* that were in it below the root.
LEMMA PopKeepsHeap ==
    ASSUME NEW E, \A x \in E : x.ts \in Int,
           NEW h \in Seq(E), IsHeap(h), Len(h) >= 1
    PROVE  IsPopped(E, h, HeapPop(h))
<1> DEFINE m == Len(h) - 1
           e == h[m + 1]
           Pref(i) == Preferred(h, m, i)
           S(i) == i \in 1 .. m /\ \A j \in Path(i) \ {1} : Pref(j)
           U(i) == i > 1 /\ S(i) /\ ~ Later(h[i], e)
           g == HeapPop(h)
<1>1. m \in Nat /\ Len(h) = m + 1
  BY LenProperties
<1>2. \A i \in 1 .. m + 1 : h[i] \in E /\ h[i].ts \in Int
  BY ElementOfSeq
<1>3. g = [i \in 1 .. m |-> IF U(2 * i) THEN h[2 * i]
                            ELSE IF U(2 * i + 1) THEN h[2 * i + 1]
                            ELSE IF i = 1 \/ U(i) THEN e ELSE h[i]]
  BY DEF HeapPop
<1>4. \A i \in 2 .. m + 1 : /\ Parent(i) \in 1 .. m /\ Parent(i) < i
                            /\ i = 2 * Parent(i) \/ i = 2 * Parent(i) + 1
  BY <1>1, ParentFacts
<1>5. \A i \in 1 .. m : /\ U(2 * i) => g[i] = h[2 * i]
                        /\ ~ U(2 * i) /\ U(2 * i + 1) => g[i] = h[2 * i + 1]
                        /\ ~ U(2 * i) /\ ~ U(2 * i + 1) /\ (i = 1 \/ U(i)) => g[i] = e
                        /\ ~ U(2 * i) /\ ~ U(2 * i + 1) /\ i # 1 /\ ~ U(i) => g[i] = h[i]
  <2> HIDE DEF U, g, m, e
  <2> QED
    BY <1>3
<1>6. e \in E /\ e.ts \in Int
  BY <1>1, <1>2
<1>7. \A i \in 2 .. m + 1 : h[Parent(i)].ts <= h[i].ts
  <2> SUFFICES ASSUME NEW i \in 2 .. m + 1
               PROVE  h[Parent(i)].ts <= h[i].ts
    OBVIOUS
  <2>1. ~ Later(h[Parent(i)], h[i])
    BY <1>1 DEF IsHeap
  <2>2. Parent(i) \in 1 .. m + 1 /\ i \in 1 .. m + 1
    BY <1>1, <1>4
  <2> HIDE DEF m
  <2> QED
    BY <1>2, <2>1, <2>2 DEF Later
<1>8. \A i : U(i) <=> i > 1 /\ S(i) /\ ~ (h[i].ts > e.ts)
  BY DEF Later
<1>9. \A i : S(i) => i \in 1 .. m
  OBVIOUS
<1>10. m >= 1 => S(1)
  BY <1>1, PathStep
\* The hole sinks to a position if it sinks to the one above, and this child
\* of it is the preferred one.
<1>11. \A i \in 2 .. m : S(i) <=> Pref(i) /\ S(Parent(i))
  <2> TAKE i \in 2 .. m
  <2>1. i \in Nat /\ i > 1 /\ Path(i) = {i} \cup Path(Parent(i))
    BY <1>1, PathStep
  <2>2. Parent(i) \in 1 .. m /\ i \in 1 .. m
    BY <1>1, <1>4
  <2> HIDE DEF Pref, m
  <2> QED
    BY <2>1, <2>2
\* Of two children only one is preferred, an earliest one.
<1>12. \A i \in 1 .. m :
          /\ Pref(2 * i) <=> 2 * i = m \/ h[2 * i + 1].ts > h[2 * i].ts
          /\ Pref(2 * i + 1) <=> ~ (h[2 * i + 1].ts > h[2 * i].ts)
  <2> TAKE i \in 1 .. m
  <2>1. (2 * i) % 2 = 0 /\ (2 * i + 1) % 2 # 0 /\ (2 * i + 1) - 1 = 2 * i
    BY <1>1
  <2> HIDE DEF m
  <2> QED
    BY <2>1 DEF Pref, Preferred, Later
<1> HIDE DEF m, e, Pref, S, U, g
<1>13. \A i \in 1 .. m : ~ (U(2 * i) /\ U(2 * i + 1))
  <2> SUFFICES ASSUME NEW i \in 1 .. m, U(2 * i), U(2 * i + 1)
               PROVE  FALSE
    OBVIOUS
  <2>1. 2 * i \in 2 .. m /\ 2 * i + 1 \in 2 .. m
    BY <1>1, <1>8, <1>9
  <2>2. Pref(2 * i) /\ Pref(2 * i + 1)
    BY <1>8, <1>11, <2>1
  <2> QED
    BY <1>1, <1>12, <2>1, <2>2
\* Above an event that moves up, every event on the path moves up.
<1>14. ASSUME NEW i \in 2 .. m, U(i), Parent(i) > 1
       PROVE  U(Parent(i))
  <2>1. S(Parent(i)) /\ h[Parent(i)].ts <= h[i].ts /\ ~ (h[i].ts > e.ts)
    BY <1>1, <1>7, <1>8, <1>11, <1>14
  <2>2. h[i].ts \in Int /\ h[Parent(i)].ts \in Int
    BY <1>1, <1>2, <1>4
  <2>3. ~ (h[Parent(i)].ts > e.ts)
    BY <1>6, <2>1, <2>2
  <2> QED
    BY <1>8, <1>14, <2>1, <2>3
<1>15. \A i \in 1 .. m : /\ U(2 * i) => 2 * i \in 2 .. m /\ Parent(2 * i) = i
                         /\ U(2 * i + 1) => 2 * i + 1 \in 2 .. m /\ Parent(2 * i + 1) = i
  <2> TAKE i \in 1 .. m
  <2>1. i \in Nat /\ i >= 1 /\ 2 * i > 1 /\ 2 * i + 1 > 1
    BY <1>1
  <2>2. Parent(2 * i) = i /\ Parent(2 * i + 1) = i
    BY <2>1, ChildFacts
  <2>3. U(2 * i) => 2 * i \in 1 .. m
    BY <1>8, <1>9
  <2>4. U(2 * i + 1) => 2 * i + 1 \in 1 .. m
    BY <1>8, <1>9
  <2> QED
    BY <1>1, <2>1, <2>2, <2>3, <2>4
<1>16. \A i \in 1 .. m : g[i] = e \/ (i # 1 /\ g[i] = h[i])
                         \/ \E j \in 2 .. m : U(j) /\ Parent(j) = i /\ g[i] = h[j]
  BY <1>5, <1>15
<1>17. \A i \in 2 .. m : U(i) => g[Parent(i)] = h[i]
  <2> SUFFICES ASSUME NEW i \in 2 .. m, U(i)
               PROVE  g[Parent(i)] = h[i]
    OBVIOUS
  <2>1. Parent(i) \in 1 .. m /\ (i = 2 * Parent(i) \/ i = 2 * Parent(i) + 1)
    BY <1>1, <1>4
  <2> QED
    BY <1>5, <1>13, <2>1
<1>18. \A i \in 1 .. m :
          (\A j \in 2 .. m : Parent(j) = i => ~ U(j)) =>
             /\ i = 1 \/ U(i) => g[i] = e
             /\ i # 1 /\ ~ U(i) => g[i] = h[i]
  BY <1>5, <1>15
<1>19. \A i \in 2 .. m : ~ U(i) =>
          \A j \in 2 .. m : Parent(j) = i => ~ U(j)
  <2> SUFFICES ASSUME NEW i \in 2 .. m, ~ U(i), NEW j \in 2 .. m, Parent(j) = i, U(j)
               PROVE  FALSE
    OBVIOUS
  <2>1. i > 1
    BY <1>1
  <2> QED
    BY <1>14, <2>1
<1>20. \A i \in 1 .. m : \E j \in 2 .. m + 1 : g[i] = h[j]
  <2> TAKE i \in 1 .. m
  <2>1. m + 1 \in 2 .. m + 1 /\ (i # 1 => i \in 2 .. m + 1)
    BY <1>1
  <2>2. \A j \in 2 .. m : j \in 2 .. m + 1
    BY <1>1
  <2> QED
    BY <1>16, <2>1, <2>2 DEF e
<1>21. \A i \in 1 .. m : g[i] \in E
  BY <1>1, <1>2, <1>20
<1>22. g \in Seq(E) /\ Len(g) = m
  <2>1. DOMAIN g = 1 .. m /\ g = [i \in 1 .. m |-> g[i]]
    BY <1>3, Zenon
  <2>2. g \in [1 .. m -> E]
    BY <1>21, <2>1
  <2>3. g \in Seq(E)
    BY <1>1, <2>2, SeqDef
  <2> QED
    BY <1>1, <2>1, <2>3, LenProperties
<1>23. ASSUME NEW i \in 2 .. m
       PROVE  g[Parent(i)].ts <= g[i].ts
  <2> DEFINE p == Parent(i)
  <2>1. p \in 1 .. m /\ i \in 1 .. m /\ p < i /\ (i = 2 * p \/ i = 2 * p + 1)
    BY <1>1, <1>4
  <2>2. h[p].ts \in Int /\ h[i].ts \in Int /\ h[p].ts <= h[i].ts
    BY <1>1, <1>2, <1>7, <2>1
  \* The event at i moves up.
  <2>3. CASE U(i)
    <3>1. g[p] = h[i]
      BY <1>17, <2>3
    <3>2. CASE \E j \in 2 .. m : U(j) /\ Parent(j) = i
      <4>1. PICK j \in 2 .. m : U(j) /\ Parent(j) = i
        BY <3>2
      <4>2. g[i] = h[j] /\ h[i].ts <= h[j].ts
        BY <1>1, <1>7, <1>17, <4>1
      <4> QED
        BY <3>1, <4>2
    <3>3. CASE ~ \E j \in 2 .. m : U(j) /\ Parent(j) = i
      <4>1. g[i] = e
        BY <1>18, <2>1, <2>3, <3>3
      <4>2. ~ (h[i].ts > e.ts)
        BY <1>8, <2>3
      <4> QED
        BY <1>6, <2>2, <3>1, <4>1, <4>2
    <3> QED
      BY <3>2, <3>3
  \* It stays, and its sibling moves up.
  <2>4. CASE ~ U(i) /\ \E j \in 2 .. m : U(j) /\ Parent(j) = p
    <3>1. g[i] = h[i]
      BY <1>1, <1>18, <1>19, <2>1, <2>4
    <3>2. PICK j \in 2 .. m : U(j) /\ Parent(j) = p
      BY <2>4
    <3>3. g[p] = h[j] /\ Pref(j) /\ h[j].ts \in Int
      BY <1>1, <1>2, <1>8, <1>11, <1>17, <3>2
    <3>4. j # i /\ (j = 2 * p \/ j = 2 * p + 1)
      BY <1>1, <1>4, <2>4, <3>2
    <3>5. CASE j = 2 * p
      <4>1. i = 2 * p + 1 /\ 2 * p # m
        BY <1>1, <2>1, <3>4, <3>5
      <4>2. h[2 * p + 1].ts > h[2 * p].ts
        BY <1>12, <2>1, <3>3, <3>5, <4>1
      <4> QED
        BY <2>2, <3>1, <3>3, <3>5, <4>1, <4>2
    <3>6. CASE j = 2 * p + 1
      <4>1. i = 2 * p
        BY <1>1, <2>1, <3>4, <3>6
      <4>2. ~ (h[2 * p + 1].ts > h[2 * p].ts)
        BY <1>12, <2>1, <3>3, <3>6
      <4> QED
        BY <2>2, <3>1, <3>3, <3>6, <4>1, <4>2
    <3> QED
      BY <3>4, <3>5, <3>6
  \* No child of its parent moves up.
  <2>5. CASE ~ \E j \in 2 .. m : U(j) /\ Parent(j) = p
    <3>1. ~ U(i)
      BY <2>5
    <3>2. g[i] = h[i]
      BY <1>1, <1>18, <1>19, <2>1, <3>1
    <3>3. CASE p # 1 /\ ~ U(p)
      <4>1. g[p] = h[p]
        BY <1>18, <2>1, <2>5, <3>3
      <4> QED
        BY <2>2, <3>2, <4>1
    <3>4. CASE p = 1 \/ U(p)
      <4>1. g[p] = e
        BY <1>18, <2>1, <2>5, <3>4
      <4>2. S(p)
        BY <1>1, <1>8, <1>10, <2>1, <3>4
      <4>3. PICK c \in 2 .. m : /\ Pref(c) /\ Parent(c) = p
                                /\ h[c].ts <= h[i].ts
        <5>1. CASE 2 * p = m
          <6>1. i = 2 * p
            BY <1>1, <2>1, <5>1
          <6> QED
            BY <1>12, <2>1, <2>2, <5>1, <6>1
        <5>2. CASE 2 * p # m
          <6>1. 2 * p \in 2 .. m /\ 2 * p + 1 \in 2 .. m
            BY <1>1, <2>1, <5>2
          <6>2. Parent(2 * p) = p /\ Parent(2 * p + 1) = p
            <7>1. p \in Nat /\ p >= 1
              BY <1>1, <2>1
            <7> HIDE DEF p
            <7> QED
              BY <7>1, ChildFacts
          <6>3. h[2 * p].ts \in Int /\ h[2 * p + 1].ts \in Int
            BY <1>1, <1>2, <6>1
          <6> HIDE DEF p
          <6>4. CASE h[2 * p + 1].ts > h[2 * p].ts
            <7>1. Pref(2 * p)
              BY <1>12, <2>1, <6>4
            <7>2. h[2 * p].ts <= h[i].ts
              BY <2>1, <2>2, <6>3, <6>4
            <7> QED
              BY <6>1, <6>2, <7>1, <7>2
          <6>5. CASE ~ (h[2 * p + 1].ts > h[2 * p].ts)
            <7>1. Pref(2 * p + 1)
              BY <1>12, <2>1, <6>5
            <7>2. h[2 * p + 1].ts <= h[2 * p].ts
              BY <6>3, <6>5
            <7>3. h[2 * p + 1].ts <= h[i].ts
              <8>1. CASE i = 2 * p
                BY <7>2, <8>1
              <8>2. CASE i = 2 * p + 1
                <9>1. h[i].ts = h[2 * p + 1].ts
                  BY <8>2
                <9> QED
                  BY <6>3, <9>1
              <8> QED
                BY <2>1, <8>1, <8>2
            <7> QED
              BY <6>1, <6>2, <7>1, <7>3
          <6> QED
            BY <6>4, <6>5
        <5> QED
          BY <5>1, <5>2
      <4>4. S(c) /\ ~ U(c) /\ c > 1 /\ h[c].ts \in Int
        BY <1>1, <1>2, <1>11, <2>5, <4>2, <4>3
      <4>5. h[c].ts > e.ts
        BY <1>8, <4>4
      <4> QED
        BY <1>6, <2>2, <3>2, <4>1, <4>3, <4>4, <4>5
    <3> QED
      BY <3>3, <3>4
  <2> QED
    BY <2>3, <2>4, <2>5
<1>24. IsHeap(g)
  <2> SUFFICES ASSUME NEW i \in 2 .. m
               PROVE  ~ Later(g[Parent(i)], g[i])
    BY <1>22 DEF IsHeap
  <2>1. Parent(i) \in 1 .. m /\ i \in 1 .. m
    BY <1>1, <1>4
  <2>2. g[i].ts \in Int /\ g[Parent(i)].ts \in Int
    BY <1>21, <2>1
  <2> QED
    BY <1>23, <2>2 DEF Later
\* The last event is at the end of the path that the others moved up on.
<1>25. m >= 1 => \E i \in 1 .. m : g[i] = e
  <2> SUFFICES ASSUME m >= 1 PROVE \E i \in 1 .. m : g[i] = e
    OBVIOUS
  <2> DEFINE Hole == { i \in 1 .. m : i = 1 \/ U(i) }
  <2>1. 1 \in Hole /\ \A i \in Hole : i \in Nat /\ 1 <= i /\ i <= m
    BY <1>1
  <2>2. PICK k \in Hole : \A j \in Hole : j <= k
    <3> HIDE DEF Hole
    <3>1. Hole # {}
      BY <2>1
    <3> QED
      BY <1>1, <2>1, <3>1, GreatestPosition
  <2>3. k \in 1 .. m /\ (k = 1 \/ U(k))
    OBVIOUS
  <2>4. ASSUME NEW j \in 2 .. m, Parent(j) = k, U(j)
        PROVE  FALSE
    <3>1. j \in Hole /\ k < j
      BY <1>1, <1>4, <2>4
    <3> HIDE DEF Hole
    <3> QED
      BY <1>1, <2>2, <2>3, <3>1
  <2> QED
    BY <1>18, <2>3, <2>4
<1>26. ASSUME NEW j \in 2 .. m + 1
       PROVE  \E i \in 1 .. m : g[i] = h[j]
  <2>1. CASE j = m + 1
    <3>1. m >= 1
      BY <1>1, <2>1
    <3> QED
      BY <1>25, <2>1, <3>1 DEF e
  <2>2. CASE j # m + 1 /\ U(j)
    <3>1. j \in 2 .. m /\ Parent(j) \in 1 .. m
      BY <1>1, <1>4, <2>2
    <3> QED
      BY <1>17, <2>2, <3>1
  <2>3. CASE j # m + 1 /\ ~ U(j)
    <3>1. j \in 2 .. m /\ j \in 1 .. m /\ j # 1
      BY <1>1, <2>3
    <3> QED
      BY <1>18, <1>19, <2>3, <3>1
  <2> QED
    BY <2>1, <2>2, <2>3
<1>27. Len(h) = m + 1 /\ Len(h) - 1 = m
  BY <1>1
<1> QED
  BY <1>20, <1>22, <1>24, <1>26, <1>27 DEF g, IsPopped


-----------------------------------------------------------------------------
(* Heaps of distinct events                                                *)

\* The root is an earliest event.
LEMMA RootIsEarliest ==
    ASSUME NEW E, \A x \in E : x.ts \in Int,
           NEW h \in Seq(E), IsHeap(h), NEW i \in 1 .. Len(h)
    PROVE  h[1].ts <= h[i].ts
<1> DEFINE Bad == { j \in 1 .. Len(h) : ~ (h[1].ts <= h[j].ts) }
<1>1. Len(h) \in Nat /\ \A j \in 1 .. Len(h) : h[j] \in E /\ h[j].ts \in Int
  BY LenProperties, ElementOfSeq
<1>2. SUFFICES ASSUME Bad # {} PROVE FALSE
  OBVIOUS
<1>3. Bad \in SUBSET Nat
  BY <1>1
<1>4. PICK k \in Bad : \A j \in Bad : k <= j
  <2> HIDE DEF Bad
  <2> QED
    BY <1>2, <1>3, LeastPosition
<1>5. k \in 1 .. Len(h) /\ ~ (h[1].ts <= h[k].ts)
  OBVIOUS
<1>6. k > 1
  <2>1. h[1].ts <= h[1].ts
    BY <1>1
  <2> QED
    BY <1>1, <1>5, <2>1
<1>7. Parent(k) \in 1 .. Len(h) /\ Parent(k) < k
  BY <1>1, <1>5, <1>6, ParentFacts
<1>8. h[1].ts <= h[Parent(k)].ts
  <2> SUFFICES ASSUME ~ (h[1].ts <= h[Parent(k)].ts) PROVE FALSE
    OBVIOUS
  <2>1. Parent(k) \in Bad
    BY <1>7
  <2> HIDE DEF Bad
  <2> QED
    BY <1>1, <1>4, <1>5, <1>7, <2>1
<1>9. h[Parent(k)].ts <= h[k].ts
  <2>1. ~ Later(h[Parent(k)], h[k])
    BY <1>5, <1>6 DEF IsHeap
  <2> QED
    BY <1>1, <1>5, <1>7, <2>1 DEF Later
<1> QED
  BY <1>1, <1>5, <1>7, <1>8, <1>9

DiffersUpTo(f, n) == \A i, j \in 1 .. n : f[i] = f[j] => i = j
IsDistinct(h) == DiffersUpTo(h, Len(h))
FoundIn(f, g, n) == \A i \in 1 .. n : \E j \in 1 .. n : g[j] = f[i]

\* n distinct values, all found among the n values of g, leave no room for one
\* of them to be there twice.
LEMMA NoRoomForTwo ==
    ASSUME NEW n \in Nat, NEW f, NEW g, DiffersUpTo(f, n), FoundIn(f, g, n)
    PROVE  DiffersUpTo(g, n)
<1> SUFFICES ASSUME NEW i \in 1 .. n, NEW j \in 1 .. n, g[i] = g[j]
             PROVE  i = j
  BY DEF DiffersUpTo
<1> DEFINE T == { g[k] : k \in 1 .. n }
           ff == [k \in 1 .. n |-> f[k]]
           gg == [k \in 1 .. n |-> g[k]]
<1>1. IsFiniteSet(1 .. n)
  BY FS_Interval
<1>2. ff \in Injection(1 .. n, T)
  <2>1. ff \in [1 .. n -> T]
    <3>1. \A k \in 1 .. n : f[k] \in T
      BY DEF FoundIn
    <3> HIDE DEF T
    <3> QED
      BY <3>1
  <2>2. \A a, b \in 1 .. n : ff[a] = ff[b] => a = b
    BY DEF DiffersUpTo
  <2> HIDE DEF ff
  <2> QED
    BY <2>1, <2>2 DEF Injection, IsInjective
<1>3. gg \in Surjection(1 .. n, T)
  BY DEF Surjection, FoundIn
<1> HIDE DEF ff, gg, T
<1>4. IsFiniteSet(T) /\ Cardinality(T) <= Cardinality(1 .. n)
  BY <1>1, <1>3, FS_Surjection
<1>5. Cardinality(1 .. n) <= Cardinality(T)
  BY <1>2, <1>4, FS_Injection
<1>6. Cardinality(1 .. n) \in Nat /\ Cardinality(T) \in Nat
  BY <1>1, <1>4, FS_CardinalityType
<1>7. Cardinality(1 .. n) = Cardinality(T)
  BY <1>4, <1>5, <1>6
<1>8. gg \in Injection(1 .. n, T)
  BY <1>1, <1>3, <1>7, FS_SurjSameCardinalityImpliesInj
<1>9. gg[i] = gg[j]
  BY DEF gg
<1> QED
  BY <1>8, <1>9 DEF Injection, IsInjective

LEMMA PushKeepsDistinct ==
    ASSUME NEW E, \A x \in E : x.ts \in Int,
           NEW h \in Seq(E), IsHeap(h), IsDistinct(h),
           NEW e \in E, \A i \in 1 .. Len(h) : h[i] # e
    PROVE  IsDistinct(HeapPush(h, e))
<1>7. IsPushed(E, h, e, HeapPush(h, e))
  BY PushKeepsHeap
<1> DEFINE n == Len(h) + 1
           f == [i \in 1 .. n |-> IF i < n THEN h[i] ELSE e]
           g == HeapPush(h, e)
<1>1. n \in Nat /\ Len(h) \in Nat
  BY LenProperties
<1>2. /\ Len(g) = n
      /\ \A j \in 1 .. Len(h) : \E i \in 1 .. n : g[i] = h[j]
      /\ \E i \in 1 .. n : g[i] = e
  BY <1>7 DEF IsPushed
<1>3. DiffersUpTo(f, n)
  <2> SUFFICES ASSUME NEW i \in 1 .. n, NEW j \in 1 .. n, f[i] = f[j] PROVE i = j
    BY DEF DiffersUpTo
  <2>1. i < n => i \in 1 .. Len(h)
    BY <1>1
  <2>2. j < n => j \in 1 .. Len(h)
    BY <1>1
  <2>3. f[i] = IF i < n THEN h[i] ELSE e
    OBVIOUS
  <2>4. f[j] = IF j < n THEN h[j] ELSE e
    OBVIOUS
  <2>5. i \in Nat /\ j \in Nat /\ i <= n /\ j <= n
    BY <1>1
  <2> HIDE DEF f, g, n
  <2>6. CASE i < n /\ j < n
    BY <2>1, <2>2, <2>3, <2>4, <2>6 DEF IsDistinct, DiffersUpTo
  <2>7. ~ (i < n /\ ~ (j < n)) /\ ~ (j < n /\ ~ (i < n))
    BY <2>1, <2>2, <2>3, <2>4
  <2> QED
    BY <1>1, <2>5, <2>6, <2>7
<1>4. FoundIn(f, g, n)
  <2> SUFFICES ASSUME NEW i \in 1 .. n PROVE \E j \in 1 .. n : g[j] = f[i]
    BY DEF FoundIn
  <2>1. i < n => i \in 1 .. Len(h)
    BY <1>1
  <2> HIDE DEF g
  <2> QED
    BY <1>2, <2>1
<1> HIDE DEF n, f, g
<1>5. DiffersUpTo(g, n)
  BY <1>1, <1>3, <1>4, NoRoomForTwo
<1> QED
  BY <1>2, <1>5 DEF IsDistinct, g

LEMMA PopKeepsDistinct ==
    ASSUME NEW E, \A x \in E : x.ts \in Int,
           NEW h \in Seq(E), IsHeap(h), IsDistinct(h), Len(h) >= 1
    PROVE  IsDistinct(HeapPop(h))
<1> DEFINE m == Len(h) - 1
           f == [i \in 1 .. m |-> h[i + 1]]
           g == HeapPop(h)
<1>1. m \in Nat /\ Len(h) = m + 1
  BY LenProperties
<1>2. /\ Len(g) = m
      /\ \A j \in 2 .. Len(h) : \E i \in 1 .. m : g[i] = h[j]
  BY PopKeepsHeap DEF IsPopped
<1>3. \A i \in 1 .. m : f[i] = h[i + 1] /\ i + 1 \in 2 .. Len(h) /\ i + 1 \in 1 .. Len(h)
  BY <1>1
<1> HIDE DEF m, f, g
<1>4. DiffersUpTo(f, m)
  <2> SUFFICES ASSUME NEW i \in 1 .. m, NEW j \in 1 .. m, f[i] = f[j] PROVE i = j
    BY DEF DiffersUpTo
  <2>1. i + 1 = j + 1
    BY <1>3 DEF IsDistinct, DiffersUpTo
  <2> QED
    BY <1>1, <2>1
<1>5. FoundIn(f, g, m)
  BY <1>2, <1>3 DEF FoundIn
<1>6. DiffersUpTo(g, m)
  BY <1>1, <1>4, <1>5, NoRoomForTwo
<1> QED
  BY <1>2, <1>6 DEF IsDistinct, g


-----------------------------------------------------------------------------
(* The queues                                                              *)

\* An event in a queue was pushed to it, after those with a smaller number.
EventsAreTheirs ==
    \A s \in Sources : \A i \in 1 .. Len(heap[s]) :
        heap[s][i].source = s /\ heap[s][i].n <= count[s]

\* No queue holds an event twice.
NoEventTwice == \A s \in Sources : IsDistinct(heap[s])

\* The inductive invariant.
QueuesInv == TypeOK /\ HeapOrdered /\ EventsAreTheirs /\ NoEventTwice

LEMMA EventTimes == \A e \in Event : e.ts \in Int
  BY ConstantsAssumption DEF Event

LEMMA SourcesFinite == IsFiniteSet(Sources)
  BY ConstantsAssumption, FS_Interval DEF Sources

\* What the invariant says of one queue.
LEMMA OneQueue ==
    ASSUME QueuesInv, NEW s \in Sources
    PROVE  /\ heap[s] \in Seq(Event)
           /\ Len(heap[s]) \in Nat
           /\ IsHeap(heap[s])
           /\ IsDistinct(heap[s])
           /\ heap[s] # <<>> <=> Len(heap[s]) >= 1
           /\ count[s] \in Nat
           /\ \A i \in 1 .. Len(heap[s]) : /\ heap[s][i] \in Event
                                           /\ heap[s][i].source = s
                                           /\ heap[s][i].n <= count[s]
<1>1. heap[s] \in Seq(Event) /\ count[s] \in Nat
  BY DEF QueuesInv, TypeOK
<1>2. IsHeap(heap[s])
  BY DEF QueuesInv, HeapOrdered, IsHeap
<1>3. IsDistinct(heap[s])
  BY DEF QueuesInv, NoEventTwice
<1>4. Len(heap[s]) \in Nat /\ \A i \in 1 .. Len(heap[s]) : heap[s][i] \in Event
  BY <1>1, LenProperties, ElementOfSeq
<1>5. heap[s] # <<>> <=> Len(heap[s]) >= 1
  BY <1>1, <1>4, EmptySeq
<1> QED
  BY <1>1, <1>2, <1>3, <1>4, <1>5 DEF QueuesInv, EventsAreTheirs

\* The invariant, put together from what it says of each queue.
LEMMA AllQueues ==
    ASSUME heap' \in [Sources -> Seq(Event)], count' \in [Sources -> Nat],
           last' \in [by : Sources \cup {Merger}, event : Event \cup {None}],
           \A s \in Sources :
              /\ IsHeap(heap'[s])
              /\ IsDistinct(heap'[s])
              /\ \A i \in 1 .. Len(heap'[s]) : heap'[s][i].source = s
                                               /\ heap'[s][i].n <= count'[s]
    PROVE  QueuesInv'
  BY DEF QueuesInv, TypeOK, HeapOrdered, EventsAreTheirs, NoEventTwice, IsHeap

\* The event that a push adds, one that no queue has seen.
New(s, ts) == [ts |-> ts, source |-> s, n |-> count[s] + 1]

LEMMA NewIsNew ==
    ASSUME QueuesInv, NEW s \in Sources, NEW ts \in Times,
           SumFunctionOnSet(count, Sources) < MaxPushes
    PROVE  /\ New(s, ts) \in Event
           /\ \A r \in Sources : \A i \in 1 .. Len(heap[r]) : heap[r][i] # New(s, ts)
<1>1. \A r \in Sources : count[r] \in Nat
  BY OneQueue
<1>2. SumFunctionOnSet(count, Sources)
         = count[s] + SumFunctionOnSet(count, Sources \ {s})
  BY <1>1, SourcesFinite, SumRemove
<1>3. SumFunctionOnSet(count, Sources \ {s}) \in Nat
  <2>1. IsFiniteSet(Sources \ {s}) /\ \A r \in Sources \ {s} : count[r] \in Nat
    BY <1>1, SourcesFinite, FS_Subset
  <2> QED
    BY <2>1, SumNat
<1>4. count[s] \in Nat /\ MaxPushes \in Nat
  BY <1>1, ConstantsAssumption
<1>5. count[s] + 1 \in 1 .. MaxPushes
  BY <1>2, <1>3, <1>4
<1>6. New(s, ts) \in Event
  BY <1>5 DEF New, Event
<1>7. ASSUME NEW r \in Sources, NEW i \in 1 .. Len(heap[r]), heap[r][i] = New(s, ts)
      PROVE  FALSE
  <2>1. heap[r][i].source = r /\ heap[r][i].n <= count[r]
    BY OneQueue
  <2>2. heap[r][i].source = s /\ heap[r][i].n = count[s] + 1
    BY <1>7 DEF New
  <2>3. r = s
    BY <2>1, <2>2
  <2> QED
    BY <1>4, <2>1, <2>2, <2>3
<1> QED
  BY <1>6, <1>7

LEMMA PushEffect ==
    ASSUME QueuesInv, NEW s \in Sources, NEW ts \in Times, Push(s, ts)
    PROVE  /\ IsPushed(Event, heap[s], New(s, ts), heap'[s])
           /\ IsDistinct(heap'[s])
           /\ \A r \in Sources : r # s => heap'[r] = heap[r]
<1>1. /\ heap' = [heap EXCEPT ![s] = HeapPush(heap[s], New(s, ts))]
      /\ SumFunctionOnSet(count, Sources) < MaxPushes
  BY DEF Push, New
<1>2. DOMAIN heap = Sources
  BY DEF QueuesInv, TypeOK
<1>3. heap'[s] = HeapPush(heap[s], New(s, ts))
  BY <1>1, <1>2
<1>4. /\ New(s, ts) \in Event
      /\ \A i \in 1 .. Len(heap[s]) : heap[s][i] # New(s, ts)
  BY <1>1, NewIsNew
<1>5. heap[s] \in Seq(Event) /\ IsHeap(heap[s]) /\ IsDistinct(heap[s])
  BY OneQueue
<1>6. IsPushed(Event, heap[s], New(s, ts), HeapPush(heap[s], New(s, ts)))
  BY <1>4, <1>5, EventTimes, PushKeepsHeap
<1>7. IsDistinct(HeapPush(heap[s], New(s, ts)))
  BY <1>4, <1>5, EventTimes, PushKeepsDistinct
<1> QED
  BY <1>1, <1>2, <1>3, <1>6, <1>7

LEMMA PopEffect ==
    ASSUME QueuesInv, NEW s \in Sources, NEW by, PopFor(s, by)
    PROVE  /\ count' = count
           /\ \A r \in Sources : r # s => heap'[r] = heap[r]
           /\ heap[s] = <<>> => heap' = heap /\ last' = Got(by, None)
           /\ heap[s] # <<>> =>
                 /\ last' = Got(by, heap[s][1])
                 /\ IsPopped(Event, heap[s], heap'[s])
                 /\ IsDistinct(heap'[s])
                 /\ heap' = [heap EXCEPT ![s] = heap'[s]]
<1>1. CASE heap[s] = <<>>
  BY <1>1 DEF PopFor
<1>2. CASE heap[s] # <<>>
  <2>1. /\ heap' = [heap EXCEPT ![s] = HeapPop(heap[s])]
        /\ last' = Got(by, heap[s][1])
        /\ count' = count
    BY <1>2 DEF PopFor
  <2>2. DOMAIN heap = Sources
    BY DEF QueuesInv, TypeOK
  <2>3. heap'[s] = HeapPop(heap[s])
    BY <2>1, <2>2
  <2>4. /\ heap[s] \in Seq(Event) /\ IsHeap(heap[s]) /\ IsDistinct(heap[s])
        /\ Len(heap[s]) >= 1
    BY <1>2, OneQueue
  <2>5. IsPopped(Event, heap[s], HeapPop(heap[s]))
    BY <2>4, EventTimes, PopKeepsHeap
  <2>6. IsDistinct(HeapPop(heap[s]))
    BY <2>4, EventTimes, PopKeepsDistinct
  <2> QED
    BY <1>2, <2>1, <2>2, <2>3, <2>5, <2>6
<1> QED
  BY <1>1, <1>2

LEMMA PushKeepsQueues ==
    ASSUME QueuesInv, NEW s \in Sources, NEW ts \in Times, Push(s, ts)
    PROVE  QueuesInv'
<1>1. /\ heap' = [heap EXCEPT ![s] = HeapPush(heap[s], New(s, ts))]
      /\ count' = [count EXCEPT ![s] = count[s] + 1]
      /\ last' = last
      /\ SumFunctionOnSet(count, Sources) < MaxPushes
  BY DEF Push, New
<1>2. /\ IsPushed(Event, heap[s], New(s, ts), heap'[s])
      /\ IsDistinct(heap'[s])
      /\ \A r \in Sources : r # s => heap'[r] = heap[r]
  BY PushEffect
<1>3. heap \in [Sources -> Seq(Event)] /\ count \in [Sources -> Nat]
  BY DEF QueuesInv, TypeOK
<1>4. count' \in [Sources -> Nat] /\ count'[s] = count[s] + 1
      /\ \A r \in Sources : r # s => count'[r] = count[r]
  BY <1>1, <1>3
<1>5. heap'[s] \in Seq(Event)
  BY <1>2 DEF IsPushed
<1>6. heap' \in [Sources -> Seq(Event)]
  <2>1. heap' = [heap EXCEPT ![s] = heap'[s]]
    BY <1>1, <1>3
  <2> QED
    BY <1>3, <1>5, <2>1
<1>7. ASSUME NEW i \in 1 .. Len(heap'[s])
      PROVE  heap'[s][i].source = s /\ heap'[s][i].n <= count'[s]
  <2>1. CASE heap'[s][i] = New(s, ts)
    BY <1>3, <1>4, <2>1 DEF New
  <2>2. CASE \E j \in 1 .. Len(heap[s]) : heap'[s][i] = heap[s][j]
    <3>1. PICK j \in 1 .. Len(heap[s]) : heap'[s][i] = heap[s][j]
      BY <2>2
    <3>2. heap[s][j].source = s /\ heap[s][j].n <= count[s] /\ heap[s][j] \in Event
      BY OneQueue
    <3>3. heap[s][j].n \in Int /\ count[s] \in Nat
      BY <1>3, <3>2 DEF Event
    <3> QED
      BY <1>4, <3>1, <3>2, <3>3
  <2> QED
    BY <1>2, <2>1, <2>2 DEF IsPushed
<1>8. ASSUME NEW r \in Sources
      PROVE  /\ IsHeap(heap'[r])
             /\ IsDistinct(heap'[r])
             /\ \A i \in 1 .. Len(heap'[r]) : heap'[r][i].source = r
                                              /\ heap'[r][i].n <= count'[r]
  <2>1. CASE r = s
    BY <1>2, <1>7, <2>1 DEF IsPushed
  <2>2. CASE r # s
    <3>1. heap'[r] = heap[r] /\ count'[r] = count[r]
      BY <1>2, <1>4, <2>2
    <3> QED
      BY <3>1, OneQueue
  <2> QED
    BY <2>1, <2>2
<1>9. last' \in [by : Sources \cup {Merger}, event : Event \cup {None}]
  BY <1>1 DEF QueuesInv, TypeOK
<1> QED
  BY <1>4, <1>6, <1>8, <1>9, AllQueues

LEMMA PopKeepsQueues ==
    ASSUME QueuesInv, NEW s \in Sources, NEW by \in Sources \cup {Merger}, PopFor(s, by)
    PROVE  QueuesInv'
<1>1. /\ count' = count
      /\ \A r \in Sources : r # s => heap'[r] = heap[r]
      /\ heap[s] = <<>> => heap' = heap /\ last' = Got(by, None)
      /\ heap[s] # <<>> =>
            /\ last' = Got(by, heap[s][1])
            /\ IsPopped(Event, heap[s], heap'[s])
            /\ IsDistinct(heap'[s])
            /\ heap' = [heap EXCEPT ![s] = heap'[s]]
  BY PopEffect
<1>2. heap \in [Sources -> Seq(Event)] /\ count \in [Sources -> Nat]
  BY DEF QueuesInv, TypeOK
<1>3. heap' \in [Sources -> Seq(Event)]
  <2>1. CASE heap[s] = <<>>
    BY <1>1, <1>2, <2>1
  <2>2. CASE heap[s] # <<>>
    <3>1. heap'[s] \in Seq(Event) /\ heap' = [heap EXCEPT ![s] = heap'[s]]
      BY <1>1, <2>2 DEF IsPopped
    <3> QED
      BY <1>2, <3>1
  <2> QED
    BY <2>1, <2>2
<1>4. last' \in [by : Sources \cup {Merger}, event : Event \cup {None}]
  <2>1. heap[s] # <<>> => heap[s][1] \in Event
    BY OneQueue
  <2>2. \A x \in Event \cup {None} :
           Got(by, x) \in [by : Sources \cup {Merger}, event : Event \cup {None}]
    BY DEF Got
  <2> QED
    BY <1>1, <2>1, <2>2
<1>5. ASSUME NEW r \in Sources
      PROVE  /\ IsHeap(heap'[r])
             /\ IsDistinct(heap'[r])
             /\ \A i \in 1 .. Len(heap'[r]) : heap'[r][i].source = r
                                              /\ heap'[r][i].n <= count'[r]
  <2>1. CASE heap'[r] = heap[r]
    BY <1>1, <2>1, OneQueue
  <2>2. CASE r = s /\ heap[s] # <<>>
    <3>1. IsPopped(Event, heap[s], heap'[s]) /\ IsDistinct(heap'[s])
      BY <1>1, <2>2
    <3>2. \A j \in 2 .. Len(heap[s]) : heap[s][j].source = s /\ heap[s][j].n <= count[s]
      <4>1. \A j \in 2 .. Len(heap[s]) : j \in 1 .. Len(heap[s])
        OBVIOUS
      <4> QED
        BY <4>1, OneQueue
    <3>3. ASSUME NEW i \in 1 .. Len(heap'[s])
          PROVE  heap'[s][i].source = s /\ heap'[s][i].n <= count[s]
      <4>1. PICK j \in 2 .. Len(heap[s]) : heap'[s][i] = heap[s][j]
        BY <3>1 DEF IsPopped
      <4> QED
        BY <3>2, <4>1
    <3>4. IsHeap(heap'[s])
      BY <3>1 DEF IsPopped
    <3> QED
      BY <1>1, <2>2, <3>1, <3>3, <3>4
  <2> QED
    BY <1>1, <2>1, <2>2
<1> QED
  BY <1>1, <1>2, <1>3, <1>4, <1>5, AllQueues

\* The queues are consistent in every state.
THEOREM QueuesAreConsistent == Spec => []QueuesInv
<1>1. Init => QueuesInv
  <2> SUFFICES ASSUME Init PROVE QueuesInv
    OBVIOUS
  <2>1. \A s \in Sources : heap[s] = <<>> /\ Len(heap[s]) = 0 /\ count[s] = 0
    BY DEF Init
  <2>2. TypeOK
    BY EmptySeq DEF Init, TypeOK, Got
  <2>3. HeapOrdered /\ EventsAreTheirs /\ NoEventTwice
    BY <2>1 DEF HeapOrdered, EventsAreTheirs, NoEventTwice, IsDistinct, DiffersUpTo
  <2> QED
    BY <2>2, <2>3 DEF QueuesInv
<1>2. QueuesInv /\ [Next]_vars => QueuesInv'
  <2> SUFFICES ASSUME QueuesInv, [Next]_vars PROVE QueuesInv'
    OBVIOUS
  <2>1. ASSUME NEW s \in Sources, NEW ts \in Times, Push(s, ts)
        PROVE  QueuesInv'
    BY <2>1, PushKeepsQueues
  <2>2. ASSUME NEW s \in Sources, Pop(s)
        PROVE  QueuesInv'
    BY <2>2, PopKeepsQueues DEF Pop
  <2>3. CASE PopNext
    <3>1. ASSUME NEW s \in Sources, PopFor(s, Merger)
          PROVE  QueuesInv'
      BY <3>1, PopKeepsQueues
    <3>2. CASE last' = Got(Merger, None) /\ UNCHANGED <<heap, count>>
      <4>1. last' \in [by : Sources \cup {Merger}, event : Event \cup {None}]
        BY <3>2 DEF Got
      <4>2. heap' = heap /\ count' = count
        BY <3>2
      <4> QED
        BY <4>1, <4>2 DEF QueuesInv, TypeOK, HeapOrdered, EventsAreTheirs, NoEventTwice
    <3> QED
      BY <2>3, <3>1, <3>2 DEF PopNext
  <2>4. ASSUME NEW s \in Sources, Clear(s)
        PROVE  QueuesInv'
    <3>1. heap' = [heap EXCEPT ![s] = <<>>] /\ count' = count /\ last' = last
      BY <2>4 DEF Clear
    <3>2. /\ heap \in [Sources -> Seq(Event)] /\ count \in [Sources -> Nat]
          /\ last \in [by : Sources \cup {Merger}, event : Event \cup {None}]
      BY DEF QueuesInv, TypeOK
    <3>3. heap' \in [Sources -> Seq(Event)]
      BY <3>1, <3>2, EmptySeq
    <3>4. /\ heap'[s] = <<>> /\ Len(heap'[s]) = 0
          /\ \A r \in Sources : r # s => heap'[r] = heap[r]
      BY <3>1, <3>2
    <3>5. ASSUME NEW r \in Sources
          PROVE  /\ IsHeap(heap'[r])
                 /\ IsDistinct(heap'[r])
                 /\ \A i \in 1 .. Len(heap'[r]) : heap'[r][i].source = r
                                                  /\ heap'[r][i].n <= count'[r]
      <4>1. CASE r = s
        BY <3>4, <4>1 DEF IsHeap, IsDistinct, DiffersUpTo
      <4>2. CASE r # s
        BY <3>1, <3>4, <4>2, OneQueue
      <4> QED
        BY <4>1, <4>2
    <3> QED
      BY <3>1, <3>2, <3>3, <3>5, AllQueues
  <2>5. CASE UNCHANGED vars
    BY <2>5 DEF vars, QueuesInv, TypeOK, HeapOrdered, EventsAreTheirs, NoEventTwice
  <2> QED
    BY <2>1, <2>2, <2>3, <2>4, <2>5 DEF Next
<1> QED
  BY <1>1, <1>2, PTL DEF Spec

\* Every queue holds events of the right shape, and what a pop returns is one
\* of them or nothing.
THEOREM QueuesTypeCorrect == Spec => []TypeOK
  BY QueuesAreConsistent, PTL DEF QueuesInv

\* However pushes, pops and clears alternate, the array below each priority
\* queue is a heap by timestamp.
THEOREM QueuesStayHeaps == Spec => []HeapOrdered
  BY QueuesAreConsistent, PTL DEF QueuesInv


-----------------------------------------------------------------------------
(* The queues implement what a user of them relies on                      *)

LEMMA InQueue ==
    ASSUME QueuesInv, NEW s \in Sources, NEW x
    PROVE  x \in Pending[s] <=> \E i \in 1 .. Len(heap[s]) : heap[s][i] = x
<1>1. DOMAIN heap[s] = 1 .. Len(heap[s])
  BY OneQueue, LenProperties
<1> QED
  BY <1>1 DEF Pending, Range

LEMMA InQueueNext ==
    ASSUME QueuesInv', NEW s \in Sources, NEW x
    PROVE  x \in Pending'[s] <=> \E i \in 1 .. Len(heap'[s]) : heap'[s][i] = x
<1>1. heap'[s] \in Seq(Event)
  BY DEF QueuesInv, TypeOK
<1>2. DOMAIN (heap'[s]) = 1 .. Len(heap'[s])
  BY <1>1, LenProperties
<1>3. Pending'[s] = Range(heap'[s])
  BY DEF Pending
<1> QED
  BY <1>2, <1>3 DEF Range

\* Only the queue of s changes.
LEMMA OtherQueues ==
    ASSUME NEW s \in Sources, NEW S, Pending'[s] = S,
           \A r \in Sources : r # s => heap'[r] = heap[r]
    PROVE  Pending' = [Pending EXCEPT ![s] = S]
<1>1. Pending' = [r \in Sources |-> Range(heap'[r])]
  BY DEF Pending
<1>2. Pending = [r \in Sources |-> Range(heap[r])]
  BY DEF Pending
<1>3. \A r \in Sources : Pending'[r] = IF r = s THEN S ELSE Pending[r]
  BY <1>1, <1>2
<1> QED
  BY <1>1, <1>2, <1>3

LEMMA InAll ==
    ASSUME NEW x
    PROVE  x \in Promise!All <=> \E s \in Sources : x \in Pending[s]
  BY DEF Promise!All

LEMMA PushPuts ==
    ASSUME QueuesInv, QueuesInv', NEW s \in Sources, NEW ts \in Times, Push(s, ts)
    PROVE  Promise!Put(s, New(s, ts)) /\ New(s, ts) \in Event
<1> DEFINE e == New(s, ts)
<1>1. /\ IsPushed(Event, heap[s], e, heap'[s])
      /\ \A r \in Sources : r # s => heap'[r] = heap[r]
  BY PushEffect
<1>2. /\ e \in Event
      /\ \A r \in Sources : \A i \in 1 .. Len(heap[r]) : heap[r][i] # e
  BY NewIsNew DEF Push
<1> HIDE DEF e
<1>3. e \notin Promise!All
  <2>1. \A r \in Sources : e \notin Pending[r]
    BY <1>2, InQueue
  <2> QED
    BY <2>1, InAll
<1>4. Pending'[s] = Pending[s] \cup {e}
  <2>1. \A x : x \in Pending[s] <=> \E i \in 1 .. Len(heap[s]) : heap[s][i] = x
    BY InQueue
  <2>2. \A x : x \in Pending'[s] <=> \E i \in 1 .. Len(heap'[s]) : heap'[s][i] = x
    BY InQueueNext
  <2>3. \A x : x \in Pending'[s] => x \in Pending[s] \/ x = e
    BY <1>1, <2>1, <2>2 DEF IsPushed
  <2>4. \A x : x \in Pending[s] => x \in Pending'[s]
    BY <1>1, <2>1, <2>2 DEF IsPushed
  <2>5. e \in Pending'[s]
    BY <1>1, <2>2 DEF IsPushed
  <2> QED
    BY <2>3, <2>4, <2>5
<1>5. Pending' = [Pending EXCEPT ![s] = Pending[s] \cup {e}]
  BY <1>1, <1>4, OtherQueues
<1>6. last' = last
  BY DEF Push
<1>7. Promise!Put(s, e)
  BY <1>3, <1>5, <1>6 DEF Promise!Put
<1> QED
  BY <1>2, <1>7 DEF e

\* A pop takes the root away and nothing else.
LEMMA PopRemoves ==
    ASSUME QueuesInv, QueuesInv', NEW s \in Sources, NEW by, PopFor(s, by),
           heap[s] # <<>>
    PROVE  /\ heap[s][1] \in Pending[s]
           /\ \A x \in Pending[s] : x \in Event /\ heap[s][1].ts <= x.ts
           /\ last' = Got(by, heap[s][1])
           /\ Pending' = [Pending EXCEPT ![s] = Pending[s] \ {heap[s][1]}]
<1> DEFINE h == heap[s]
<1>1. /\ last' = Got(by, h[1])
      /\ IsPopped(Event, h, heap'[s])
      /\ \A r \in Sources : r # s => heap'[r] = heap[r]
  BY PopEffect
<1>2. /\ h \in Seq(Event) /\ Len(h) \in Nat /\ Len(h) >= 1
      /\ IsHeap(h) /\ IsDistinct(h)
      /\ \A i \in 1 .. Len(h) : h[i] \in Event
  BY OneQueue
<1>3. \A x : x \in Pending[s] <=> \E i \in 1 .. Len(h) : h[i] = x
  BY InQueue
<1>4. \A x : x \in Pending'[s] <=> \E i \in 1 .. Len(heap'[s]) : heap'[s][i] = x
  BY InQueueNext
<1> HIDE DEF h
<1>5. \A i \in 1 .. Len(h) : h[1].ts <= h[i].ts
  BY <1>2, EventTimes, RootIsEarliest
<1>6. 1 \in 1 .. Len(h)
  BY <1>2
<1>7. Pending'[s] = Pending[s] \ {h[1]}
  <2>1. ASSUME NEW x, x \in Pending'[s]
        PROVE  x \in Pending[s] /\ x # h[1]
    <3>3. PICK i \in 1 .. Len(heap'[s]) : heap'[s][i] = x
      BY <1>4, <2>1
    <3>4. \E j \in 2 .. Len(h) : heap'[s][i] = h[j]
      BY <1>1 DEF IsPopped
    <3>1. PICK j \in 2 .. Len(h) : x = h[j]
      BY <3>3, <3>4
    <3>2. j \in 1 .. Len(h) /\ j # 1
      BY <1>2
    <3> QED
      BY <1>2, <1>3, <1>6, <3>1, <3>2 DEF IsDistinct, DiffersUpTo
  <2>2. ASSUME NEW x, x \in Pending[s], x # h[1]
        PROVE  x \in Pending'[s]
    <3>1. PICK j \in 1 .. Len(h) : x = h[j]
      BY <1>3, <2>2
    <3>2. j \in 2 .. Len(h)
      BY <1>2, <2>2, <3>1
    <3> QED
      BY <1>1, <1>4, <3>1, <3>2 DEF IsPopped
  <2> QED
    BY <2>1, <2>2
<1>8. Pending' = [Pending EXCEPT ![s] = Pending[s] \ {h[1]}]
  BY <1>1, <1>7, OtherQueues
<1> QED
  BY <1>1, <1>2, <1>3, <1>5, <1>6, <1>8 DEF h

LEMMA EmptyQueue ==
    ASSUME QueuesInv, NEW s \in Sources
    PROVE  Pending[s] = {} <=> heap[s] = <<>>
<1>1. \A x : x \in Pending[s] <=> \E i \in 1 .. Len(heap[s]) : heap[s][i] = x
  BY InQueue
<1>2. Len(heap[s]) \in Nat /\ (heap[s] # <<>> <=> Len(heap[s]) >= 1)
  BY OneQueue
<1>3. heap[s] # <<>> => heap[s][1] \in Pending[s]
  <2>1. heap[s] # <<>> => 1 \in 1 .. Len(heap[s])
    BY <1>2
  <2> QED
    BY <1>1, <2>1
<1>4. heap[s] = <<>> => Pending[s] = {}
  BY <1>1, <1>2
<1> QED
  BY <1>3, <1>4

LEMMA PopTakes ==
    ASSUME QueuesInv, QueuesInv', NEW s \in Sources, Pop(s)
    PROVE  Promise!Take(s)
<1>1. PopFor(s, s)
  BY DEF Pop
<1>2. CASE heap[s] = <<>>
  <2>1. heap' = heap /\ last' = Got(s, None)
    BY <1>1, <1>2, PopEffect
  <2>2. Pending' = Pending
    BY <2>1 DEF Pending
  <2>3. Pending[s] = {}
    BY <1>2, EmptyQueue
  <2> QED
    BY <2>1, <2>2, <2>3 DEF Promise!Take, Promise!Got, Got
<1>3. CASE heap[s] # <<>>
  <2> DEFINE e == heap[s][1]
  <2>1. /\ e \in Pending[s]
        /\ \A x \in Pending[s] : x \in Event /\ e.ts <= x.ts
        /\ last' = Got(s, e)
        /\ Pending' = [Pending EXCEPT ![s] = Pending[s] \ {e}]
    BY <1>1, <1>3, PopRemoves
  <2> HIDE DEF e
  <2>2. e \in Promise!Earliest(Pending[s])
    BY <2>1 DEF Promise!Earliest
  <2> QED
    BY <2>1, <2>2 DEF Promise!Take, Promise!Got, Got
<1> QED
  BY <1>2, <1>3

-----------------------------------------------------------------------------
(* The merger                                                              *)

LEMMA TimesOfQueues ==
    ASSUME QueuesInv, NEW s \in Sources
    PROVE  /\ NextTimestamp(s) \in Int
           /\ heap[s] = <<>> => NextTimestamp(s) = Never
           /\ \A x \in Pending[s] : NextTimestamp(s) <= x.ts /\ x.ts \in Int
<1>1. CASE heap[s] = <<>>
  BY <1>1, EmptyQueue, ConstantsAssumption DEF NextTimestamp
<1>2. CASE heap[s] # <<>>
  <2>1. /\ heap[s] \in Seq(Event) /\ IsHeap(heap[s])
        /\ Len(heap[s]) \in Nat /\ Len(heap[s]) >= 1
        /\ \A i \in 1 .. Len(heap[s]) : heap[s][i] \in Event
    BY <1>2, OneQueue
  <2>2. NextTimestamp(s) = heap[s][1].ts
    BY <1>2 DEF NextTimestamp
  <2>3. 1 \in 1 .. Len(heap[s])
    BY <2>1
  <2>4. \A i \in 1 .. Len(heap[s]) : heap[s][1].ts <= heap[s][i].ts
    BY <2>1, EventTimes, RootIsEarliest
  <2>5. \A x \in Pending[s] : \E i \in 1 .. Len(heap[s]) : heap[s][i] = x
    BY InQueue
  <2> QED
    BY <1>2, <2>1, <2>2, <2>3, <2>4, <2>5, EventTimes
<1> QED
  BY <1>1, <1>2

\* Among the first sources there is a first one of the earliest.
FirstOf(k, s) ==
    /\ s \in 1 .. k
    /\ \A r \in 1 .. s - 1 : NextTimestamp(r) > NextTimestamp(s)
    /\ \A r \in s + 1 .. k : NextTimestamp(r) >= NextTimestamp(s)

LEMMA SomeSourceIsFirst ==
    ASSUME QueuesInv
    PROVE  \E s \in Sources : FirstOf(NSources, s)
<1> DEFINE Good == { k \in Nat : 1 <= k /\ k <= NSources => \E s \in Nat : FirstOf(k, s) }
<1>1. NSources \in Nat /\ NSources >= 1
  BY ConstantsAssumption
<1>2. \A s \in 1 .. NSources : NextTimestamp(s) \in Int
  BY TimesOfQueues DEF Sources
<1>3. 0 \in Good
  OBVIOUS
<1>4. ASSUME NEW k \in Nat, k \in Good
      PROVE  k + 1 \in Good
  <2> SUFFICES ASSUME k + 1 <= NSources
               PROVE  \E s \in Nat : FirstOf(k + 1, s)
    OBVIOUS
  <2>1. CASE k = 0
    <3>1. FirstOf(k + 1, 1)
      BY <2>1 DEF FirstOf
    <3> QED
      BY <3>1
  <2>2. CASE k >= 1
    <3>1. PICK s \in Nat : FirstOf(k, s)
      BY <1>1, <1>4, <2>2
    <3>2. /\ s \in 1 .. k
          /\ \A r \in 1 .. s - 1 : NextTimestamp(r) > NextTimestamp(s)
          /\ \A r \in s + 1 .. k : NextTimestamp(r) >= NextTimestamp(s)
      BY <3>1 DEF FirstOf
    <3>3. /\ \A r \in 1 .. k + 1 : NextTimestamp(r) \in Int
          /\ s \in 1 .. k + 1 /\ k + 1 \in 1 .. k + 1
      BY <1>1, <1>2, <3>2
    <3>4. CASE NextTimestamp(k + 1) >= NextTimestamp(s)
      <4>1. \A r \in s + 1 .. k + 1 : NextTimestamp(r) >= NextTimestamp(s)
        BY <3>2, <3>4
      <4>2. FirstOf(k + 1, s)
        BY <3>2, <3>3, <4>1 DEF FirstOf
      <4> QED
        BY <4>2
    <3>5. CASE ~ (NextTimestamp(k + 1) >= NextTimestamp(s))
      <4>1. NextTimestamp(s) > NextTimestamp(k + 1)
        BY <3>3, <3>5
      <4>2. ASSUME NEW r \in 1 .. k
            PROVE  NextTimestamp(r) > NextTimestamp(k + 1)
        <5>1. NextTimestamp(r) >= NextTimestamp(s)
          <6>1. r \in 1 .. s - 1 \/ r = s \/ r \in s + 1 .. k
            BY <3>2
          <6>2. r \in 1 .. k + 1
            OBVIOUS
          <6> QED
            BY <3>2, <3>3, <6>1, <6>2
        <5>2. r \in 1 .. k + 1
          OBVIOUS
        <5> QED
          BY <3>3, <4>1, <5>1, <5>2
      <4>3. \A r \in 1 .. (k + 1) - 1 : NextTimestamp(r) > NextTimestamp(k + 1)
        BY <4>2
      <4>4. \A r \in (k + 1) + 1 .. k + 1 : NextTimestamp(r) >= NextTimestamp(k + 1)
        OBVIOUS
      <4>5. FirstOf(k + 1, k + 1)
        BY <3>3, <4>3, <4>4 DEF FirstOf
      <4> QED
        BY <4>5
    <3> QED
      BY <3>4, <3>5
  <2> QED
    BY <2>1, <2>2
<1> HIDE DEF Good
<1>5. NSources \in Good
  BY <1>1, <1>3, <1>4, NatSetInduction
<1>6. \E s \in Nat : FirstOf(NSources, s)
  BY <1>1, <1>5 DEF Good
<1> QED
  BY <1>6 DEF FirstOf, Sources

\* The merger's choice is a source that no other is earlier than.
LEMMA FirstIsEarliest ==
    ASSUME QueuesInv, NEW s \in Sources, FirstOf(NSources, s), NEW r \in Sources
    PROVE  NextTimestamp(s) <= NextTimestamp(r)
<1>1. NSources \in Nat /\ s \in 1 .. NSources /\ r \in 1 .. NSources
  BY ConstantsAssumption DEF Sources
<1>2. NextTimestamp(r) \in Int /\ NextTimestamp(s) \in Int
  BY TimesOfQueues
<1>3. r \in 1 .. s - 1 \/ r = s \/ r \in s + 1 .. NSources
  BY <1>1
<1> QED
  BY <1>2, <1>3 DEF FirstOf

LEMMA BestIsFirst ==
    ASSUME QueuesInv, NEW s \in Sources
    PROVE  Best(s) <=> FirstOf(NSources, s) /\ NextTimestamp(s) < Never
<1>1. NextTimestamp(s) < Never => heap[s] # <<>>
  BY TimesOfQueues
<1> QED
  BY <1>1 DEF Best, FirstOf, Sources

LEMMA InDue ==
    ASSUME NEW x
    PROVE  x \in Promise!Due <=> x \in Promise!All /\ x.ts < Never
  BY DEF Promise!Due

LEMMA MergerTakes ==
    ASSUME QueuesInv, QueuesInv', PopNext
    PROVE  Promise!TakeNext
<1>1. ASSUME NEW s \in Sources, Best(s), PopFor(s, Merger)
      PROVE  Promise!TakeNext
  <2> DEFINE e == heap[s][1]
  <2>1. heap[s] # <<>> /\ NextTimestamp(s) = e.ts /\ e.ts < Never
    BY <1>1 DEF Best, NextTimestamp
  <2>2. /\ e \in Pending[s]
        /\ last' = Got(Merger, e)
        /\ Pending' = [Pending EXCEPT ![s] = Pending[s] \ {e}]
    BY <1>1, <2>1, PopRemoves
  <2>3. FirstOf(NSources, s)
    BY <1>1, BestIsFirst
  <2> HIDE DEF e
  <2>4. e \in Promise!Due
    BY <2>1, <2>2, InAll, InDue
  <2>5. ASSUME NEW x \in Promise!Due
        PROVE  e.ts <= x.ts
    <3>1. PICK r \in Sources : x \in Pending[r]
      BY InAll, InDue
    <3>2. /\ NextTimestamp(s) <= NextTimestamp(r)
          /\ NextTimestamp(r) <= x.ts
          /\ NextTimestamp(s) \in Int /\ NextTimestamp(r) \in Int /\ x.ts \in Int
      BY <2>3, <3>1, FirstIsEarliest, TimesOfQueues
    <3> QED
      BY <2>1, <3>2
  <2>6. e \in Promise!Earliest(Promise!Due)
    BY <2>4, <2>5 DEF Promise!Earliest
  <2>7. e \in Pending[s] \cap Promise!Earliest(Promise!Due)
    BY <2>2, <2>6
  <2> QED
    BY <2>2, <2>7 DEF Promise!TakeNext, Promise!Got, Got
<1>2. CASE /\ ~ \E s \in Sources : Best(s)
           /\ last' = Got(Merger, None)
           /\ UNCHANGED <<heap, count>>
  <2>1. PICK s \in Sources : FirstOf(NSources, s)
    BY SomeSourceIsFirst
  <2>2. ~ (NextTimestamp(s) < Never)
    BY <1>2, <2>1, BestIsFirst
  <2>3. ASSUME NEW x, x \in Promise!Due
        PROVE  FALSE
    <3>1. PICK r \in Sources : x \in Pending[r]
      BY <2>3, InAll, InDue
    <3>2. /\ NextTimestamp(s) <= NextTimestamp(r)
          /\ NextTimestamp(r) <= x.ts
          /\ NextTimestamp(s) \in Int /\ NextTimestamp(r) \in Int /\ x.ts \in Int
      BY <2>1, <3>1, FirstIsEarliest, TimesOfQueues
    <3>3. x.ts < Never /\ Never \in Int
      BY <2>3, InDue, ConstantsAssumption
    <3> QED
      BY <2>2, <3>2, <3>3
  <2>4. Promise!Due = {}
    BY <2>3
  <2>5. Pending' = Pending
    BY <1>2 DEF Pending
  <2> QED
    BY <1>2, <2>4, <2>5 DEF Promise!TakeNext, Promise!Got, Got
<1> QED
  BY <1>1, <1>2 DEF PopNext

\* A pop gives an earliest event of its queue and pop_next an earliest one of
\* all sources, no event is lost, given out twice or made up, and the merger
\* says that there is none only if none is left before the end of time.
THEOREM QueuesImplementTimeQueue == Spec => ImplementsTimeQueue
<1>1. Init => Promise!Init
  <2> SUFFICES ASSUME Init PROVE Promise!Init
    OBVIOUS
  <2>1. \A s \in Sources : Range(heap[s]) = {}
    <3> SUFFICES ASSUME NEW s \in Sources PROVE Range(heap[s]) = {}
      OBVIOUS
    <3>1. heap[s] = <<>>
      BY DEF Init
    <3> QED
      BY <3>1 DEF Range
  <2>2. Pending = [s \in Sources |-> {}]
    BY <2>1 DEF Pending
  <2> QED
    BY <2>2 DEF Init, Promise!Init, Promise!Got, Got
<1>2. QueuesInv /\ QueuesInv' /\ [Next]_vars => [Promise!Next]_(Promise!vars)
  <2> SUFFICES ASSUME QueuesInv, QueuesInv', [Next]_vars
               PROVE  [Promise!Next]_(Promise!vars)
    OBVIOUS
  <2>1. ASSUME NEW s \in Sources, NEW ts \in Times, Push(s, ts)
        PROVE  Promise!Next
    BY <2>1, PushPuts DEF Promise!Next
  <2>2. ASSUME NEW s \in Sources, Pop(s)
        PROVE  Promise!Next
    BY <2>2, PopTakes DEF Promise!Next
  <2>3. CASE PopNext
    BY <2>3, MergerTakes DEF Promise!Next
  <2>4. ASSUME NEW s \in Sources, Clear(s)
        PROVE  Promise!Next
    <3>1. /\ heap' = [heap EXCEPT ![s] = <<>>] /\ last' = last
          /\ DOMAIN heap = Sources
      BY <2>4 DEF Clear, QueuesInv, TypeOK
    <3>2. heap'[s] = <<>> /\ \A r \in Sources : r # s => heap'[r] = heap[r]
      BY <3>1
    <3>3. Pending'[s] = {}
      <4>1. Pending'[s] = Range(heap'[s])
        BY DEF Pending
      <4> QED
        BY <3>2, <4>1 DEF Range
    <3>4. Pending' = [Pending EXCEPT ![s] = {}]
      BY <3>2, <3>3, OtherQueues
    <3>5. Promise!Drop(s)
      BY <3>1, <3>4 DEF Promise!Drop
    <3> QED
      BY <3>5 DEF Promise!Next
  <2>5. CASE UNCHANGED vars
    BY <2>5 DEF vars, Pending, Promise!vars
  <2> QED
    BY <2>1, <2>2, <2>3, <2>4, <2>5 DEF Next
<1> QED
  BY <1>1, <1>2, QueuesAreConsistent, PTL DEF Spec, ImplementsTimeQueue, Promise!Spec

-----------------------------------------------------------------------------
(* Positions and slots                                                     *)

\* Positions less than Capacity apart have different slots; a slot comes back
\* after Capacity positions.
LEMMA SlotFacts ==
    /\ \A p \in Int : Slot(p) \in Slots
    /\ \A p, q \in Int : (p < q /\ q < p + Capacity) => Slot(p) # Slot(q)
    /\ \A p \in Int : Slot(p + Capacity) = Slot(p)
<1> DEFINE round(p) == p \div Capacity
<1>1. Capacity \in Nat /\ Capacity >= 2
  BY CapacityAssumption
<1>2. \A p \in Int : Slot(p) \in Slots
  BY <1>1 DEF Slot, Slots
<1>3. \A p \in Int : round(p) \in Int /\ p = Capacity * round(p) + Slot(p)
  BY <1>1 DEF Slot
<1>4. \A p \in Int : Slot(p) \in Int /\ 0 <= Slot(p) /\ Slot(p) < Capacity
  BY <1>1, <1>2 DEF Slots
<1> HIDE DEF round
\* Two multiples of Capacity less than Capacity apart are equal.
<1>5. ASSUME NEW a \in Int, NEW b \in Int,
             Capacity * b - Capacity * a < Capacity,
             Capacity * a - Capacity * b < Capacity
      PROVE  a = b
  <2>1. CASE b - a >= 1
    <3>1. Capacity * (b - a) >= Capacity
      BY <1>1, <2>1
    <3>2. Capacity * (b - a) = Capacity * b - Capacity * a
      BY <1>1
    <3> QED
      BY <1>1, <1>5, <3>1, <3>2
  <2>2. CASE a - b >= 1
    <3>1. Capacity * (a - b) >= Capacity
      BY <1>1, <2>2
    <3>2. Capacity * (a - b) = Capacity * a - Capacity * b
      BY <1>1
    <3> QED
      BY <1>1, <1>5, <3>1, <3>2
  <2> QED
    BY <2>1, <2>2
<1>6. ASSUME NEW p \in Int, NEW q \in Int, p < q, q < p + Capacity, Slot(p) = Slot(q)
      PROVE  FALSE
  <2>1. PICK a \in Int, b \in Int :
           /\ a = round(p) /\ b = round(q)
           /\ p = Capacity * a + Slot(p) /\ q = Capacity * b + Slot(q)
    BY <1>3
  <2>2. PICK x \in Int, y \in Int : x = Capacity * a /\ y = Capacity * b
    BY <1>1
  <2>3. p = x + Slot(p) /\ q = y + Slot(p) /\ Slot(p) \in Int
    BY <1>4, <1>6, <2>1, <2>2
  <2>4. y - x < Capacity /\ x - y < Capacity /\ x # y
    BY <1>1, <1>6, <2>3
  <2>5. a = b
    BY <1>5, <2>2, <2>4
  <2> QED
    BY <2>2, <2>4, <2>5
<1>7. ASSUME NEW p \in Int
      PROVE  Slot(p + Capacity) = Slot(p)
  <2> p + Capacity \in Int
    BY <1>1
  <2>1. PICK a \in Int, b \in Int :
           /\ a = round(p) /\ b = round(p + Capacity)
           /\ p = Capacity * a + Slot(p)
           /\ p + Capacity = Capacity * b + Slot(p + Capacity)
    BY <1>3
  <2>2. Capacity * (a + 1) = Capacity * a + Capacity
    BY <1>1
  <2>3. PICK x \in Int, y \in Int, c \in Int :
           x = Capacity * b /\ y = Capacity * c /\ c = a + 1 /\ y = Capacity * a + Capacity
    BY <1>1, <2>2
  <2>4. p + Capacity = y + Slot(p) /\ p + Capacity = x + Slot(p + Capacity)
    BY <1>1, <1>4, <2>1, <2>3
  <2>5. x - y < Capacity /\ y - x < Capacity
    BY <1>1, <1>4, <2>4
  <2>6. x = y
    BY <1>5, <2>3, <2>5
  <2> QED
    BY <1>1, <1>4, <2>4, <2>6
<1> QED
  BY <1>2, <1>6, <1>7

-----------------------------------------------------------------------------
(* The inductive invariant                                                 *)

LEMMA RingStarts == RingInit => RingInv
<1> SUFFICES ASSUME RingInit PROVE RingInv
  OBVIOUS
<1> USE CapacityAssumption
<1>1. RingTypeOK
  <2>1. sequence \in [Slots -> Nat]
    BY DEF RingInit, Slots
  <2>2. log \in Seq(Events)
    BY DEF RingInit
  <2> QED
    BY <2>1, <2>2 DEF RingInit, RingTypeOK, Threads
<1>2. Len(log) = tail /\ head <= tail /\ tail <= head + Capacity
  BY DEF RingInit
<1>3. ASSUME NEW p \in Window
      PROVE  PositionOK(p)
  <2>1. p \in Int /\ - Capacity <= p /\ p < 0
    BY DEF Window, RingInit
  <2>2. Slot(p) = p + Capacity
    <3>1. p + Capacity \in 0 .. Capacity - 1
      BY <2>1
    <3>2. Slot(p + Capacity) = p + Capacity
      BY <3>1 DEF Slot
    <3> QED
      BY <2>1, <3>2, SlotFacts
  <2>3. sequence[Slot(p)] = p + Capacity
    BY <2>1, <2>2 DEF RingInit, Slots
  <2> QED
    BY <2>1, <2>3 DEF PositionOK, Released, RingInit
<1>4. \A t \in Producers : ProducerOK(t)
  BY DEF RingInit, ProducerOK, Owns, Threads
<1>5. \A t \in Consumers : ConsumerOK(t)
  BY DEF RingInit, ConsumerOK, Owns, Threads
<1> QED
  BY <1>1, <1>2, <1>3, <1>4, <1>5 DEF RingInv, RingInit, Owns, Threads

\* What every step may use: the parts of RingInv and the types, by name.
LEMMA RingParts ==
    ASSUME RingInv
    PROVE  /\ tail \in Nat /\ head \in Nat /\ head <= tail /\ tail <= head + Capacity
           /\ \A t \in Threads : pos[t] \in Nat
           /\ \A p \in Int : sequence[Slot(p)] \in Nat
           /\ \A p \in Int : p \in Window <=> (tail - Capacity <= p /\ p < tail)
           /\ Capacity \in Nat /\ Capacity >= 2
<1>1. RingTypeOK /\ head <= tail /\ tail <= head + Capacity
  BY DEF RingInv
<1>2. \A p \in Int : sequence[Slot(p)] \in Nat
  BY <1>1, SlotFacts DEF RingTypeOK
<1> QED
  BY <1>1, <1>2, CapacityAssumption DEF RingTypeOK, Window

\* Steps that claim, write and publish nothing keep the invariant when the
\* thread that took them still satisfies its part.
LEMMA QuietStep ==
    ASSUME RingInv, RingTypeOK',
           UNCHANGED <<tail, head, sequence, buffer, log>>,
           \A u \in Threads : Owns(u)' <=> Owns(u),
           \A u \in Threads : Owns(u) => pos'[u] = pos[u],
           \A u \in Producers : ProducerOK(u)',
           \A u \in Consumers : ConsumerOK(u)'
    PROVE  RingInv'
<1>1. ASSUME NEW p \in Window'
      PROVE  PositionOK(p)'
  <2>1. PositionOK(p)
    BY <1>1 DEF RingInv, Window
  <2>2. Writing(p) => Writing(p)'
    BY DEF Writing, Threads
  <2>3. Readable(p) => Readable(p)'
    BY DEF Readable, Threads
  <2>4. Released(p) => Released(p)'
    BY DEF Released
  <2> QED
    BY <2>1, <2>2, <2>3, <2>4 DEF PositionOK
<1>2. \A t, u \in Producers : (t # u /\ Owns(t)' /\ Owns(u)') => pos'[t] # pos'[u]
  BY DEF RingInv, Threads
<1>3. \A t, u \in Consumers : (t # u /\ Owns(t)' /\ Owns(u)') => pos'[t] # pos'[u]
  BY DEF RingInv, Threads
<1>4. Len(log') = tail' /\ head' <= tail' /\ tail' <= head' + Capacity
  BY DEF RingInv
<1> QED
  BY <1>1, <1>2, <1>3, <1>4 DEF RingInv

\* A reload of a counter leaves every position a natural number, and moves no
\* other thread's.
LEMMA ReloadFacts ==
    ASSUME RingTypeOK, NEW t \in Threads, NEW counter \in Nat, Reload(t, counter)
    PROVE  /\ pos' \in [Threads -> Nat]
           /\ \A u \in Threads : u # t => pos'[u] = pos[u]
<1>1. PICK v \in pos[t] .. counter : pos' = [pos EXCEPT ![t] = v]
  BY DEF Reload
<1>2. v \in Nat
  BY DEF RingTypeOK
<1> QED
  BY <1>1, <1>2 DEF RingTypeOK

LEMMA TypesKept ==
    ASSUME RingInv, RingNext
    PROVE  RingTypeOK'
<1> USE RingParts, CapacityAssumption
<1>1. RingTypeOK
  BY DEF RingInv
<1>2. \A t \in Threads : /\ Slot(pos[t]) \in Slots
                         /\ pos[t] \in Nat /\ pos[t] + 1 \in Nat
                         /\ pos[t] + Capacity \in Nat
  BY SlotFacts
<1>3. \A t \in Producers : t \in Threads
  BY DEF Threads
<1>4. \A t \in Consumers : t \in Threads
  BY DEF Threads
<1>5. \A t \in Producers : (pc[t] = "claim") => item[t] \in Events
  BY DEF RingInv, ProducerOK
<1>6. ASSUME NEW t \in Producers, NEW e \in Events, PushCall(t, e)
      PROVE  RingTypeOK'
  BY <1>1, <1>3, <1>6, ReloadFacts DEF PushCall, Goto, RingTypeOK
<1>7. ASSUME NEW t \in Producers, PushFree(t) \/ PushFull(t)
      PROVE  RingTypeOK'
  BY <1>1, <1>7 DEF PushFree, PushFull, Goto, RingTypeOK
<1>8. ASSUME NEW t \in Producers, PushBehind(t) \/ PushRetry(t)
      PROVE  RingTypeOK'
  BY <1>1, <1>3, <1>8, ReloadFacts DEF PushBehind, PushRetry, Goto, RingTypeOK
<1>9. ASSUME NEW t \in Producers, PushClaim(t)
      PROVE  RingTypeOK'
  <2>1. log' \in Seq(Events)
    BY <1>1, <1>5, <1>9 DEF PushClaim, RingTypeOK
  <2>2. tail' \in Nat
    BY <1>2, <1>3, <1>9 DEF PushClaim
  <2> QED
    BY <1>1, <1>9, <2>1, <2>2 DEF PushClaim, Goto, RingTypeOK
<1>10. ASSUME NEW t \in Producers, PushMove(t)
      PROVE  RingTypeOK'
  BY <1>1, <1>2, <1>3, <1>10 DEF PushMove, Goto, RingTypeOK
<1>11. ASSUME NEW t \in Producers, PushPublish(t)
      PROVE  RingTypeOK'
  BY <1>1, <1>2, <1>3, <1>11 DEF PushPublish, Goto, RingTypeOK
<1>12. ASSUME NEW t \in Consumers, PopCall(t) \/ PopBehind(t) \/ PopRetry(t)
      PROVE  RingTypeOK'
  BY <1>1, <1>4, <1>12, ReloadFacts DEF PopCall, PopBehind, PopRetry, Goto, RingTypeOK
<1>13. ASSUME NEW t \in Consumers, PopReady(t) \/ PopEmpty(t) \/ PopClaim(t)
      PROVE  RingTypeOK'
  BY <1>1, <1>2, <1>4, <1>13 DEF PopReady, PopEmpty, PopClaim, Goto, RingTypeOK
<1>14. ASSUME NEW t \in Consumers, PopMove(t)
      PROVE  RingTypeOK'
  BY <1>1, <1>2, <1>4, <1>14 DEF PopMove, Goto, RingTypeOK
<1>15. ASSUME NEW t \in Consumers, PopPublish(t)
      PROVE  RingTypeOK'
  BY <1>1, <1>2, <1>4, <1>15 DEF PopPublish, Goto, RingTypeOK
<1> QED
  BY <1>6, <1>7, <1>8, <1>9, <1>10, <1>11, <1>12, <1>13, <1>14, <1>15 DEF RingNext, TryPush, TryPop

\* A call that starts, finds the ring full or empty, or reloads its position.
LEMMA ProducerQuiet ==
    ASSUME RingInv, RingTypeOK', NEW t \in Producers,
           \/ \E e \in Events : PushCall(t, e)
           \/ PushFree(t) \/ PushFull(t) \/ PushBehind(t) \/ PushRetry(t)
    PROVE  RingInv'
<1> USE RingParts, ThreadsAssumption
<1>1. UNCHANGED <<tail, head, sequence, buffer, log>>
  BY DEF PushCall, PushFree, PushFull, PushBehind, PushRetry
<1>2. RingTypeOK /\ t \in Threads
  BY DEF RingInv, Threads
<1>3. \A u \in Threads : u # t => (pc'[u] = pc[u] /\ item'[u] = item[u] /\ pos'[u] = pos[u])
  BY <1>2, ReloadFacts DEF PushCall, PushFree, PushFull, PushBehind, PushRetry, Goto, RingTypeOK
<1>4. ~ Owns(t) /\ ~ Owns(t)'
  BY <1>2 DEF PushCall, PushFree, PushFull, PushBehind, PushRetry, Goto, RingTypeOK, Owns
<1>5. ProducerOK(t)
  BY DEF RingInv
<1>6. ProducerOK(t)'
  <2>1. CASE \E e \in Events : PushCall(t, e)
    BY <1>2, <2>1 DEF PushCall, Goto, RingTypeOK, ProducerOK, Owns
  <2>2. CASE PushFree(t)
    <3>1. sequence[Slot(pos[t])] = pos[t]
      BY <1>2, <2>2 DEF PushFree, Ahead
    <3> QED
      BY <1>2, <1>5, <2>2, <3>1 DEF PushFree, Goto, RingTypeOK, ProducerOK, Owns
  <2>3. CASE PushFull(t)
    BY <1>2, <2>3 DEF PushFull, Goto, RingTypeOK, ProducerOK, Owns
  <2>4. CASE PushBehind(t) \/ PushRetry(t)
    BY <1>2, <1>5, <2>4 DEF PushBehind, PushRetry, Goto, RingTypeOK, ProducerOK, Owns
  <2> QED
    BY <2>1, <2>2, <2>3, <2>4
<1>7. ASSUME NEW u \in Producers
      PROVE  ProducerOK(u)'
  <2>1. CASE u = t
    BY <1>6, <2>1
  <2>2. CASE u # t
    <3>1. ProducerOK(u)
      BY DEF RingInv
    <3> QED
      BY <1>1, <1>3, <2>2, <3>1 DEF ProducerOK, Owns, Window, Threads
  <2> QED
    BY <2>1, <2>2
<1>8. ASSUME NEW u \in Consumers
      PROVE  ConsumerOK(u)'
  <2>1. ConsumerOK(u) /\ u # t
    BY DEF RingInv
  <2> QED
    BY <1>1, <1>3, <2>1 DEF ConsumerOK, Owns, Window, Threads
<1>9. \A u \in Threads : (Owns(u)' <=> Owns(u)) /\ (Owns(u) => pos'[u] = pos[u])
  BY <1>3, <1>4 DEF Owns
<1> QED
  BY <1>1, <1>7, <1>8, <1>9, QuietStep

LEMMA ConsumerQuiet ==
    ASSUME RingInv, RingTypeOK', NEW t \in Consumers,
           PopCall(t) \/ PopReady(t) \/ PopEmpty(t) \/ PopBehind(t) \/ PopRetry(t)
    PROVE  RingInv'
<1> USE RingParts, ThreadsAssumption
<1>1. UNCHANGED <<tail, head, sequence, buffer, log, item>>
  BY DEF PopCall, PopReady, PopEmpty, PopBehind, PopRetry
<1>2. RingTypeOK /\ t \in Threads
  BY DEF RingInv, Threads
<1>3. \A u \in Threads : u # t => (pc'[u] = pc[u] /\ pos'[u] = pos[u])
  BY <1>2, ReloadFacts DEF PopCall, PopReady, PopEmpty, PopBehind, PopRetry, Goto, RingTypeOK
<1>4. ~ Owns(t) /\ ~ Owns(t)'
  BY <1>2 DEF PopCall, PopReady, PopEmpty, PopBehind, PopRetry, Goto, RingTypeOK, Owns
<1>5. ConsumerOK(t)
  BY DEF RingInv
<1>6. ConsumerOK(t)'
  <2>1. CASE PopReady(t)
    <3>1. sequence[Slot(pos[t])] = pos[t] + 1
      BY <1>2, <2>1 DEF PopReady, Ahead
    <3> QED
      BY <1>1, <1>2, <1>5, <2>1, <3>1 DEF PopReady, Goto, RingTypeOK, ConsumerOK, Owns
  <2>2. CASE PopCall(t) \/ PopEmpty(t) \/ PopBehind(t) \/ PopRetry(t)
    BY <1>1, <1>2, <1>5, <2>2
    DEF PopCall, PopEmpty, PopBehind, PopRetry, Goto, RingTypeOK, ConsumerOK, Owns
  <2> QED
    BY <2>1, <2>2
<1>7. ASSUME NEW u \in Consumers
      PROVE  ConsumerOK(u)'
  <2>1. CASE u = t
    BY <1>6, <2>1
  <2>2. CASE u # t
    <3>1. ConsumerOK(u)
      BY DEF RingInv
    <3> QED
      BY <1>1, <1>3, <2>2, <3>1 DEF ConsumerOK, Owns, Window, Threads
  <2> QED
    BY <2>1, <2>2
<1>8. ASSUME NEW u \in Producers
      PROVE  ProducerOK(u)'
  <2>1. ProducerOK(u) /\ u # t
    BY DEF RingInv
  <2> QED
    BY <1>1, <1>3, <2>1 DEF ProducerOK, Owns, Window, Threads
<1>9. \A u \in Threads : (Owns(u)' <=> Owns(u)) /\ (Owns(u) => pos'[u] = pos[u])
  BY <1>3, <1>4 DEF Owns
<1> QED
  BY <1>1, <1>7, <1>8, <1>9, QuietStep

\* Two positions of the window share no slot; the slot of tail is that of the
\* window's first position.
LEMMA WindowSlots ==
    ASSUME RingInv
    PROVE  /\ \A p, q \in Window : p # q => Slot(p) # Slot(q)
           /\ tail - Capacity \in Window
           /\ Slot(tail - Capacity) = Slot(tail)
           /\ \A p \in Window : PositionOK(p) /\ p \in Int
<1> USE RingParts
<1>1. \A p \in Window : PositionOK(p) /\ p \in Int
  BY DEF RingInv, Window
<1>2. ASSUME NEW p \in Window, NEW q \in Window, p < q
      PROVE  Slot(p) # Slot(q)
  BY <1>2, <1>1, SlotFacts
<1>3. \A p, q \in Window : p # q => Slot(p) # Slot(q)
  BY <1>1, <1>2
<1>4. Slot(tail - Capacity) = Slot(tail)
  <2>1. tail - Capacity \in Int /\ (tail - Capacity) + Capacity = tail
    OBVIOUS
  <2> QED
    BY <2>1, SlotFacts
<1> QED
  BY <1>1, <1>3, <1>4

\* A producer that wins the exchange finds the slot released: the event that was
\* there a round ago has been taken out, so the ring is not full.
LEMMA ClaimedIsFree ==
    ASSUME RingInv, NEW t \in Producers, PushClaim(t)
    PROVE  /\ sequence[Slot(tail)] = tail
           /\ tail < head + Capacity
<1> USE RingParts
<1>1. sequence[Slot(tail)] >= tail
  BY DEF RingInv, ProducerOK, PushClaim
<1> DEFINE q == tail - Capacity
<1>2. PositionOK(q) /\ Slot(q) = Slot(tail) /\ q \in Int /\ q + Capacity = tail
  BY WindowSlots
<1> HIDE DEF q
<1>3. Released(q)
  <2>1. sequence[Slot(q)] > q + 1
    BY <1>1, <1>2
  <2> QED
    BY <1>2, <2>1 DEF PositionOK, Writing, Readable
<1> QED
  BY <1>2, <1>3 DEF Released

\* A consumer that wins the exchange finds a published event.
LEMMA ClaimedIsReadable ==
    ASSUME RingInv, NEW t \in Consumers, PopClaim(t)
    PROVE  /\ head \in Window
           /\ sequence[Slot(head)] = head + 1
           /\ buffer[Slot(head)] = log[head + 1]
<1> USE RingParts
<1>1. sequence[Slot(head)] > head
  BY DEF RingInv, ConsumerOK, PopClaim
<1>2. head # tail
  <2> DEFINE q == tail - Capacity
  <2>1. PositionOK(q) /\ Slot(q) = Slot(tail) /\ q \in Int /\ q + Capacity = tail
    BY WindowSlots
  <2> HIDE DEF q
  <2>2. sequence[Slot(tail)] <= tail
    BY <2>1 DEF PositionOK, Writing, Readable, Released
  <2> QED
    BY <1>1, <2>2
<1>3. head \in Window
  BY <1>2
<1>4. Readable(head)
  BY <1>1, <1>3, WindowSlots DEF PositionOK, Writing, Released
<1> QED
  BY <1>3, <1>4 DEF Readable

LEMMA PushClaimKeeps ==
    ASSUME RingInv, RingTypeOK', NEW t \in Producers, PushClaim(t)
    PROVE  RingInv'
<1> USE RingParts
<1>1. RingTypeOK /\ t \in Threads /\ Len(log) = tail
  BY DEF RingInv, Threads
<1>2. /\ tail' = tail + 1 /\ pos[t] = tail
      /\ UNCHANGED <<head, sequence, buffer, pos, item>>
      /\ log' = Append(log, item[t])
      /\ pc[t] = "claim" /\ pc'[t] = "move"
      /\ \A u \in Threads : u # t => pc'[u] = pc[u]
  BY <1>1 DEF PushClaim, Goto, RingTypeOK
<1>3. sequence[Slot(tail)] = tail /\ tail < head + Capacity
  BY ClaimedIsFree
<1>4. item[t] \in Events /\ ~ Owns(t) /\ Owns(t)'
  BY <1>2 DEF RingInv, ProducerOK, Owns
<1>5. /\ Len(log') = tail'
      /\ log'[tail + 1] = item[t]
      /\ \A i \in 1 .. tail : log'[i] = log[i]
  BY <1>1, <1>2, <1>4 DEF RingTypeOK
<1>6. \A p \in Int : p \in Window' <=> (tail - Capacity + 1 <= p /\ p <= tail)
  BY <1>2 DEF Window
<1>7. \A u \in Threads : u # t => (Owns(u)' <=> Owns(u))
  BY <1>2 DEF Owns
<1>8. ASSUME NEW p \in Window'
      PROVE  PositionOK(p)'
  <2>0. p \in Int
    BY <1>2 DEF Window
  <2>1. CASE p = tail
    BY <1>2, <1>3, <1>4, <2>1 DEF PositionOK, Writing
  <2>2. CASE p # tail
    <3>1. PositionOK(p)
      BY <1>6, <1>8, <2>0, <2>2, WindowSlots
    <3>2. Writing(p) => Writing(p)'
      BY <1>2, <1>7, <1>4 DEF Writing, Threads
    <3>3. ASSUME Readable(p) PROVE Readable(p)'
      <4>1. p >= 0
        BY <2>0, <3>3 DEF Readable, Threads
      <4>2. log'[p + 1] = log[p + 1]
        BY <1>5, <1>6, <1>8, <2>0, <2>2, <4>1
      <4> QED
        BY <1>2, <1>4, <1>7, <3>3, <4>2 DEF Readable, Threads
    <3>4. Released(p) => Released(p)'
      BY <1>2 DEF Released
    <3> QED
      BY <3>1, <3>2, <3>3, <3>4 DEF PositionOK
  <2> QED
    BY <2>1, <2>2
\* The slot that leaves the window is released, so nobody owns it.
<1>9. ASSUME NEW u \in Threads, u # t, Owns(u), pos[u] \in Window,
             sequence[Slot(pos[u])] < pos[u] + Capacity
      PROVE  pos[u] \in Window'
  <2>1. pos[u] # tail - Capacity
    BY <1>3, <1>9, WindowSlots
  <2> QED
    BY <1>6, <1>9, <2>1
<1>10. ASSUME NEW u \in Producers
       PROVE  ProducerOK(u)'
  <2>0. ProducerOK(u) /\ u \in Threads
    BY DEF RingInv, Threads
  <2>1. CASE u = t
    <3>1. pos[t] \in Window'
      BY <1>2, <1>6
    <3> QED
      BY <1>1, <1>2, <1>3, <1>5, <2>1, <3>1 DEF ProducerOK, Owns
  <2>2. CASE u # t
    <3>1. ASSUME Owns(u) PROVE pos[u] \in Window' /\ log'[pos[u] + 1] = log[pos[u] + 1]
      <4>1. pos[u] \in Window /\ sequence[Slot(pos[u])] = pos[u]
        BY <2>0, <3>1 DEF ProducerOK
      <4>2. pos[u] \in Window'
        BY <1>9, <2>0, <2>2, <3>1, <4>1
      <4>3. pos[u] \in Nat /\ pos[u] < tail
        BY <2>0, <4>1
      <4>4. pos[u] + 1 \in 1 .. tail
        BY <4>3
      <4> QED
        BY <1>5, <4>2, <4>4
    <3>2. pc'[u] = pc[u]
      BY <1>2, <2>0, <2>2
    <3> QED
      BY <1>2, <2>0, <3>1, <3>2 DEF ProducerOK, Owns
  <2> QED
    BY <2>1, <2>2
<1>11. ASSUME NEW u \in Consumers
       PROVE  ConsumerOK(u)'
  <2>0. ConsumerOK(u) /\ u \in Threads /\ u # t
    BY ThreadsAssumption DEF RingInv, Threads
  <2>1. ASSUME Owns(u) PROVE pos[u] \in Window' /\ log'[pos[u] + 1] = log[pos[u] + 1]
    <3>1. pos[u] \in Window /\ sequence[Slot(pos[u])] = pos[u] + 1
      BY <2>0, <2>1 DEF ConsumerOK
    <3>2. pos[u] \in Window'
      BY <1>9, <2>0, <2>1, <3>1
    <3>3. pos[u] \in Nat /\ pos[u] < tail
      BY <2>0, <3>1
    <3>4. pos[u] + 1 \in 1 .. tail
      BY <3>3
    <3> QED
      BY <1>5, <3>2, <3>4
  <2>2. pc'[u] = pc[u]
    BY <1>2, <2>0
  <2> QED
    BY <1>2, <2>0, <2>1, <2>2 DEF ConsumerOK, Owns
<1>12. \A u \in Producers : (u # t /\ Owns(u)) => pos[u] # tail
  BY DEF RingInv, ProducerOK, Threads
<1>13. \A u, v \in Producers : (u # v /\ Owns(u)' /\ Owns(v)') => pos'[u] # pos'[v]
  BY <1>2, <1>7, <1>12 DEF RingInv, Threads
<1>14. \A u, v \in Consumers : (u # v /\ Owns(u)' /\ Owns(v)') => pos'[u] # pos'[v]
  BY <1>2, <1>7, ThreadsAssumption DEF RingInv, Threads
<1>15. head' <= tail' /\ tail' <= head' + Capacity
  BY <1>2, <1>3
<1> QED
  BY <1>5, <1>8, <1>10, <1>11, <1>13, <1>14, <1>15 DEF RingInv

LEMMA PopClaimKeeps ==
    ASSUME RingInv, RingTypeOK', NEW t \in Consumers, PopClaim(t)
    PROVE  RingInv'
<1> USE RingParts, ThreadsAssumption
<1>1. RingTypeOK /\ t \in Threads /\ Len(log) = tail
  BY DEF RingInv, Threads
<1>2. /\ head' = head + 1 /\ pos[t] = head
      /\ UNCHANGED <<tail, sequence, buffer, pos, item, log>>
      /\ pc[t] = "claim" /\ pc'[t] = "move"
      /\ \A u \in Threads : u # t => pc'[u] = pc[u]
  BY <1>1 DEF PopClaim, Goto, RingTypeOK
<1>3. /\ head \in Window
      /\ sequence[Slot(head)] = head + 1
  BY ClaimedIsReadable
<1>4. ~ Owns(t) /\ Owns(t)' /\ \A u \in Threads : u # t => (Owns(u)' <=> Owns(u))
  BY <1>2 DEF Owns
<1>5. ASSUME NEW p \in Window'
      PROVE  PositionOK(p)'
  <2>1. PositionOK(p) /\ p \in Int
    BY <1>2, WindowSlots DEF Window
  <2>2. ASSUME Writing(p) PROVE Writing(p)'
    <3>1. p # head
      BY <1>3, <2>2 DEF Writing
    <3> QED
      BY <1>2, <1>4, <2>1, <2>2, <3>1 DEF Writing, Threads
  <2>3. ASSUME Readable(p) PROVE Readable(p)'
    <3>1. CASE p = head
      BY <1>2, <1>4, <2>3, <3>1 DEF Readable
    <3>2. CASE p # head
      BY <1>2, <1>4, <2>1, <2>3, <3>2 DEF Readable, Threads
    <3> QED
      BY <3>1, <3>2
  <2>4. Released(p) => Released(p)'
    BY <1>2, <2>1 DEF Released
  <2> QED
    BY <2>1, <2>2, <2>3, <2>4 DEF PositionOK
<1>6. ASSUME NEW u \in Producers
      PROVE  ProducerOK(u)'
  <2>1. ProducerOK(u) /\ u # t /\ u \in Threads
    BY DEF RingInv, Threads
  <2> QED
    BY <1>2, <2>1 DEF ProducerOK, Owns, Window
<1>7. ASSUME NEW u \in Consumers
      PROVE  ConsumerOK(u)'
  <2>1. ConsumerOK(u) /\ u \in Threads
    BY DEF RingInv, Threads
  <2>2. CASE u = t
    <3>1. pos'[t] \in Window'
      BY <1>2, <1>3 DEF Window
    <3> QED
      BY <1>2, <1>3, <2>1, <2>2, <3>1 DEF ConsumerOK, Owns
  <2>3. CASE u # t
    BY <1>2, <2>1, <2>3 DEF ConsumerOK, Owns, Window
  <2> QED
    BY <2>2, <2>3
<1>8. \A u \in Consumers : (u # t /\ Owns(u)) => pos[u] # head
  BY DEF RingInv, ConsumerOK, Threads
<1>9. \A u, v \in Consumers : (u # v /\ Owns(u)' /\ Owns(v)') => pos'[u] # pos'[v]
  BY <1>2, <1>4, <1>8 DEF RingInv, Threads
<1>10. \A u, v \in Producers : (u # v /\ Owns(u)' /\ Owns(v)') => pos'[u] # pos'[v]
  BY <1>2, <1>4 DEF RingInv, Threads
<1>11. head' <= tail' /\ tail' <= head' + Capacity /\ Len(log') = tail'
  BY <1>1, <1>2, <1>3
<1> QED
  BY <1>5, <1>6, <1>7, <1>9, <1>10, <1>11 DEF RingInv

LEMMA PushMoveKeeps ==
    ASSUME RingInv, RingTypeOK', NEW t \in Producers, PushMove(t)
    PROVE  RingInv'
<1> USE RingParts, ThreadsAssumption
<1>1. RingTypeOK /\ t \in Threads /\ Len(log) = tail
  BY DEF RingInv, Threads
<1>2. /\ UNCHANGED <<tail, head, sequence, pos, item, log>>
      /\ pc[t] = "move" /\ pc'[t] = "publish"
      /\ \A u \in Threads : u # t => pc'[u] = pc[u]
  BY <1>1 DEF PushMove, Goto, RingTypeOK
<1>3. /\ buffer'[Slot(pos[t])] = item[t]
      /\ \A s \in Slots : s # Slot(pos[t]) => buffer'[s] = buffer[s]
  BY <1>1, SlotFacts DEF PushMove, RingTypeOK
<1>4. \A u \in Threads : Owns(u)' <=> Owns(u)
  BY <1>2 DEF Owns
<1>5. /\ pos[t] \in Window
      /\ sequence[Slot(pos[t])] = pos[t]
      /\ item[t] = log[pos[t] + 1]
  BY <1>2 DEF RingInv, ProducerOK, Owns
<1>6. \A p \in Window : p # pos[t] => buffer'[Slot(p)] = buffer[Slot(p)]
  BY <1>3, <1>5, WindowSlots, SlotFacts
<1>7. ASSUME NEW p \in Window'
      PROVE  PositionOK(p)'
  <2>1. PositionOK(p) /\ p \in Window /\ p \in Int
    BY <1>2, WindowSlots DEF Window
  <2>2. Writing(p) => Writing(p)'
    BY <1>2, <1>4 DEF Writing, Threads
  <2>3. ASSUME Readable(p) PROVE Readable(p)'
    <3>1. p # pos[t]
      BY <1>5, <2>1, <2>3 DEF Readable
    <3> QED
      BY <1>2, <1>4, <1>6, <2>1, <2>3, <3>1 DEF Readable, Threads
  <2>4. Released(p) => Released(p)'
    BY <1>2 DEF Released
  <2> QED
    BY <2>1, <2>2, <2>3, <2>4 DEF PositionOK
<1>8. ASSUME NEW u \in Producers
      PROVE  ProducerOK(u)'
  <2>1. ProducerOK(u) /\ u \in Threads
    BY DEF RingInv, Threads
  <2>2. CASE u = t
    BY <1>2, <1>3, <1>5, <2>1, <2>2 DEF ProducerOK, Owns, Window
  <2>3. CASE u # t
    <3>1. Owns(u) => pos[u] \in Window /\ pos[u] # pos[t]
      BY <1>2, <2>1, <2>3 DEF RingInv, ProducerOK, Owns
    <3>2. Owns(u) => buffer'[Slot(pos[u])] = buffer[Slot(pos[u])]
      BY <1>6, <3>1
    <3> QED
      BY <1>2, <2>1, <2>3, <3>2 DEF ProducerOK, Owns, Window
  <2> QED
    BY <2>2, <2>3
<1>9. ASSUME NEW u \in Consumers
      PROVE  ConsumerOK(u)'
  <2>1. ConsumerOK(u) /\ u \in Threads /\ u # t
    BY DEF RingInv, Threads
  <2> QED
    BY <1>2, <2>1 DEF ConsumerOK, Owns, Window
<1> QED
  BY <1>1, <1>2, <1>4, <1>7, <1>8, <1>9 DEF RingInv, Threads

LEMMA PopMoveKeeps ==
    ASSUME RingInv, RingTypeOK', NEW t \in Consumers, PopMove(t)
    PROVE  RingInv' /\ buffer[Slot(pos[t])] = log[pos[t] + 1]
<1> USE RingParts, ThreadsAssumption
<1>1. RingTypeOK /\ t \in Threads
  BY DEF RingInv, Threads
<1>2. /\ UNCHANGED <<tail, head, sequence, buffer, pos, log>>
      /\ pc[t] = "move" /\ pc'[t] = "publish"
      /\ item'[t] = buffer[Slot(pos[t])]
      /\ \A u \in Threads : u # t => (pc'[u] = pc[u] /\ item'[u] = item[u])
  BY <1>1 DEF PopMove, Goto, RingTypeOK
<1>3. \A u \in Threads : (Owns(u)' <=> Owns(u)) /\ (Owns(u) => pos'[u] = pos[u])
  BY <1>2 DEF Owns
<1>4. /\ ConsumerOK(t) /\ pos[t] \in Window
      /\ sequence[Slot(pos[t])] = pos[t] + 1
  BY <1>2 DEF RingInv, ConsumerOK, Owns
<1>5. buffer[Slot(pos[t])] = log[pos[t] + 1]
  BY <1>4, WindowSlots DEF PositionOK, Writing, Readable, Released
<1>6. ASSUME NEW u \in Producers
      PROVE  ProducerOK(u)'
  <2>1. ProducerOK(u) /\ u # t
    BY DEF RingInv
  <2> QED
    BY <1>2, <2>1 DEF ProducerOK, Owns, Window, Threads
<1>7. ASSUME NEW u \in Consumers
      PROVE  ConsumerOK(u)'
  <2>1. CASE u = t
    BY <1>2, <1>4, <1>5, <2>1 DEF ConsumerOK, Owns, Window
  <2>2. CASE u # t
    <3>1. ConsumerOK(u)
      BY DEF RingInv
    <3> QED
      BY <1>2, <2>2, <3>1 DEF ConsumerOK, Owns, Window, Threads
  <2> QED
    BY <2>1, <2>2
<1>8. UNCHANGED <<tail, head, sequence, buffer, log>>
  BY <1>2
<1>9. RingInv'
  BY <1>3, <1>6, <1>7, <1>8, QuietStep
<1> QED
  BY <1>5, <1>9

LEMMA PushPublishKeeps ==
    ASSUME RingInv, RingTypeOK', NEW t \in Producers, PushPublish(t)
    PROVE  RingInv'
<1> USE RingParts, ThreadsAssumption
<1>1. RingTypeOK /\ t \in Threads /\ Len(log) = tail
  BY DEF RingInv, Threads
<1>2. /\ UNCHANGED <<tail, head, buffer, log>>
      /\ pc[t] = "publish" /\ pc'[t] = "idle"
      /\ item'[t] = NoEvent
      /\ \A u \in Threads : u # t => (pc'[u] = pc[u] /\ item'[u] = item[u] /\ pos'[u] = pos[u])
  BY <1>1 DEF PushPublish, Goto, RingTypeOK
<1>3. /\ sequence'[Slot(pos[t])] = pos[t] + 1
      /\ \A s \in Slots : s # Slot(pos[t]) => sequence'[s] = sequence[s]
  BY <1>1, SlotFacts DEF PushPublish, RingTypeOK
<1>4. Owns(t) /\ ~ Owns(t)' /\ \A u \in Threads : u # t => (Owns(u)' <=> Owns(u))
  BY <1>2 DEF Owns
<1>5. /\ pos[t] \in Window
      /\ sequence[Slot(pos[t])] = pos[t]
      /\ buffer[Slot(pos[t])] = log[pos[t] + 1]
  BY <1>2 DEF RingInv, ProducerOK, Owns
<1>6. \A p \in Window : p # pos[t] => sequence'[Slot(p)] = sequence[Slot(p)]
  BY <1>3, <1>5, WindowSlots, SlotFacts
\* Numbers only grow.
<1>7. \A p \in Int : sequence'[Slot(p)] \in Int /\ sequence'[Slot(p)] >= sequence[Slot(p)]
  <2>1. ASSUME NEW p \in Int
        PROVE  sequence'[Slot(p)] \in Int /\ sequence'[Slot(p)] >= sequence[Slot(p)]
    <3>0. sequence[Slot(p)] \in Int /\ pos[t] \in Int
      BY <1>1, <2>1
    <3>1. CASE Slot(p) = Slot(pos[t])
      BY <1>3, <1>5, <3>0, <3>1
    <3>2. CASE Slot(p) # Slot(pos[t])
      <4>1. Slot(p) \in Slots
        BY <2>1, SlotFacts
      <4> QED
        BY <1>3, <3>0, <3>2, <4>1
    <3> QED
      BY <3>1, <3>2
  <2> QED
    BY <2>1
<1>8. ASSUME NEW p \in Window'
      PROVE  PositionOK(p)'
  <2>1. PositionOK(p) /\ p \in Window /\ p \in Int
    BY <1>2, WindowSlots DEF Window
  <2>2. CASE p = pos[t]
    <3>1. p >= head
      BY <1>5, <2>1, <2>2 DEF PositionOK, Writing, Readable, Released
    <3> QED
      BY <1>2, <1>3, <1>5, <2>2, <3>1 DEF PositionOK, Readable
  <2>3. CASE p # pos[t]
    <3>1. sequence'[Slot(p)] = sequence[Slot(p)]
      BY <1>6, <2>1, <2>3
    <3>2. ASSUME Writing(p) PROVE Writing(p)'
      BY <1>2, <1>4, <2>3, <3>1, <3>2 DEF Writing, Threads
    <3>3. ASSUME Readable(p) PROVE Readable(p)'
      BY <1>2, <1>4, <2>3, <3>1, <3>3 DEF Readable, Threads
    <3>4. Released(p) => Released(p)'
      BY <1>2, <3>1 DEF Released
    <3> QED
      BY <2>1, <3>2, <3>3, <3>4 DEF PositionOK
  <2> QED
    BY <2>2, <2>3
<1>9. ASSUME NEW u \in Threads, u # t, Owns(u), pos[u] \in Window,
             u \in Producers
      PROVE  sequence'[Slot(pos[u])] = sequence[Slot(pos[u])]
  <2>1. pos[u] # pos[t]
    BY <1>4, <1>9 DEF RingInv
  <2> QED
    BY <1>6, <1>9, <2>1
<1>10. ASSUME NEW u \in Producers
       PROVE  ProducerOK(u)'
  <2>1. ProducerOK(u) /\ u \in Threads
    BY DEF RingInv, Threads
  <2>2. CASE u = t
    BY <1>2, <2>2 DEF ProducerOK, Owns
  <2>3. CASE u # t
    <3>1. Owns(u) => sequence'[Slot(pos[u])] = sequence[Slot(pos[u])]
      BY <1>9, <2>1, <2>3 DEF ProducerOK
    <3>2. sequence'[Slot(pos[u])] \in Int /\ sequence'[Slot(pos[u])] >= sequence[Slot(pos[u])]
      BY <1>7, <2>1
    <3>3. pc'[u] = pc[u] /\ item'[u] = item[u] /\ pos'[u] = pos[u]
      BY <1>2, <2>1, <2>3
    <3> QED
      BY <1>2, <2>1, <3>1, <3>2, <3>3 DEF ProducerOK, Owns, Window
  <2> QED
    BY <2>2, <2>3
<1>11. ASSUME NEW u \in Consumers
       PROVE  ConsumerOK(u)'
  <2>1. ConsumerOK(u) /\ u \in Threads
    BY DEF RingInv, Threads
  <2>2. u # t
    BY DEF Threads
  <2>3. Owns(u) => sequence'[Slot(pos[u])] = sequence[Slot(pos[u])]
    <3>1. CASE Owns(u)
      <4>1. pos[u] \in Window /\ pos[u] # pos[t]
        BY <1>5, <2>1, <3>1 DEF ConsumerOK
      <4> QED
        BY <1>6, <4>1
    <3> QED
      BY <3>1
  <2>4. sequence'[Slot(pos[u])] \in Int /\ sequence'[Slot(pos[u])] >= sequence[Slot(pos[u])]
    BY <1>7, <2>1
  <2>5. pc'[u] = pc[u] /\ item'[u] = item[u] /\ pos'[u] = pos[u]
    BY <1>2, <2>1, <2>2
  <2> QED
    BY <1>2, <2>1, <2>3, <2>4, <2>5 DEF ConsumerOK, Owns, Window
<1>12. /\ \A u, v \in Producers : (u # v /\ Owns(u)' /\ Owns(v)') => pos'[u] # pos'[v]
       /\ \A u, v \in Consumers : (u # v /\ Owns(u)' /\ Owns(v)') => pos'[u] # pos'[v]
  BY <1>2, <1>4 DEF RingInv, Threads
<1> QED
  BY <1>1, <1>2, <1>8, <1>10, <1>11, <1>12 DEF RingInv

LEMMA PopPublishKeeps ==
    ASSUME RingInv, RingTypeOK', NEW t \in Consumers, PopPublish(t)
    PROVE  RingInv'
<1> USE RingParts, ThreadsAssumption
<1>1. RingTypeOK /\ t \in Threads /\ Len(log) = tail
  BY DEF RingInv, Threads
<1>2. /\ UNCHANGED <<tail, head, buffer, log>>
      /\ pc[t] = "publish" /\ pc'[t] = "idle"
      /\ item'[t] = NoEvent
      /\ \A u \in Threads : u # t => (pc'[u] = pc[u] /\ item'[u] = item[u] /\ pos'[u] = pos[u])
  BY <1>1 DEF PopPublish, Goto, RingTypeOK
<1>3. /\ sequence'[Slot(pos[t])] = pos[t] + Capacity
      /\ \A s \in Slots : s # Slot(pos[t]) => sequence'[s] = sequence[s]
  BY <1>1, SlotFacts DEF PopPublish, RingTypeOK
<1>4. Owns(t) /\ ~ Owns(t)' /\ \A u \in Threads : u # t => (Owns(u)' <=> Owns(u))
  BY <1>2 DEF Owns
<1>5. /\ pos[t] \in Window
      /\ sequence[Slot(pos[t])] = pos[t] + 1
      /\ pos[t] < head
  BY <1>2 DEF RingInv, ConsumerOK, Owns
<1>6. \A p \in Window : p # pos[t] => sequence'[Slot(p)] = sequence[Slot(p)]
  BY <1>3, <1>5, WindowSlots, SlotFacts
\* Numbers only grow.
<1>7. \A p \in Int : sequence'[Slot(p)] \in Int /\ sequence'[Slot(p)] >= sequence[Slot(p)]
  <2>1. ASSUME NEW p \in Int
        PROVE  sequence'[Slot(p)] \in Int /\ sequence'[Slot(p)] >= sequence[Slot(p)]
    <3>0. sequence[Slot(p)] \in Int /\ pos[t] \in Int
      BY <1>1, <2>1
    <3>1. CASE Slot(p) = Slot(pos[t])
      BY <1>3, <1>5, <3>0, <3>1
    <3>2. CASE Slot(p) # Slot(pos[t])
      <4>1. Slot(p) \in Slots
        BY <2>1, SlotFacts
      <4> QED
        BY <1>3, <3>0, <3>2, <4>1
    <3> QED
      BY <3>1, <3>2
  <2> QED
    BY <2>1
<1>8. ASSUME NEW p \in Window'
      PROVE  PositionOK(p)'
  <2>1. PositionOK(p) /\ p \in Window /\ p \in Int
    BY <1>2, WindowSlots DEF Window
  <2>2. CASE p = pos[t]
    BY <1>2, <1>3, <1>5, <2>2 DEF PositionOK, Released
  <2>3. CASE p # pos[t]
    <3>1. sequence'[Slot(p)] = sequence[Slot(p)]
      BY <1>6, <2>1, <2>3
    <3>2. ASSUME Writing(p) PROVE Writing(p)'
      BY <1>2, <1>4, <2>3, <3>1, <3>2 DEF Writing, Threads
    <3>3. ASSUME Readable(p) PROVE Readable(p)'
      BY <1>2, <1>4, <2>3, <3>1, <3>3 DEF Readable, Threads
    <3>4. Released(p) => Released(p)'
      BY <1>2, <3>1 DEF Released
    <3> QED
      BY <2>1, <3>2, <3>3, <3>4 DEF PositionOK
  <2> QED
    BY <2>2, <2>3
<1>9. ASSUME NEW u \in Threads, u # t, Owns(u), pos[u] \in Window,
             u \in Consumers
      PROVE  sequence'[Slot(pos[u])] = sequence[Slot(pos[u])]
  <2>1. pos[u] # pos[t]
    BY <1>4, <1>9 DEF RingInv
  <2> QED
    BY <1>6, <1>9, <2>1
<1>10. ASSUME NEW u \in Producers
       PROVE  ProducerOK(u)'
  <2>1. ProducerOK(u) /\ u \in Threads
    BY DEF RingInv, Threads
  <2>2. u # t
    BY DEF Threads
  <2>3. Owns(u) => sequence'[Slot(pos[u])] = sequence[Slot(pos[u])]
    <3>1. CASE Owns(u)
      <4>1. pos[u] \in Window /\ pos[u] # pos[t]
        BY <1>5, <2>1, <3>1 DEF ProducerOK
      <4> QED
        BY <1>6, <4>1
    <3> QED
      BY <3>1
  <2>4. sequence'[Slot(pos[u])] \in Int /\ sequence'[Slot(pos[u])] >= sequence[Slot(pos[u])]
    BY <1>7, <2>1
  <2>5. pc'[u] = pc[u] /\ item'[u] = item[u] /\ pos'[u] = pos[u]
    BY <1>2, <2>1, <2>2
  <2> QED
    BY <1>2, <2>1, <2>3, <2>4, <2>5 DEF ProducerOK, Owns, Window
<1>11. ASSUME NEW u \in Consumers
       PROVE  ConsumerOK(u)'
  <2>1. ConsumerOK(u) /\ u \in Threads
    BY DEF RingInv, Threads
  <2>2. CASE u = t
    BY <1>2, <2>2 DEF ConsumerOK, Owns
  <2>3. CASE u # t
    <3>1. Owns(u) => sequence'[Slot(pos[u])] = sequence[Slot(pos[u])]
      BY <1>9, <2>1, <2>3 DEF ConsumerOK
    <3>2. sequence'[Slot(pos[u])] \in Int /\ sequence'[Slot(pos[u])] >= sequence[Slot(pos[u])]
      BY <1>7, <2>1
    <3>3. pc'[u] = pc[u] /\ item'[u] = item[u] /\ pos'[u] = pos[u]
      BY <1>2, <2>1, <2>3
    <3> QED
      BY <1>2, <2>1, <3>1, <3>2, <3>3 DEF ConsumerOK, Owns, Window
  <2> QED
    BY <2>2, <2>3
<1>12. /\ \A u, v \in Producers : (u # v /\ Owns(u)' /\ Owns(v)') => pos'[u] # pos'[v]
       /\ \A u, v \in Consumers : (u # v /\ Owns(u)' /\ Owns(v)') => pos'[u] # pos'[v]
  BY <1>2, <1>4 DEF RingInv, Threads
<1> QED
  BY <1>1, <1>2, <1>8, <1>10, <1>11, <1>12 DEF RingInv

LEMMA RingStep ==
    ASSUME RingInv, [RingNext]_ringVars
    PROVE  RingInv'
<1>1. CASE RingNext
  <2>1. RingTypeOK'
    BY <1>1, TypesKept
  <2>2. ASSUME NEW t \in Producers, TryPush(t)
        PROVE  RingInv'
    BY <2>1, <2>2, ProducerQuiet, PushClaimKeeps, PushMoveKeeps, PushPublishKeeps DEF TryPush
  <2>3. ASSUME NEW t \in Consumers, TryPop(t)
        PROVE  RingInv'
    BY <2>1, <2>3, ConsumerQuiet, PopClaimKeeps, PopMoveKeeps, PopPublishKeeps DEF TryPop
  <2> QED
    BY <1>1, <2>2, <2>3 DEF RingNext
<1>2. CASE UNCHANGED ringVars
  <2>1. RingTypeOK'
    BY <1>2 DEF RingInv, RingTypeOK, ringVars
  <2>2. ASSUME NEW u \in Producers PROVE ProducerOK(u)'
    BY <1>2 DEF RingInv, ProducerOK, Owns, Window, ringVars
  <2>3. ASSUME NEW u \in Consumers PROVE ConsumerOK(u)'
    BY <1>2 DEF RingInv, ConsumerOK, Owns, Window, ringVars
  <2>4. UNCHANGED <<tail, head, sequence, buffer, log>> /\ UNCHANGED <<pc, pos>>
    BY <1>2 DEF ringVars
  <2>5. \A u \in Threads : (Owns(u)' <=> Owns(u)) /\ (Owns(u) => pos'[u] = pos[u])
    BY <2>4 DEF Owns
  <2> QED
    BY <2>1, <2>2, <2>3, <2>4, <2>5, QuietStep
<1> QED
  BY <1>1, <1>2

\* In every reachable state the numbers in sequence_, the two counters, the
\* slots and the threads inside them agree.
THEOREM RingIsConsistent == RingSpec => []RingInv
<1>1. RingInit => RingInv
  BY RingStarts
<1>2. RingInv /\ [RingNext]_ringVars => RingInv'
  BY RingStep
<1> QED
  BY <1>1, <1>2, PTL DEF RingSpec

\* The ring's variables keep their types.
THEOREM RingTypeCorrect == RingSpec => []RingTypeOK
<1>1. RingInv => RingTypeOK
  BY DEF RingInv
<1> QED
  BY <1>1, RingIsConsistent, PTL

\* No two threads are ever inside the same slot.
THEOREM SlotsHaveOneOwner == RingSpec => []OneOwnerPerSlot
<1>1. ASSUME RingInv, NEW t \in Threads, NEW u \in Threads, t # u, Owns(t), Owns(u)
      PROVE  Slot(pos[t]) # Slot(pos[u])
  <2>1. pos[t] \in Window /\ pos[u] \in Window
    BY <1>1 DEF RingInv, ProducerOK, ConsumerOK, Threads
  <2>2. pos[t] # pos[u]
    <3>1. \A v \in Threads : pos[v] \in Int
      BY <1>1, RingParts
    <3>2. \A v \in Producers : Owns(v) => sequence[Slot(pos[v])] = pos[v]
      BY <1>1 DEF RingInv, ProducerOK
    <3>3. \A v \in Consumers : Owns(v) => sequence[Slot(pos[v])] = pos[v] + 1
      BY <1>1 DEF RingInv, ConsumerOK
    <3>4. CASE (t \in Producers /\ u \in Producers) \/ (t \in Consumers /\ u \in Consumers)
      BY <1>1, <3>4 DEF RingInv
    <3>5. CASE (t \in Producers /\ u \in Consumers) \/ (t \in Consumers /\ u \in Producers)
      BY <1>1, <3>1, <3>2, <3>3, <3>5
    <3> QED
      BY <3>4, <3>5 DEF Threads
  <2> QED
    BY <1>1, <2>1, <2>2, WindowSlots
<1>2. RingInv => OneOwnerPerSlot
  BY <1>1 DEF OneOwnerPerSlot
<1> QED
  BY <1>2, RingIsConsistent, PTL

\* Whenever no thread is inside a slot, every slot is ready to be read or written.
THEOREM SlotsAreNeverLost == RingSpec => []NoSlotLost
<1>1. ASSUME RingInv, \A t \in Threads : ~ Owns(t)
      PROVE  /\ tail - head \in 0 .. Capacity
             /\ \A p \in head .. tail - 1 : sequence[Slot(p)] = p + 1
             /\ \A p \in tail .. head + Capacity - 1 : sequence[Slot(p)] = p
  <2> USE <1>1, RingParts
  <2>1. tail - head \in 0 .. Capacity
    OBVIOUS
  <2>2. ASSUME NEW p \in head .. tail - 1
        PROVE  sequence[Slot(p)] = p + 1
    <3>1. p \in Window
      OBVIOUS
    <3> QED
      BY <3>1, WindowSlots DEF PositionOK, Writing, Readable, Released, Threads
  <2>3. ASSUME NEW p \in tail .. head + Capacity - 1
        PROVE  sequence[Slot(p)] = p
    <3> DEFINE q == p - Capacity
    <3>1. q \in Window /\ q \in Int /\ q < head /\ q + Capacity = p
      OBVIOUS
    <3> HIDE DEF q
    <3>2. Slot(p) = Slot(q)
      BY <3>1, SlotFacts
    <3>3. sequence[Slot(q)] = q + Capacity
      BY <3>1, WindowSlots DEF PositionOK, Writing, Readable, Released, Threads
    <3> QED
      BY <3>1, <3>2, <3>3
  <2> QED
    BY <2>1, <2>2, <2>3
<1>2. RingInv => NoSlotLost
  BY <1>1 DEF NoSlotLost
<1> QED
  BY <1>2, RingIsConsistent, PTL

-----------------------------------------------------------------------------
(* Refinement: the ring implements BoundedFifo                             *)

Waiting == SubSeq(log, head + 1, Len(log))
Held(t) == IF pc[t] = "move" THEN log[pos[t] + 1] ELSE item[t]
HeldBy == [t \in Consumers |-> Held(t)]

\* What is left of a sequence after its first m elements, when one is appended.
LEMMA RestOfAppend ==
    ASSUME NEW S, NEW s \in Seq(S), NEW e \in S, NEW m \in Nat, m <= Len(s)
    PROVE  SubSeq(Append(s, e), m + 1, Len(s) + 1) = Append(SubSeq(s, m + 1, Len(s)), e)
<1> DEFINE longer == Append(s, e)
<1> DEFINE rest == SubSeq(s, m + 1, Len(s))
<1> DEFINE restOfLonger == SubSeq(longer, m + 1, Len(s) + 1)
<1>1. /\ Len(s) \in Nat
      /\ longer \in Seq(S) /\ Len(longer) = Len(s) + 1
      /\ \A i \in 1 .. Len(s) : longer[i] = s[i]
      /\ longer[Len(s) + 1] = e
  OBVIOUS
<1> HIDE DEF longer
<1>2. \A i \in m + 1 .. Len(s) : s[i] \in S
  BY <1>1
<1>3. \A i \in m + 1 .. Len(s) + 1 : longer[i] \in S
  BY <1>1
<1>4. /\ rest \in Seq(S)
      /\ Len(rest) = Len(s) - m
      /\ \A i \in 1 .. Len(s) - m : rest[i] = s[m + i]
  BY <1>1, <1>2, SubSeqProperties
<1>5. /\ restOfLonger \in Seq(S)
      /\ Len(restOfLonger) = Len(s) - m + 1
      /\ \A i \in 1 .. Len(s) - m + 1 : restOfLonger[i] = longer[m + i]
  BY <1>1, <1>3, SubSeqProperties
<1> HIDE DEF rest, restOfLonger
<1>6. /\ Append(rest, e) \in Seq(S)
      /\ Len(Append(rest, e)) = Len(s) - m + 1
      /\ \A i \in 1 .. Len(s) - m : Append(rest, e)[i] = rest[i]
      /\ Append(rest, e)[Len(s) - m + 1] = e
  BY <1>1, <1>4
<1>7. ASSUME NEW i \in 1 .. Len(s) - m + 1
      PROVE  restOfLonger[i] = Append(rest, e)[i]
  <2>1. CASE i = Len(s) - m + 1
    <3>1. m + i = Len(s) + 1
      BY <1>1, <2>1
    <3>2. restOfLonger[i] = longer[m + i]
      BY <1>5
    <3>3. longer[m + i] = e
      BY <1>1, <3>1
    <3>4. Append(rest, e)[i] = e
      BY <1>6, <2>1
    <3> QED
      BY <3>2, <3>3, <3>4
  <2>2. CASE i # Len(s) - m + 1
    <3>1. i \in 1 .. Len(s) - m /\ m + i \in 1 .. Len(s)
      BY <1>1, <2>2
    <3>2. restOfLonger[i] = longer[m + i]
      BY <1>5
    <3>3. longer[m + i] = s[m + i]
      BY <1>1, <3>1
    <3>4. Append(rest, e)[i] = s[m + i]
      BY <1>4, <1>6, <3>1
    <3> QED
      BY <3>2, <3>3, <3>4
  <2> QED
    BY <2>1, <2>2
<1>8. restOfLonger = Append(rest, e)
  BY <1>5, <1>6, <1>7, SeqEqual
<1> QED
  BY <1>8 DEF rest, restOfLonger, longer

LEMMA ClaimPuts ==
    ASSUME RingInv, NEW t \in Producers, PushClaim(t)
    PROVE  /\ item[t] \in Events
           /\ Len(Waiting) < Capacity
           /\ Waiting' = Append(Waiting, item[t])
           /\ UNCHANGED HeldBy
<1> USE RingParts, ThreadsAssumption
<1>1. item[t] \in Events /\ Len(log) = tail /\ log \in Seq(Events)
  BY DEF RingInv, RingTypeOK, ProducerOK, PushClaim
<1>2. tail < head + Capacity
  BY ClaimedIsFree
<1>3. log' = Append(log, item[t]) /\ head' = head /\ pos' = pos /\ item' = item
  BY DEF PushClaim
<1>4. Len(log') = tail + 1
  BY <1>1, <1>3
<1>5. Waiting' = Append(Waiting, item[t])
  <2>1. SubSeq(Append(log, item[t]), head + 1, Len(log) + 1)
           = Append(SubSeq(log, head + 1, Len(log)), item[t])
    BY <1>1, RestOfAppend
  <2> QED
    BY <1>1, <1>3, <1>4, <2>1 DEF Waiting
<1>6. Len(Waiting) < Capacity
  <2>1. \A i \in head + 1 .. Len(log) : log[i] \in Events
    BY <1>1
  <2>2. Len(Waiting) = IF head + 1 <= tail THEN tail - head ELSE 0
    BY <1>1, <2>1, SubSeqProperties DEF Waiting
  <2> QED
    BY <1>2, <2>2
<1>7. ASSUME NEW u \in Consumers
      PROVE  Held(u)' = Held(u)
  <2>1. pc'[u] = pc[u]
    BY DEF PushClaim, Goto, RingInv, RingTypeOK, Threads
  <2>2. CASE pc[u] = "move"
    <3>1. pos[u] \in Nat /\ pos[u] < tail
      BY <2>2 DEF RingInv, ConsumerOK, Owns, Threads, Window
    <3>2. log'[pos[u] + 1] = log[pos[u] + 1]
      <4>1. pos[u] + 1 \in 1 .. Len(log)
        BY <1>1, <3>1
      <4> QED
        BY <1>1, <1>3, <4>1
    <3> QED
      BY <1>3, <2>1, <2>2, <3>2 DEF Held
  <2>3. CASE pc[u] # "move"
    BY <1>3, <2>1, <2>3 DEF Held
  <2> QED
    BY <2>2, <2>3
<1>8. UNCHANGED HeldBy
  BY <1>7 DEF HeldBy
<1> QED
  BY <1>1, <1>5, <1>6, <1>8

LEMMA ClaimTakes ==
    ASSUME RingInv, NEW t \in Consumers, PopClaim(t)
    PROVE  /\ Waiting # <<>>
           /\ Waiting' = Tail(Waiting)
           /\ HeldBy[t] = NoEvent
           /\ HeldBy' = [HeldBy EXCEPT ![t] = Head(Waiting)]
<1> USE RingParts, ThreadsAssumption
<1>1. Len(log) = tail /\ log \in Seq(Events) /\ pc \in [Threads -> {"idle", "check", "claim", "move", "publish"}]
  BY DEF RingInv, RingTypeOK
<1>2. head \in Window
  BY ClaimedIsReadable
<1>3. head' = head + 1 /\ pos[t] = head /\ log' = log /\ pos' = pos /\ item' = item
      /\ pc[t] = "claim" /\ pc' = [pc EXCEPT ![t] = "move"]
  BY DEF PopClaim, Goto
<1>4. head + 1 \in 1 .. Len(log) /\ Len(log) \in head + 1 .. Len(log)
  BY <1>1, <1>2
<1>5. Head(Waiting) = log[head + 1] /\ Tail(Waiting) = SubSeq(log, head + 1 + 1, Len(log))
  BY <1>1, <1>4, HeadTailOfSubSeq DEF Waiting
<1>6. Waiting # <<>>
  <2>1. \A i \in head + 1 .. Len(log) : log[i] \in Events
    BY <1>1
  <2>2. Len(Waiting) = IF head + 1 <= tail THEN tail - head ELSE 0
    BY <1>1, <2>1, SubSeqProperties DEF Waiting
  <2>3. Len(Waiting) # 0
    BY <1>1, <1>4, <2>2
  <2> QED
    BY <2>3
<1>7. Waiting' = Tail(Waiting)
  BY <1>3, <1>5 DEF Waiting
<1>8. Held(t) = NoEvent
  BY <1>3 DEF RingInv, ConsumerOK, Held
<1>9. Held(t)' = Head(Waiting)
  BY <1>1, <1>3, <1>5 DEF Held, Threads
<1>10. \A u \in Consumers : u # t => Held(u)' = Held(u)
  BY <1>1, <1>3 DEF Held, Threads
<1>11. HeldBy' = [HeldBy EXCEPT ![t] = Head(Waiting)]
  BY <1>9, <1>10 DEF HeldBy
<1> QED
  BY <1>6, <1>7, <1>8, <1>11 DEF HeldBy

LEMMA PublishReturns ==
    ASSUME RingInv, NEW t \in Consumers, PopPublish(t)
    PROVE  /\ HeldBy[t] # NoEvent
           /\ HeldBy' = [HeldBy EXCEPT ![t] = NoEvent]
           /\ UNCHANGED Waiting
<1> USE RingParts, ThreadsAssumption
<1>1. RingTypeOK /\ Len(log) = tail
  BY DEF RingInv
<1>2. /\ pc[t] = "publish" /\ pc' = [pc EXCEPT ![t] = "idle"]
      /\ item' = [item EXCEPT ![t] = NoEvent] /\ pos' = [pos EXCEPT ![t] = @ + 1]
      /\ UNCHANGED <<head, log>>
  BY DEF PopPublish, Goto
<1>3. Held(t) # NoEvent
  <2>1. item[t] = log[pos[t] + 1] /\ pos[t] \in Window
    BY <1>2 DEF RingInv, ConsumerOK, Owns
  <2>2. pos[t] + 1 \in 1 .. Len(log)
    BY <1>1, <2>1 DEF Threads
  <2>3. log[pos[t] + 1] \in Events
    BY <1>1, <2>2 DEF RingTypeOK
  <2> QED
    BY <1>2, <2>1, <2>3 DEF Held
<1>4. Held(t)' = NoEvent
  BY <1>1, <1>2 DEF Held, RingTypeOK, Threads
<1>5. \A u \in Consumers : u # t => Held(u)' = Held(u)
  BY <1>1, <1>2 DEF Held, RingTypeOK, Threads
<1>6. HeldBy' = [HeldBy EXCEPT ![t] = NoEvent]
  BY <1>4, <1>5 DEF HeldBy
<1> QED
  BY <1>2, <1>3, <1>6 DEF HeldBy, Waiting

\* All other steps change nothing that BoundedFifo sees.
LEMMA OthersStutter ==
    ASSUME RingInv,
           \/ \E t \in Producers : TryPush(t) /\ ~ PushClaim(t)
           \/ \E t \in Consumers : TryPop(t) /\ ~ PopClaim(t) /\ ~ PopPublish(t)
    PROVE  UNCHANGED <<Waiting, HeldBy>>
<1> USE RingParts, ThreadsAssumption
<1>1. RingTypeOK
  BY DEF RingInv
<1>2. UNCHANGED <<head, log>>
  BY DEF TryPush, PushCall, PushFree, PushFull, PushBehind, PushRetry, PushMove, PushPublish,
         TryPop, PopCall, PopReady, PopEmpty, PopBehind, PopRetry, PopMove
<1>3. ASSUME NEW t \in Producers, TryPush(t), ~ PushClaim(t), NEW u \in Consumers
      PROVE  Held(u)' = Held(u)
  <2>1. t # u /\ t \in Threads /\ u \in Threads
    BY DEF Threads
  <2>2. pc'[u] = pc[u] /\ item'[u] = item[u] /\ pos'[u] = pos[u]
    BY <1>1, <1>3, <2>1, ReloadFacts
    DEF TryPush, PushCall, PushFree, PushFull, PushBehind, PushRetry, PushMove, PushPublish,
        Goto, RingTypeOK
  <2> QED
    BY <1>2, <2>2 DEF Held
<1>4. ASSUME NEW t \in Consumers, TryPop(t), ~ PopClaim(t), ~ PopPublish(t), NEW u \in Consumers
      PROVE  Held(u)' = Held(u)
  <2>1. t \in Threads /\ u \in Threads
    BY DEF Threads
  <2>2. CASE u # t
    <3>1. pc'[u] = pc[u] /\ item'[u] = item[u] /\ pos'[u] = pos[u]
      BY <1>1, <1>4, <2>1, <2>2, ReloadFacts
      DEF TryPop, PopCall, PopReady, PopEmpty, PopBehind, PopRetry, PopMove, Goto, RingTypeOK
    <3> QED
      BY <1>2, <3>1 DEF Held
  <2>3. CASE u = t /\ PopMove(t)
    <3>1. item'[t] = log[pos[t] + 1]
      BY <1>1, <2>1, <2>3, PopMoveKeeps, TypesKept DEF PopMove, RingTypeOK, RingNext, TryPop
    <3> QED
      BY <1>1, <1>2, <2>1, <2>3, <3>1 DEF Held, PopMove, Goto, RingTypeOK
  <2>4. CASE u = t /\ ~ PopMove(t)
    <3>1. item' = item /\ pc[t] # "move" /\ pc'[t] # "move"
      BY <1>1, <1>4, <2>1, <2>4
      DEF TryPop, PopCall, PopReady, PopEmpty, PopBehind, PopRetry, Goto, RingTypeOK
    <3> QED
      BY <2>4, <3>1 DEF Held
  <2> QED
    BY <2>2, <2>3, <2>4
<1>5. \A u \in Consumers : Held(u)' = Held(u)
  BY <1>3, <1>4
<1> QED
  BY <1>2, <1>5 DEF Waiting, HeldBy

\* Every event that try_push accepts is handed to exactly one caller of try_pop,
\* unchanged and in the order of acceptance, and at most Capacity of them wait.
THEOREM RingImplementsFifo == RingSpec => ImplementsFifo
<1>1. RingInit => Fifo!Init
  <2> SUFFICES ASSUME RingInit PROVE Fifo!Init
    OBVIOUS
  <2>1. Waiting = <<>>
    BY SubSeqEmpty DEF Waiting, RingInit
  <2>2. HeldBy = [t \in Consumers |-> NoEvent]
    BY DEF HeldBy, Held, RingInit, Threads
  <2> QED
    BY <2>1, <2>2 DEF Fifo!Init, Waiting, HeldBy, Held
<1>2. RingInv /\ [RingNext]_ringVars => [Fifo!Next]_(Fifo!vars)
  <2> SUFFICES ASSUME RingInv, [RingNext]_ringVars
               PROVE  [Fifo!Next]_(Fifo!vars)
    OBVIOUS
  <2>1. ASSUME NEW t \in Producers, PushClaim(t)
        PROVE  Fifo!Next
    <3>1. /\ item[t] \in Events
          /\ Len(Waiting) < Capacity
          /\ Waiting' = Append(Waiting, item[t])
          /\ UNCHANGED HeldBy
      BY <2>1, ClaimPuts
    <3>2. Fifo!Put(item[t])
      BY <3>1 DEF Fifo!Put, Waiting, HeldBy, Held
    <3> QED
      BY <3>1, <3>2 DEF Fifo!Next
  <2>2. ASSUME NEW t \in Consumers, PopClaim(t)
        PROVE  Fifo!Next
    <3>1. /\ Waiting # <<>>
          /\ Waiting' = Tail(Waiting)
          /\ HeldBy[t] = NoEvent
          /\ HeldBy' = [HeldBy EXCEPT ![t] = Head(Waiting)]
      BY <2>2, ClaimTakes
    <3>2. Fifo!Take(t)
      BY <3>1 DEF Fifo!Take, Waiting, HeldBy, Held
    <3> QED
      BY <3>2 DEF Fifo!Next
  <2>3. ASSUME NEW t \in Consumers, PopPublish(t)
        PROVE  Fifo!Next
    <3>1. /\ HeldBy[t] # NoEvent
          /\ HeldBy' = [HeldBy EXCEPT ![t] = NoEvent]
          /\ UNCHANGED Waiting
      BY <2>3, PublishReturns
    <3>2. Fifo!Return(t)
      BY <3>1 DEF Fifo!Return, Waiting, HeldBy, Held
    <3> QED
      BY <3>2 DEF Fifo!Next
  <2>4. CASE UNCHANGED <<Waiting, HeldBy>>
    BY <2>4 DEF Fifo!vars, Waiting, HeldBy, Held
  <2>5. CASE UNCHANGED ringVars
    BY <2>4, <2>5 DEF ringVars, Waiting, HeldBy, Held
  <2> QED
    BY <2>1, <2>2, <2>3, <2>4, <2>5, OthersStutter DEF RingNext
<1> QED
  BY <1>1, <1>2, RingIsConsistent, PTL DEF RingSpec, ImplementsFifo, Fifo!Spec
=============================================================================
