---------------------------- MODULE SumTheorems ----------------------------
(***************************************************************************)
(* Induction in the form of sets, and what it gives for sums: the sum of   *)
(* the values f[x] over a finite set, SumFunctionOnSet of the community    *)
(* modules, does not depend on the order in which it is taken.             *)
(***************************************************************************)
EXTENDS Integers, FiniteSets, Functions, FiniteSetTheorems, TLAPS

-----------------------------------------------------------------------------
(* Induction                                                               *)

\* A set that holds every subset of S all of whose strict subsets it holds, holds S.
LEMMA SubsetInduction ==
    ASSUME NEW S, IsFiniteSet(S), NEW Good,
           \A T \in SUBSET S : (\A U \in SUBSET T : U # T => U \in Good) => T \in Good
    PROVE  S \in Good
<1> DEFINE Bad == { T \in SUBSET S : T \notin Good }
           R == StrictSubsetOrdering(S)
           P == SUBSET S
<1>1. SUFFICES ASSUME S \notin Good PROVE FALSE
  OBVIOUS
<1>2. IsWellFoundedOn(R, P)
  <2>1. FiniteSubsetsOf(S) = SUBSET S
    BY FS_FiniteSubsetsOfFinite
  <2> QED
    BY <2>1, FS_StrictSubsetOrderingWellFounded, Zenon
<1>3. Bad \subseteq P /\ Bad # {}
  BY <1>1
<1>4. PICK T \in Bad : \A U \in Bad : ~ (<<U, T>> \in R)
  <2> HIDE DEF Bad, R, P
  <2> QED
    BY <1>2, <1>3, WFMin
<1>5. \A U \in SUBSET T : U # T => U \in Good
  BY <1>4 DEF StrictSubsetOrdering
<1> QED
  BY <1>4, <1>5

\* The same, one element at a time.
LEMMA ElementInduction ==
    ASSUME NEW S, IsFiniteSet(S), NEW Good, {} \in Good,
           \A T \in SUBSET S : \A x \in S \ T : T \in Good => T \cup {x} \in Good
    PROVE  S \in Good
<1>1. ASSUME NEW T \in SUBSET S, \A U \in SUBSET T : U # T => U \in Good
      PROVE  T \in Good
  <2>1. CASE T = {}
    BY <2>1
  <2>2. CASE T # {}
    <3>1. PICK x \in T : TRUE
      BY <2>2
    <3>2. T \ {x} \in Good
      BY <1>1, <3>1
    <3>3. (T \ {x}) \cup {x} = T /\ T \ {x} \in SUBSET S /\ x \in S \ (T \ {x})
      BY <3>1
    <3> QED
      BY <3>2, <3>3
  <2> QED
    BY <2>1, <2>2
<1> QED
  BY <1>1, SubsetInduction

\* Induction on the natural numbers, for a set of them.
LEMMA NatSetInduction ==
    ASSUME NEW Good, 0 \in Good, \A n \in Nat : n \in Good => n + 1 \in Good
    PROVE  Nat \subseteq Good
<1> DEFINE Bad == { n \in Nat : n \notin Good }
           R == OpToRel(<, Nat)
<1>1. SUFFICES ASSUME Bad # {} PROVE FALSE
  OBVIOUS
<1>2. Bad \subseteq Nat
  OBVIOUS
<1>3. PICK n \in Bad : \A m \in Bad : ~ (<<m, n>> \in R)
  <2> HIDE DEF Bad
  <2> QED
    BY <1>1, <1>2, WFMin, NatLessThanWellFounded
<1>4. \A m \in Nat : m < n => m \in Good
  <2> SUFFICES ASSUME NEW m \in Nat, m < n, m \notin Good PROVE FALSE
    OBVIOUS
  <2>1. <<m, n>> \in R
    BY DEF OpToRel
  <2> QED
    BY <1>3, <2>1
<1>5. n \in Nat /\ n \notin Good
  OBVIOUS
<1> HIDE DEF R, Bad
<1>6. n # 0 /\ n - 1 \in Nat /\ n - 1 < n /\ (n - 1) + 1 = n
  BY <1>5
<1> QED
  BY <1>4, <1>5, <1>6

-----------------------------------------------------------------------------
(* The recursion of the library's fold                                     *)

ChosenOf(U) == CHOOSE x \in U : TRUE
SumRound(f, g, U) == IF U = {} THEN 0 ELSE f[ChosenOf(U)] + g[U \ {ChosenOf(U)}]
IsSum(f, g, S) == g = [U \in SUBSET S |-> SumRound(f, g, U)]

\* Two functions that satisfy the recursion agree where both are defined.
LEMMA SumUnique ==
    ASSUME NEW f, NEW S, NEW T, NEW g, NEW h, IsSum(f, g, S), IsSum(f, h, T),
           NEW V, IsFiniteSet(V), V \subseteq S, V \subseteq T
    PROVE  g[V] = h[V]
<1> DEFINE Good == { U \in SUBSET V : g[U] = h[U] }
<1>1. ASSUME NEW U \in SUBSET V, \A W \in SUBSET U : W # U => W \in Good
      PROVE  U \in Good
  <2>1. g[U] = SumRound(f, g, U) /\ h[U] = SumRound(f, h, U)
    BY DEF IsSum
  <2>2. CASE U = {}
    BY <2>1, <2>2 DEF SumRound
  <2>3. CASE U # {}
    <3>1. ChosenOf(U) \in U
      BY <2>3 DEF ChosenOf
    <3>2. U \ {ChosenOf(U)} \in Good
      BY <1>1, <3>1
    <3> QED
      BY <2>1, <2>3, <3>2 DEF SumRound
  <2> QED
    BY <2>2, <2>3
<1>2. V \in Good
  <2> HIDE DEF Good
  <2> QED
    BY <1>1, SubsetInduction
<1> QED
  BY <1>2

LEMMA SumExists ==
    ASSUME NEW f, NEW S, IsFiniteSet(S)
    PROVE  \E g : IsSum(f, g, S)
<1> DEFINE Good == { T \in SUBSET S : \E g : IsSum(f, g, T) }
           Of(T) == CHOOSE g : IsSum(f, g, T)
<1>1. ASSUME NEW T \in SUBSET S, \A U \in SUBSET T : U # T => U \in Good
      PROVE  T \in Good
  <2> DEFINE x == ChosenOf(T)
             g == [U \in SUBSET T |->
                      IF U # T THEN Of(U)[U]
                      ELSE IF T = {} THEN 0 ELSE f[x] + Of(T \ {x})[T \ {x}]]
  <2>1. \A U \in SUBSET T : U # T => IsSum(f, Of(U), U)
    BY <1>1
  <2>2. ASSUME NEW U \in SUBSET T
        PROVE  g[U] = SumRound(f, g, U)
    <3>1. CASE U = {} /\ U = T
      BY <3>1 DEF SumRound
    <3>2. CASE U = {} /\ U # T
      <4>1. Of(U)[U] = SumRound(f, Of(U), U)
        <5>1. IsSum(f, Of(U), U)
          BY <2>1, <3>2
        <5> HIDE DEF Of
        <5> QED
          BY <5>1 DEF IsSum
      <4> QED
        BY <3>2, <4>1 DEF SumRound
    <3>3. CASE U # {}
      <4> DEFINE c == ChosenOf(U)
      <4>1. c \in U /\ U \ {c} \in SUBSET U /\ U \ {c} # U /\ U \ {c} # T
        BY <3>3 DEF ChosenOf
      <4>2. g[U \ {c}] = Of(U \ {c})[U \ {c}]
        BY <4>1
      <4>3. CASE U = T
        BY <3>3, <4>2, <4>3 DEF SumRound
      <4>4. CASE U # T
        <5>1. Of(U)[U] = f[c] + Of(U)[U \ {c}]
          <6>1. IsSum(f, Of(U), U)
            BY <2>1, <4>4
          <6> HIDE DEF Of
          <6>2. Of(U)[U] = SumRound(f, Of(U), U)
            BY <6>1 DEF IsSum
          <6> QED
            BY <3>3, <6>2 DEF SumRound
        <5>2. Of(U)[U \ {c}] = Of(U \ {c})[U \ {c}]
          <6>1. IsFiniteSet(U \ {c})
            BY FS_Subset, <4>1
          <6>2. IsSum(f, Of(U), U) /\ IsSum(f, Of(U \ {c}), U \ {c})
            BY <2>1, <4>1, <4>4
          <6> HIDE DEF Of, c
          <6> QED
            BY <4>1, <6>1, <6>2, SumUnique
        <5>3. g[U] = Of(U)[U]
          BY <4>4
        <5> HIDE DEF g, Of
        <5> QED
          BY <3>3, <4>2, <5>1, <5>2, <5>3 DEF SumRound
      <4> QED
        BY <4>3, <4>4
    <3> QED
      BY <3>1, <3>2, <3>3
  <2>3. g = [U \in SUBSET T |-> g[U]]
    OBVIOUS
  <2> HIDE DEF g
  <2>4. IsSum(f, g, T)
    BY <2>2, <2>3 DEF IsSum
  <2> QED
    BY <2>4
<1>2. S \in Good
  <2> HIDE DEF Good
  <2> QED
    BY <1>1, SubsetInduction
<1> QED
  BY <1>2

\* SumFunctionOnSet is a fold over the set; this is its recursion.
LEMMA SumRecursion ==
    ASSUME NEW f, NEW S, IsFiniteSet(S)
    PROVE  /\ SumFunctionOnSet(f, {}) = 0
           /\ S # {} => \E x \in S :
                 SumFunctionOnSet(f, S) = f[x] + SumFunctionOnSet(f, S \ {x})
<1> DEFINE Of(T) == CHOOSE g : g = [U \in SUBSET T |-> SumRound(f, g, U)]
<1>1. \A T : SumFunctionOnSet(f, T) = Of(T)[T]
  BY DEF SumFunctionOnSet, FoldFunctionOnSet, MapThenFoldSet, SumRound, ChosenOf
<1>2. ASSUME NEW T, IsFiniteSet(T)
      PROVE  IsSum(f, Of(T), T)
  <2>1. \E g : g = [U \in SUBSET T |-> SumRound(f, g, U)]
    BY <1>2, SumExists DEF IsSum
  <2> QED
    BY <2>1 DEF IsSum
<1> HIDE DEF Of
<1>3. ASSUME NEW T, IsFiniteSet(T)
      PROVE  SumFunctionOnSet(f, T) = SumRound(f, Of(T), T)
  BY <1>1, <1>2, <1>3 DEF IsSum
<1>4. SumFunctionOnSet(f, {}) = 0
  BY <1>3, FS_EmptySet DEF SumRound
<1>5. ASSUME S # {}
      PROVE  \E x \in S : SumFunctionOnSet(f, S) = f[x] + SumFunctionOnSet(f, S \ {x})
  <2> DEFINE x == ChosenOf(S)
  <2>1. x \in S
    BY <1>5 DEF ChosenOf
  <2>2. SumFunctionOnSet(f, S) = f[x] + Of(S)[S \ {x}]
    BY <1>3, <1>5 DEF SumRound
  <2>3. Of(S)[S \ {x}] = Of(S \ {x})[S \ {x}]
    <3>1. IsFiniteSet(S \ {x})
      BY FS_Subset
    <3>2. IsSum(f, Of(S), S) /\ IsSum(f, Of(S \ {x}), S \ {x})
      BY <1>2, <3>1
    <3> HIDE DEF x
    <3> QED
      BY <3>1, <3>2, SumUnique
  <2>4. Of(S)[S \ {x}] = SumFunctionOnSet(f, S \ {x})
    BY <1>1, <2>3
  <2> QED
    BY <2>1, <2>2, <2>4
<1> QED
  BY <1>4, <1>5

-----------------------------------------------------------------------------
(* Sums of integers                                                        *)

LEMMA SumEmpty == \A f : SumFunctionOnSet(f, {}) = 0
  BY SumRecursion, FS_EmptySet

LEMMA SumType ==
    ASSUME NEW S, IsFiniteSet(S), NEW f, \A x \in S : f[x] \in Int
    PROVE  SumFunctionOnSet(f, S) \in Int
<1> DEFINE Good == { T \in SUBSET S : SumFunctionOnSet(f, T) \in Int }
<1>1. ASSUME NEW T \in SUBSET S, \A U \in SUBSET T : U # T => U \in Good
      PROVE  T \in Good
  <2>1. CASE T = {}
    BY <2>1, SumEmpty
  <2>2. CASE T # {}
    <3>1. PICK x \in T : SumFunctionOnSet(f, T) = f[x] + SumFunctionOnSet(f, T \ {x})
      BY <2>2, FS_Subset, SumRecursion
    <3>2. T \ {x} \in Good
      BY <1>1, <3>1
    <3> QED
      BY <3>1, <3>2
  <2> QED
    BY <2>1, <2>2
<1>2. S \in Good
  <2> HIDE DEF Good
  <2> QED
    BY <1>1, SubsetInduction
<1> QED
  BY <1>2

\* Any element may be taken out first.
LEMMA SumRemove ==
    ASSUME NEW S, IsFiniteSet(S), NEW f, \A x \in S : f[x] \in Int, NEW y \in S
    PROVE  SumFunctionOnSet(f, S) = f[y] + SumFunctionOnSet(f, S \ {y})
<1> DEFINE Sum(T) == SumFunctionOnSet(f, T)
           Good == { T \in SUBSET S : \A a \in T : Sum(T) = f[a] + Sum(T \ {a}) }
<1>1. \A T \in SUBSET S : IsFiniteSet(T) /\ Sum(T) \in Int
  BY FS_Subset, SumType
<1>2. \A T \in SUBSET S : T # {} => \E x \in T : Sum(T) = f[x] + Sum(T \ {x})
  BY <1>1, SumRecursion
<1> HIDE DEF Sum
<1>3. ASSUME NEW T \in SUBSET S, \A U \in SUBSET T : U # T => U \in Good, NEW a \in T
      PROVE  Sum(T) = f[a] + Sum(T \ {a})
  <2>1. PICK x \in T : Sum(T) = f[x] + Sum(T \ {x})
    BY <1>2
  <2>2. CASE a = x
    BY <2>1, <2>2
  <2>3. CASE a # x
    <3>1. T \ {x} \in Good /\ T \ {a} \in Good /\ a \in T \ {x} /\ x \in T \ {a}
      BY <1>3, <2>1, <2>3
    <3>2. /\ Sum(T \ {x}) = f[a] + Sum((T \ {x}) \ {a})
          /\ Sum(T \ {a}) = f[x] + Sum((T \ {a}) \ {x})
      BY <3>1
    <3>3. Sum((T \ {x}) \ {a}) = Sum((T \ {a}) \ {x})
      <4>1. (T \ {x}) \ {a} = (T \ {a}) \ {x}
        OBVIOUS
      <4> QED
        BY <4>1, Zenon
    <3>4. f[a] \in Int /\ f[x] \in Int /\ Sum((T \ {x}) \ {a}) \in Int
      BY <1>1
    <3> HIDE DEF Good
    <3> QED
      BY <2>1, <3>2, <3>3, <3>4
  <2> QED
    BY <2>2, <2>3
<1>4. S \in Good
  <2>1. \A T \in SUBSET S : (\A U \in SUBSET T : U # T => U \in Good) => T \in Good
    BY <1>3
  <2> HIDE DEF Good
  <2> QED
    BY <2>1, SubsetInduction
<1> QED
  BY <1>4 DEF Sum

LEMMA SumAdd ==
    ASSUME NEW S, IsFiniteSet(S), NEW y, y \notin S,
           NEW f, \A x \in S \cup {y} : f[x] \in Int
    PROVE  SumFunctionOnSet(f, S \cup {y}) = f[y] + SumFunctionOnSet(f, S)
<1> DEFINE T == S \cup {y}
<1>1. IsFiniteSet(T) /\ y \in T /\ T \ {y} = S
  BY FS_AddElement
<1>2. \A x \in T : f[x] \in Int
  OBVIOUS
<1> HIDE DEF T
<1>3. SumFunctionOnSet(f, T) = f[y] + SumFunctionOnSet(f, T \ {y})
  BY <1>1, <1>2, SumRemove
<1> QED
  BY <1>1, <1>3 DEF T

\* Only the values on the set matter.
LEMMA SumEqual ==
    ASSUME NEW S, IsFiniteSet(S), NEW f, \A x \in S : f[x] \in Int,
           NEW g, \A x \in S : g[x] = f[x]
    PROVE  SumFunctionOnSet(g, S) = SumFunctionOnSet(f, S)
<1> DEFINE Good == { T \in SUBSET S : SumFunctionOnSet(g, T) = SumFunctionOnSet(f, T) }
<1>1. {} \in Good
  BY SumEmpty
<1>2. ASSUME NEW T \in SUBSET S, NEW x \in S \ T, T \in Good
      PROVE  T \cup {x} \in Good
  <2>1. IsFiniteSet(T) /\ x \notin T
    BY FS_Subset
  <2>2. /\ SumFunctionOnSet(f, T \cup {x}) = f[x] + SumFunctionOnSet(f, T)
        /\ SumFunctionOnSet(g, T \cup {x}) = g[x] + SumFunctionOnSet(g, T)
    BY <2>1, SumAdd
  <2> QED
    BY <1>2, <2>2
<1>3. S \in Good
  <2> HIDE DEF Good
  <2> QED
    BY <1>1, <1>2, ElementInduction
<1> QED
  BY <1>3

\* Changing one value changes the sum by as much.
LEMMA SumUpdate ==
    ASSUME NEW S, IsFiniteSet(S), NEW f, \A x \in S : f[x] \in Int,
           NEW g, NEW y \in S, g[y] \in Int, \A x \in S : x # y => g[x] = f[x]
    PROVE  SumFunctionOnSet(g, S) = SumFunctionOnSet(f, S) - f[y] + g[y]
<1> DEFINE T == S \ {y}
<1>1. IsFiniteSet(T) /\ T \subseteq S
  BY FS_Subset
<1>2. /\ SumFunctionOnSet(f, S) = f[y] + SumFunctionOnSet(f, T)
      /\ SumFunctionOnSet(g, S) = g[y] + SumFunctionOnSet(g, T)
  <2>1. \A x \in S : g[x] \in Int
    OBVIOUS
  <2> QED
    BY <2>1, SumRemove
<1>3. SumFunctionOnSet(g, T) = SumFunctionOnSet(f, T)
  <2>1. \A x \in T : f[x] \in Int /\ g[x] = f[x]
    OBVIOUS
  <2> HIDE DEF T
  <2> QED
    BY <1>1, <2>1, SumEqual
<1>4. SumFunctionOnSet(f, T) \in Int /\ f[y] \in Int
  BY <1>1, SumType
<1> HIDE DEF T
<1> QED
  BY <1>2, <1>3, <1>4

LEMMA SumZero ==
    ASSUME NEW S, IsFiniteSet(S), NEW f, \A x \in S : f[x] = 0
    PROVE  SumFunctionOnSet(f, S) = 0
<1> DEFINE Good == { T \in SUBSET S : SumFunctionOnSet(f, T) = 0 }
<1>1. {} \in Good
  BY SumEmpty
<1>2. ASSUME NEW T \in SUBSET S, NEW x \in S \ T, T \in Good
      PROVE  T \cup {x} \in Good
  <2>1. IsFiniteSet(T) /\ x \notin T
    BY FS_Subset
  <2>2. SumFunctionOnSet(f, T \cup {x}) = f[x] + SumFunctionOnSet(f, T)
    <3>1. \A z \in T \cup {x} : f[z] \in Int
      OBVIOUS
    <3> QED
      BY <2>1, <3>1, SumAdd
  <2> QED
    BY <1>2, <2>2
<1>3. S \in Good
  <2> HIDE DEF Good
  <2> QED
    BY <1>1, <1>2, ElementInduction
<1> QED
  BY <1>3

LEMMA SumNat ==
    ASSUME NEW S, IsFiniteSet(S), NEW f, \A x \in S : f[x] \in Nat
    PROVE  SumFunctionOnSet(f, S) \in Nat
<1> DEFINE Good == { T \in SUBSET S : SumFunctionOnSet(f, T) \in Nat }
<1>1. {} \in Good
  BY SumEmpty
<1>2. ASSUME NEW T \in SUBSET S, NEW x \in S \ T, T \in Good
      PROVE  T \cup {x} \in Good
  <2>1. IsFiniteSet(T) /\ x \notin T
    BY FS_Subset
  <2>2. SumFunctionOnSet(f, T \cup {x}) = f[x] + SumFunctionOnSet(f, T)
    <3>1. \A z \in T \cup {x} : f[z] \in Int
      OBVIOUS
    <3> QED
      BY <2>1, <3>1, SumAdd
  <2> QED
    BY <1>2, <2>2
<1>3. S \in Good
  <2> HIDE DEF Good
  <2> QED
    BY <1>1, <1>2, ElementInduction
<1> QED
  BY <1>3

\* A sum over two sets that share nothing.
LEMMA SumDisjoint ==
    ASSUME NEW S, IsFiniteSet(S), NEW T, IsFiniteSet(T), S \cap T = {},
           NEW f, \A x \in S \cup T : f[x] \in Int
    PROVE  SumFunctionOnSet(f, S \cup T) = SumFunctionOnSet(f, S) + SumFunctionOnSet(f, T)
<1> DEFINE Good == { U \in SUBSET T : SumFunctionOnSet(f, S \cup U)
                                    = SumFunctionOnSet(f, S) + SumFunctionOnSet(f, U) }
<1>1. {} \in Good
  <2>1. S \cup {} = S /\ SumFunctionOnSet(f, S) \in Int
    BY SumType
  <2>2. SumFunctionOnSet(f, S \cup {}) = SumFunctionOnSet(f, S)
    BY <2>1, Zenon
  <2> QED
    BY <2>1, <2>2, SumEmpty
<1>2. ASSUME NEW U \in SUBSET T, NEW x \in T \ U, U \in Good
      PROVE  U \cup {x} \in Good
  <2>1. /\ IsFiniteSet(U) /\ x \notin U
        /\ IsFiniteSet(S \cup U) /\ x \notin S \cup U
    BY FS_Subset, FS_Union
  <2>2. /\ SumFunctionOnSet(f, U \cup {x}) = f[x] + SumFunctionOnSet(f, U)
        /\ SumFunctionOnSet(f, (S \cup U) \cup {x}) = f[x] + SumFunctionOnSet(f, S \cup U)
    <3>1. /\ \A z \in U \cup {x} : f[z] \in Int
          /\ \A z \in (S \cup U) \cup {x} : f[z] \in Int
      OBVIOUS
    <3> QED
      BY <2>1, <3>1, SumAdd
  <2>3. SumFunctionOnSet(f, (S \cup U) \cup {x}) = SumFunctionOnSet(f, S \cup (U \cup {x}))
    <3>1. (S \cup U) \cup {x} = S \cup (U \cup {x})
      OBVIOUS
    <3> QED
      BY <3>1, Zenon
  <2>4. f[x] \in Int /\ SumFunctionOnSet(f, S) \in Int /\ SumFunctionOnSet(f, U) \in Int
    BY <2>1, SumType
  <2> QED
    BY <1>2, <2>2, <2>3, <2>4
<1>3. T \in Good
  <2> HIDE DEF Good
  <2> QED
    BY <1>1, <1>2, ElementInduction
<1> QED
  BY <1>3

\* A sum of natural numbers is no smaller than any part of it.
LEMMA SumPart ==
    ASSUME NEW S, IsFiniteSet(S), NEW f, \A x \in S : f[x] \in Nat, NEW T \in SUBSET S
    PROVE  SumFunctionOnSet(f, T) <= SumFunctionOnSet(f, S)
<1> DEFINE R == S \ T
<1>1. IsFiniteSet(T) /\ IsFiniteSet(R) /\ T \cap R = {} /\ T \cup R = S
  BY FS_Subset
<1>2. (\A x \in T : f[x] \in Nat) /\ (\A x \in R : f[x] \in Nat) /\ \A x \in T \cup R : f[x] \in Int
  OBVIOUS
<1> HIDE DEF R
<1>3. SumFunctionOnSet(f, T \cup R) = SumFunctionOnSet(f, T) + SumFunctionOnSet(f, R)
  BY <1>1, <1>2, SumDisjoint
<1>4. SumFunctionOnSet(f, T) \in Nat /\ SumFunctionOnSet(f, R) \in Nat
  BY <1>1, <1>2, SumNat
<1>5. SumFunctionOnSet(f, S) = SumFunctionOnSet(f, T \cup R)
  BY <1>1, Zenon
<1> QED
  BY <1>3, <1>4, <1>5

\* What is added value by value is added to the sum.
LEMMA SumPlus ==
    ASSUME NEW S, IsFiniteSet(S), NEW f, \A x \in S : f[x] \in Int,
           NEW g, \A x \in S : g[x] \in Int,
           NEW h, \A x \in S : h[x] = f[x] + g[x]
    PROVE  SumFunctionOnSet(h, S) = SumFunctionOnSet(f, S) + SumFunctionOnSet(g, S)
<1> DEFINE Good == { T \in SUBSET S : SumFunctionOnSet(h, T)
                                    = SumFunctionOnSet(f, T) + SumFunctionOnSet(g, T) }
<1>1. {} \in Good
  BY SumEmpty
<1>2. ASSUME NEW T \in SUBSET S, NEW x \in S \ T, T \in Good
      PROVE  T \cup {x} \in Good
  <2>1. IsFiniteSet(T) /\ x \notin T
    BY FS_Subset
  <2>2. /\ SumFunctionOnSet(f, T \cup {x}) = f[x] + SumFunctionOnSet(f, T)
        /\ SumFunctionOnSet(g, T \cup {x}) = g[x] + SumFunctionOnSet(g, T)
        /\ SumFunctionOnSet(h, T \cup {x}) = h[x] + SumFunctionOnSet(h, T)
    <3>1. \A z \in S : h[z] \in Int
      OBVIOUS
    <3> QED
      BY <2>1, <3>1, SumAdd
  <2>3. /\ SumFunctionOnSet(f, T) \in Int /\ SumFunctionOnSet(g, T) \in Int
        /\ f[x] \in Int /\ g[x] \in Int /\ h[x] = f[x] + g[x]
    BY <2>1, SumType
  <2> QED
    BY <1>2, <2>2, <2>3
<1>3. S \in Good
  <2> HIDE DEF Good
  <2> QED
    BY <1>1, <1>2, ElementInduction
<1> QED
  BY <1>3

\* A sum of sums: each g[p] is the sum over a part F[p], and the parts share nothing.
LEMMA SumOfParts ==
    ASSUME NEW P, IsFiniteSet(P), NEW F, \A p \in P : IsFiniteSet(F[p]),
           \A p, q \in P : p # q => F[p] \cap F[q] = {},
           NEW f, \A p \in P : \A x \in F[p] : f[x] \in Int,
           NEW g, \A p \in P : g[p] = SumFunctionOnSet(f, F[p]),
           NEW U, \A x : x \in U <=> \E p \in P : x \in F[p]
    PROVE  IsFiniteSet(U) /\ SumFunctionOnSet(g, P) = SumFunctionOnSet(f, U)
<1> DEFINE All(Q) == UNION { F[p] : p \in Q }
           Good == { Q \in SUBSET P : /\ IsFiniteSet(All(Q))
                                      /\ SumFunctionOnSet(g, Q) = SumFunctionOnSet(f, All(Q)) }
<1>1. {} \in Good
  <2>1. All({}) = {}
    OBVIOUS
  <2>2. SumFunctionOnSet(f, All({})) = 0 /\ IsFiniteSet(All({}))
    BY <2>1, SumEmpty, FS_EmptySet, Zenon
  <2> HIDE DEF All
  <2> QED
    BY <2>2, SumEmpty
<1>2. ASSUME NEW Q \in SUBSET P, NEW p \in P \ Q, Q \in Good
      PROVE  Q \cup {p} \in Good
  <2>1. All(Q \cup {p}) = All(Q) \cup F[p] /\ All(Q) \cap F[p] = {}
    OBVIOUS
  <2>2. \A q \in P : g[q] \in Int
    BY SumType
  <2>3. SumFunctionOnSet(g, Q \cup {p}) = g[p] + SumFunctionOnSet(g, Q)
    BY <2>2, FS_Subset, SumAdd
  <2>4. \A x \in All(Q) \cup F[p] : f[x] \in Int
    OBVIOUS
  <2>41. IsFiniteSet(All(Q)) /\ SumFunctionOnSet(g, Q) = SumFunctionOnSet(f, All(Q))
    BY <1>2
  <2> HIDE DEF All
  <2>5. SumFunctionOnSet(f, All(Q) \cup F[p]) = SumFunctionOnSet(f, All(Q)) + SumFunctionOnSet(f, F[p])
    BY <2>1, <2>4, <2>41, SumDisjoint
  <2>6. SumFunctionOnSet(f, All(Q)) \in Int
    BY <2>4, <2>41, SumType
  <2>7. /\ SumFunctionOnSet(f, All(Q \cup {p})) = SumFunctionOnSet(f, All(Q) \cup F[p])
        /\ IsFiniteSet(All(Q \cup {p}))
    <3>1. IsFiniteSet(All(Q) \cup F[p])
      BY <2>41, FS_Union
    <3> QED
      BY <2>1, <3>1, Zenon
  <2>8. SumFunctionOnSet(g, Q \cup {p}) = SumFunctionOnSet(f, All(Q \cup {p}))
    BY <2>2, <2>3, <2>41, <2>5, <2>6, <2>7
  <2> QED
    BY <2>7, <2>8
<1>3. P \in Good
  <2> HIDE DEF Good
  <2> QED
    BY <1>1, <1>2, ElementInduction
<1>4. All(P) = U
  OBVIOUS
<1>5. IsFiniteSet(All(P)) /\ SumFunctionOnSet(g, P) = SumFunctionOnSet(f, All(P))
  BY <1>3
<1> HIDE DEF All
<1> QED
  BY <1>4, <1>5, Zenon

LEMMA SumOne ==
    ASSUME NEW f, NEW y, f[y] \in Int
    PROVE  SumFunctionOnSet(f, {y}) = f[y]
<1>1. IsFiniteSet({}) /\ y \notin {} /\ \A x \in {} \cup {y} : f[x] \in Int
  BY FS_EmptySet
<1>2. SumFunctionOnSet(f, {} \cup {y}) = f[y] + SumFunctionOnSet(f, {})
  BY <1>1, SumAdd
<1>3. {} \cup {y} = {y}
  OBVIOUS
<1>4. f[y] + 0 = f[y]
  OBVIOUS
<1> QED
  BY <1>2, <1>3, <1>4, SumEmpty

\* The parts F[p] make up U, and g[p] is the sum of f over F[p].
Parts(F, P, f, g, U) ==
    /\ \A p \in P : IsFiniteSet(F[p])
    /\ \A p, q \in P : p # q => F[p] \cap F[q] = {}
    /\ \A p \in P : \A x \in F[p] : f[x] \in Int
    /\ \A p \in P : g[p] = SumFunctionOnSet(f, F[p])
    /\ \A x : x \in U <=> \E p \in P : x \in F[p]

LEMMA SumByParts ==
    ASSUME NEW P, IsFiniteSet(P), NEW F, NEW f, NEW g, NEW U, Parts(F, P, f, g, U)
    PROVE  IsFiniteSet(U) /\ SumFunctionOnSet(g, P) = SumFunctionOnSet(f, U)
  BY SumOfParts DEF Parts

\* g and f are the same on S but at y.
SameBut(g, f, S, y) ==
    /\ y \in S /\ g[y] \in Int
    /\ \A x \in S : f[x] \in Int /\ (x # y => g[x] = f[x])

LEMMA SumSameBut ==
    ASSUME NEW S, IsFiniteSet(S), NEW f, NEW g, NEW y, SameBut(g, f, S, y)
    PROVE  SumFunctionOnSet(g, S) = SumFunctionOnSet(f, S) - f[y] + g[y]
<1>1. /\ y \in S /\ g[y] \in Int
      /\ \A x \in S : f[x] \in Int
      /\ \A x \in S : x # y => g[x] = f[x]
  BY DEF SameBut
<1> QED
  BY <1>1, SumUpdate

\* h maps S one to one onto T, and takes the values of f on T to those of g on S.
Reindexed(h, S, g, T, f) ==
    /\ \A x \in S : h[x] \in T /\ g[x] = f[h[x]]
    /\ \A x, y \in S : h[x] = h[y] => x = y
    /\ \A z \in T : f[z] \in Int /\ \E x \in S : h[x] = z

LEMMA SumReindex ==
    ASSUME NEW S, IsFiniteSet(S), NEW T, NEW f, NEW g, NEW h, Reindexed(h, S, g, T, f)
    PROVE  SumFunctionOnSet(g, S) = SumFunctionOnSet(f, T)
<1> DEFINE F == [x \in S |-> {h[x]}]
<1>1. \A x \in S : F[x] = {h[x]}
  OBVIOUS
<1>2. ASSUME NEW x \in S
      PROVE  /\ IsFiniteSet(F[x])
             /\ \A z \in F[x] : f[z] \in Int
             /\ g[x] = SumFunctionOnSet(f, F[x])
  <2>1. F[x] = {h[x]} /\ f[h[x]] \in Int /\ g[x] = f[h[x]]
    BY <1>1 DEF Reindexed
  <2>2. SumFunctionOnSet(f, {h[x]}) = f[h[x]]
    BY <2>1, SumOne
  <2>3. IsFiniteSet({h[x]})
    BY FS_Singleton, Zenon
  <2> HIDE DEF F
  <2> QED
    BY <2>1, <2>2, <2>3
<1> HIDE DEF F
<1>3. \A x, y \in S : x # y => F[x] \cap F[y] = {}
  BY <1>1 DEF Reindexed
<1>4. \A z : z \in T <=> \E x \in S : z \in F[x]
  BY <1>1 DEF Reindexed
<1>5. Parts(F, S, f, g, T)
  BY <1>2, <1>3, <1>4 DEF Parts
<1> QED
  BY <1>5, SumByParts
=============================================================================
