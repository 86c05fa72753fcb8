------------------------------ MODULE SumLemmas ------------------------------
(***************************************************************************)
(* Sums over finite sets.  SumFunctionOnSet(f, S) picks the elements of S  *)
(* one by one, in an order nobody knows; these lemmas say that it is there *)
(* (the recursion ends), that the order does not matter, and how a sum     *)
(* changes with its set and with one value.  The conservation laws of      *)
(* EnhancementJobs and AccountCredits rest on them.                        *)
(*                                                                         *)
(* Each induction is over the finite subsets of a set, in the form "the    *)
(* subsets that break the claim have a smallest one".                      *)
(***************************************************************************)
EXTENDS Integers, FiniteSets, FiniteSetsExt, FiniteSetTheorems, TLAPS

Some(s) == CHOOSE x \in s : TRUE

(* The function that SumFunctionOnSet builds on the way to S. *)
IsPartialSum(g, f, S) ==
    g = [s \in SUBSET S |-> IF s = {} THEN 0 ELSE f[Some(s)] + g[s \ {Some(s)}]]

Summed(f, S) == CHOOSE g : IsPartialSum(g, f, S)

(* A set of subsets of a finite set has a smallest member. *)
LEMMA SmallestSubset ==
    ASSUME NEW S, IsFiniteSet(S), NEW Bad \in SUBSET (SUBSET S), Bad # {}
    PROVE  \E T \in Bad : \A U \in SUBSET T : U \in Bad => U = T
<1>1. IsWellFoundedOn(StrictSubsetOrdering(S), FiniteSubsetsOf(S))
  BY FS_StrictSubsetOrderingWellFounded
<1>2. Bad \subseteq FiniteSubsetsOf(S)
  BY FS_Subset DEF FiniteSubsetsOf
<1>3. PICK T \in Bad : \A U \in Bad : <<U, T>> \notin StrictSubsetOrdering(S)
  <2> DEFINE R == StrictSubsetOrdering(S)
             W == FiniteSubsetsOf(S)
  <2> HIDE DEF R, W
  <2>1. IsWellFoundedOn(R, W) /\ Bad \subseteq W
    BY <1>1, <1>2 DEF R, W
  <2>2. \E T \in Bad : \A U \in Bad : ~(<<U, T>> \in R)
    BY <2>1, WFMin, Zenon
  <2> QED BY <2>2 DEF R
<1>4. ASSUME NEW U \in SUBSET T, U \in Bad PROVE U = T
  BY <1>3, <1>4 DEF StrictSubsetOrdering
<1> QED BY <1>4

LEMMA SumIsSummed ==
    ASSUME NEW f, NEW S
    PROVE  SumFunctionOnSet(f, S) = Summed(f, S)[S]
BY DEF SumFunctionOnSet, FoldFunctionOnSet, MapThenFoldSet, Summed, IsPartialSum, Some

(* Removing the element the sum takes next leaves a smaller set. *)
LEMMA SomeIsIn == ASSUME NEW s, s # {} PROVE Some(s) \in s /\ s \ {Some(s)} # s
BY DEF Some

LEMMA PartialSumAt ==
    ASSUME NEW g, NEW f, NEW S, IsPartialSum(g, f, S), NEW s \in SUBSET S
    PROVE  g[s] = IF s = {} THEN 0 ELSE f[Some(s)] + g[s \ {Some(s)}]
<1>1. g = [t \in SUBSET S |-> IF t = {} THEN 0 ELSE f[Some(t)] + g[t \ {Some(t)}]]
  BY DEF IsPartialSum
<1> HIDE DEF Some
<1>2. [t \in SUBSET S |-> IF t = {} THEN 0 ELSE f[Some(t)] + g[t \ {Some(t)}]][s]
         = IF s = {} THEN 0 ELSE f[Some(s)] + g[s \ {Some(s)}]
  OBVIOUS
<1> QED BY <1>1, <1>2, Zenon

(* Two such functions agree where both are defined. *)
LEMMA PartialSumsAgree ==
    ASSUME NEW f, NEW A, NEW B, NEW g, NEW h, NEW S, IsFiniteSet(S),
           IsPartialSum(g, f, A), IsPartialSum(h, f, B), S \subseteq A, S \subseteq B
    PROVE  g[S] = h[S]
<1> DEFINE Bad == {T \in SUBSET S : g[T] # h[T]}
<1> SUFFICES ASSUME Bad # {} PROVE FALSE
  <2>1. S \in SUBSET S
    OBVIOUS
  <2> QED BY <2>1
<1>1. PICK T \in Bad : \A U \in SUBSET T : U \in Bad => U = T
  <2>1. Bad \in SUBSET (SUBSET S)
    OBVIOUS
  <2> HIDE DEF Bad
  <2> QED BY <2>1, SmallestSubset
<1> DEFINE U == T \ {Some(T)}
<1>2. /\ g[T] = IF T = {} THEN 0 ELSE f[Some(T)] + g[U]
      /\ h[T] = IF T = {} THEN 0 ELSE f[Some(T)] + h[U]
  <2>1. T \in SUBSET A /\ T \in SUBSET B
    OBVIOUS
  <2> QED BY <2>1, PartialSumAt
<1>3. g[T] # h[T]
  OBVIOUS
<1>4. T # {} /\ g[U] # h[U]
  <2> HIDE DEF U
  <2> QED BY <1>2, <1>3
<1>5. U \in SUBSET T /\ U \in Bad /\ U # T
  BY <1>4, SomeIsIn
<1> QED BY <1>1, <1>5

(* The recursion ends: a finite set has such a function. *)
LEMMA PartialSumExists ==
    ASSUME NEW f, NEW S, IsFiniteSet(S)
    PROVE  \E g : IsPartialSum(g, f, S)
<1> DEFINE Bad == {T \in SUBSET S : ~ \E g : IsPartialSum(g, f, T)}
<1> SUFFICES ASSUME Bad # {} PROVE FALSE
  <2>1. S \in SUBSET S
    OBVIOUS
  <2> QED BY <2>1
<1>1. PICK T \in Bad : \A U \in SUBSET T : U \in Bad => U = T
  <2>1. Bad \in SUBSET (SUBSET S)
    OBVIOUS
  <2> HIDE DEF Bad
  <2> QED BY <2>1, SmallestSubset
<1> DEFINE total(s) == Summed(f, s)[s]
           next(s) == IF s = {} THEN 0 ELSE f[Some(s)] + total(s \ {Some(s)})
           g == [s \in SUBSET T |-> next(s)]
<1>2. ASSUME NEW s \in SUBSET T, s # T PROVE IsPartialSum(Summed(f, s), f, s)
  <2>1. s \in SUBSET S /\ s \notin Bad
    BY <1>1, <1>2
  <2>2. \E h : IsPartialSum(h, f, s)
    BY <2>1
  <2> QED BY <2>2, Zenon DEF Summed
<1>3. ASSUME NEW s \in SUBSET T, s # T PROVE total(s) = next(s)
  <2>1. IsPartialSum(Summed(f, s), f, s) /\ s \in SUBSET s
    BY <1>2, <1>3
  <2>2. total(s) = IF s = {} THEN 0 ELSE f[Some(s)] + Summed(f, s)[s \ {Some(s)}]
    BY <2>1, PartialSumAt
  <2>3. CASE s = {}
    BY <2>2, <2>3
  <2>4. CASE s # {}
    <3> DEFINE r == s \ {Some(s)}
    <3>1. r \in SUBSET T /\ r # T /\ r \subseteq s
      BY <2>4, <1>3, SomeIsIn
    <3>2. IsFiniteSet(r)
      BY <3>1, FS_Subset
    <3>3. IsPartialSum(Summed(f, r), f, r)
      BY <3>1, <1>2
    <3> HIDE DEF r
    <3>4. Summed(f, s)[r] = Summed(f, r)[r]
      BY <2>1, <3>1, <3>2, <3>3, PartialSumsAgree
    <3> QED BY <2>2, <2>4, <3>4 DEF r
  <2> QED BY <2>3, <2>4
<1>4. ASSUME NEW s \in SUBSET T
      PROVE  next(s) = IF s = {} THEN 0 ELSE f[Some(s)] + g[s \ {Some(s)}]
  <2>1. CASE s = {}
    BY <2>1
  <2>2. CASE s # {}
    <3> DEFINE r == s \ {Some(s)}
    <3>1. r \in SUBSET T /\ r # T
      BY <2>2, SomeIsIn
    <3>2. g[r] = next(r)
      BY <3>1
    <3>3. total(r) = next(r)
      BY <3>1, <1>3
    <3> HIDE DEF g, total
    <3> QED BY <2>2, <3>2, <3>3
  <2> QED BY <2>1, <2>2
<1>5. IsPartialSum(g, f, T)
  <2> HIDE DEF next
  <2>1. g = [s \in SUBSET T |-> IF s = {} THEN 0 ELSE f[Some(s)] + g[s \ {Some(s)}]]
    <3> DEFINE body(s) == IF s = {} THEN 0 ELSE f[Some(s)] + g[s \ {Some(s)}]
    <3>1. \A s \in SUBSET T : next(s) = body(s)
      BY <1>4
    <3> HIDE DEF body
    <3>2. [s \in SUBSET T |-> next(s)] = [s \in SUBSET T |-> body(s)]
      BY <3>1
    <3> QED BY <3>2 DEF body
  <2> HIDE DEF g
  <2> QED BY <2>1 DEF IsPartialSum
<1> QED BY <1>5

(* The two equations every later fact is drawn from. *)
LEMMA SumDef ==
    ASSUME NEW f, NEW S, IsFiniteSet(S)
    PROVE  SumFunctionOnSet(f, S)
              = IF S = {} THEN 0
                ELSE f[Some(S)] + SumFunctionOnSet(f, S \ {Some(S)})
<1> DEFINE r == S \ {Some(S)}
<1>1. IsPartialSum(Summed(f, S), f, S)
  <2>1. \E g : IsPartialSum(g, f, S)
    BY PartialSumExists
  <2> QED BY <2>1, Zenon DEF Summed
<1>2. Summed(f, S)[S] = IF S = {} THEN 0 ELSE f[Some(S)] + Summed(f, S)[r]
  BY <1>1, PartialSumAt
<1>3. r \subseteq S /\ IsFiniteSet(r)
  BY FS_Subset
<1> HIDE DEF r
<1>4. IsPartialSum(Summed(f, r), f, r)
  <2>1. \E g : IsPartialSum(g, f, r)
    BY <1>3, PartialSumExists
  <2> QED BY <2>1, Zenon DEF Summed
<1>5. Summed(f, S)[r] = Summed(f, r)[r]
  BY <1>1, <1>3, <1>4, PartialSumsAgree
<1> QED BY <1>2, <1>5, SumIsSummed DEF r

-----------------------------------------------------------------------------
(* What the components use. *)

LEMMA SumEmpty == ASSUME NEW f PROVE SumFunctionOnSet(f, {}) = 0
BY SumDef, FS_EmptySet

(* Functions that agree on a set have the same sum over it. *)
LEMMA SumSame ==
    ASSUME NEW S, IsFiniteSet(S), NEW f, NEW g, \A s \in S : f[s] = g[s]
    PROVE  SumFunctionOnSet(f, S) = SumFunctionOnSet(g, S)
<1> DEFINE Bad == {T \in SUBSET S : SumFunctionOnSet(f, T) # SumFunctionOnSet(g, T)}
<1> SUFFICES ASSUME Bad # {} PROVE FALSE
  <2>1. S \in SUBSET S
    OBVIOUS
  <2> QED BY <2>1
<1>1. PICK T \in Bad : \A U \in SUBSET T : U \in Bad => U = T
  <2>1. Bad \in SUBSET (SUBSET S)
    OBVIOUS
  <2> HIDE DEF Bad
  <2> QED BY <2>1, SmallestSubset
<1> DEFINE U == T \ {Some(T)}
<1>2. IsFiniteSet(T)
  BY FS_Subset
<1>3. /\ SumFunctionOnSet(f, T) = IF T = {} THEN 0 ELSE f[Some(T)] + SumFunctionOnSet(f, U)
      /\ SumFunctionOnSet(g, T) = IF T = {} THEN 0 ELSE g[Some(T)] + SumFunctionOnSet(g, U)
  BY <1>2, SumDef
<1>4. T # {} /\ Some(T) \in T /\ U \in SUBSET T /\ U # T
  BY <1>3, SomeIsIn
<1>5. SumFunctionOnSet(f, U) = SumFunctionOnSet(g, U)
  BY <1>1, <1>4
<1> QED BY <1>3, <1>4, <1>5

(* A sum of integers is one, and never negative when they are not. *)
LEMMA SumType ==
    ASSUME NEW N \in {Nat, Int}, NEW S, IsFiniteSet(S), NEW f, \A s \in S : f[s] \in N
    PROVE  SumFunctionOnSet(f, S) \in N
<1> DEFINE Bad == {T \in SUBSET S : SumFunctionOnSet(f, T) \notin N}
<1> SUFFICES ASSUME Bad # {} PROVE FALSE
  <2>1. S \in SUBSET S
    OBVIOUS
  <2> QED BY <2>1
<1>1. PICK T \in Bad : \A U \in SUBSET T : U \in Bad => U = T
  <2>1. Bad \in SUBSET (SUBSET S)
    OBVIOUS
  <2> HIDE DEF Bad
  <2> QED BY <2>1, SmallestSubset
<1> DEFINE U == T \ {Some(T)}
<1>2. SumFunctionOnSet(f, T) = IF T = {} THEN 0 ELSE f[Some(T)] + SumFunctionOnSet(f, U)
  BY FS_Subset, SumDef
<1>3. T # {} /\ Some(T) \in S /\ U \in SUBSET T /\ U # T
  BY <1>2, SomeIsIn
<1>4. SumFunctionOnSet(f, U) \in N
  BY <1>1, <1>3
<1> QED BY <1>2, <1>3, <1>4

(* The order does not matter: any element can be taken first. *)
LEMMA SumTake ==
    ASSUME NEW S, IsFiniteSet(S), NEW f, \A s \in S : f[s] \in Int, NEW x \in S
    PROVE  SumFunctionOnSet(f, S) = f[x] + SumFunctionOnSet(f, S \ {x})
<1> DEFINE Takes(T) == \A z \in T : SumFunctionOnSet(f, T) = f[z] + SumFunctionOnSet(f, T \ {z})
           Bad == {T \in SUBSET S : ~Takes(T)}
<1> SUFFICES ASSUME Bad # {} PROVE FALSE
  <2>1. S \in SUBSET S
    OBVIOUS
  <2> QED BY <2>1
<1>1. PICK T \in Bad : \A U \in SUBSET T : U \in Bad => U = T
  <2>1. Bad \in SUBSET (SUBSET S)
    OBVIOUS
  <2> HIDE DEF Bad
  <2> QED BY <2>1, SmallestSubset
<1>2. PICK z \in T : SumFunctionOnSet(f, T) # f[z] + SumFunctionOnSet(f, T \ {z})
  OBVIOUS
<1> DEFINE y == Some(T)
<1>3. y \in T /\ y \in S /\ z \in S
  BY <1>2, SomeIsIn
<1>4. SumFunctionOnSet(f, T) = f[y] + SumFunctionOnSet(f, T \ {y})
  BY <1>3, FS_Subset, SumDef
<1> HIDE DEF y
<1>5. z # y
  BY <1>2, <1>4
<1>6. /\ T \ {y} \in SUBSET T /\ T \ {y} # T /\ z \in T \ {y}
      /\ T \ {z} \in SUBSET T /\ T \ {z} # T /\ y \in T \ {z}
  BY <1>2, <1>3, <1>5
<1>7. Takes(T \ {y}) /\ Takes(T \ {z})
  BY <1>1, <1>6
<1> DEFINE R == (T \ {y}) \ {z}
<1>8. /\ SumFunctionOnSet(f, T \ {y}) = f[z] + SumFunctionOnSet(f, R)
      /\ SumFunctionOnSet(f, T \ {z}) = f[y] + SumFunctionOnSet(f, R)
  <2>1. (T \ {z}) \ {y} = R
    OBVIOUS
  <2> HIDE DEF R
  <2>2. SumFunctionOnSet(f, T \ {z}) = f[y] + SumFunctionOnSet(f, (T \ {z}) \ {y})
    BY <1>6, <1>7
  <2>3. SumFunctionOnSet(f, T \ {y}) = f[z] + SumFunctionOnSet(f, (T \ {y}) \ {z})
    BY <1>6, <1>7
  <2> QED BY <2>1, <2>2, <2>3 DEF R
<1>9. SumFunctionOnSet(f, R) \in Int /\ f[y] \in Int /\ f[z] \in Int
  <2>1. R \subseteq S /\ \A s \in R : f[s] \in Int
    OBVIOUS
  <2>2. IsFiniteSet(R)
    BY <2>1, FS_Subset
  <2> HIDE DEF R
  <2> QED BY <1>3, <2>1, <2>2, SumType
<1> HIDE DEF R
<1> QED BY <1>2, <1>4, <1>8, <1>9

(* Adding an element to a set adds its value to the sum. *)
LEMMA SumAdd ==
    ASSUME NEW S, IsFiniteSet(S), NEW f, NEW x, x \notin S,
           \A s \in S \cup {x} : f[s] \in Int
    PROVE  SumFunctionOnSet(f, S \cup {x}) = SumFunctionOnSet(f, S) + f[x]
<1> DEFINE T == S \cup {x}
<1>1. IsFiniteSet(T) /\ x \in T /\ T \ {x} = S
  BY FS_AddElement
<1> HIDE DEF T
<1>2. \A s \in T : f[s] \in Int
  BY DEF T
<1>3. SumFunctionOnSet(f, T) = f[x] + SumFunctionOnSet(f, S)
  BY <1>1, <1>2, SumTake
<1>4. SumFunctionOnSet(f, S) \in Int /\ f[x] \in Int
  BY <1>1, <1>2, SumType
<1> QED BY <1>3, <1>4 DEF T

(* Changing one value changes the sum by the difference. *)
LEMMA SumChange ==
    ASSUME NEW S, IsFiniteSet(S), NEW f, NEW g, NEW x \in S,
           \A s \in S : f[s] \in Int /\ g[s] \in Int,
           \A s \in S \ {x} : f[s] = g[s]
    PROVE  SumFunctionOnSet(g, S) = SumFunctionOnSet(f, S) + (g[x] - f[x])
<1> DEFINE R == S \ {x}
<1>1. IsFiniteSet(R) /\ \A s \in R : f[s] \in Int /\ f[s] = g[s]
  BY FS_Subset
<1>2. /\ SumFunctionOnSet(f, S) = f[x] + SumFunctionOnSet(f, R)
      /\ SumFunctionOnSet(g, S) = g[x] + SumFunctionOnSet(g, R)
  BY SumTake
<1> HIDE DEF R
<1>3. SumFunctionOnSet(f, R) = SumFunctionOnSet(g, R) /\ SumFunctionOnSet(f, R) \in Int
  BY <1>1, SumSame, SumType
<1> QED BY <1>2, <1>3

(* Sums add up term by term. *)
LEMMA SumPlus ==
    ASSUME NEW S, IsFiniteSet(S), NEW f, NEW g, NEW h,
           \A s \in S : f[s] \in Int /\ g[s] \in Int /\ h[s] = f[s] + g[s]
    PROVE  SumFunctionOnSet(h, S) = SumFunctionOnSet(f, S) + SumFunctionOnSet(g, S)
<1> DEFINE AddsUp(T) == SumFunctionOnSet(h, T) = SumFunctionOnSet(f, T) + SumFunctionOnSet(g, T)
           Bad == {T \in SUBSET S : ~AddsUp(T)}
<1> SUFFICES ASSUME Bad # {} PROVE FALSE
  <2>1. S \in SUBSET S
    OBVIOUS
  <2> QED BY <2>1
<1>1. PICK T \in Bad : \A U \in SUBSET T : U \in Bad => U = T
  <2>1. Bad \in SUBSET (SUBSET S)
    OBVIOUS
  <2> HIDE DEF Bad
  <2> QED BY <2>1, SmallestSubset
<1>2. T # {}
  <2>1. /\ SumFunctionOnSet(f, {}) = 0 /\ SumFunctionOnSet(g, {}) = 0
        /\ SumFunctionOnSet(h, {}) = 0
    BY SumEmpty
  <2>2. AddsUp({})
    BY <2>1
  <2> QED BY <2>2
<1>3. PICK x \in T : TRUE
  BY <1>2
<1> DEFINE R == T \ {x}
<1>4. /\ IsFiniteSet(T) /\ IsFiniteSet(R)
      /\ \A s \in T : f[s] \in Int /\ g[s] \in Int /\ h[s] \in Int /\ h[s] = f[s] + g[s]
  BY FS_Subset
<1>5. /\ SumFunctionOnSet(f, T) = f[x] + SumFunctionOnSet(f, R)
      /\ SumFunctionOnSet(g, T) = g[x] + SumFunctionOnSet(g, R)
      /\ SumFunctionOnSet(h, T) = h[x] + SumFunctionOnSet(h, R)
  BY <1>3, <1>4, SumTake
<1>6. AddsUp(R)
  BY <1>1, <1>3
<1>7. R \subseteq T
  OBVIOUS
<1> HIDE DEF R
<1>8. SumFunctionOnSet(f, R) \in Int /\ SumFunctionOnSet(g, R) \in Int
  BY <1>4, <1>7, SumType
<1>9. AddsUp(T)
  BY <1>3, <1>4, <1>5, <1>6, <1>8
<1> QED BY <1>1, <1>9

=============================================================================
