---------------------------- MODULE QuantitySums ----------------------------
(***************************************************************************)
(* Sums of quantities over finite sets of orders: what SumFunctionOnSet of *)
(* the community modules computes, for every function and every finite     *)
(* set.  It is defined by recursion over the subsets of the set; the       *)
(* lemmas derive from that definition the facts that the proofs about      *)
(* stock cite.                                                             *)
(***************************************************************************)
EXTENDS Functions, FiniteSetTheorems, TLAPS

-----------------------------------------------------------------------------
(* Induction over a finite set, with the property given as the set A of    *)
(* subsets that have it.                                                   *)
LEMMA SubsetInduction ==
  ASSUME NEW S, IsFiniteSet(S), NEW A,
         \A T \in SUBSET S : (\A U \in SUBSET T : U # T => U \in A) => T \in A
  PROVE  S \in A
<1>. DEFINE Bad == {T \in SUBSET S : T \notin A}
<1>1. SUFFICES ASSUME S \notin A
               PROVE  FALSE
  OBVIOUS
<1>2. IsWellFoundedOn(StrictSubsetOrdering(S), SUBSET S)
  BY FS_StrictSubsetOrderingWellFounded, FS_FiniteSubsetsOfFinite
<1>3. Bad # {} /\ Bad \subseteq SUBSET S
  BY <1>1
<1>4. PICK T \in Bad : \A U \in Bad : <<U, T>> \notin StrictSubsetOrdering(S)
  <2>. HIDE DEF Bad
  <2>. QED
    BY <1>2, <1>3, WFMin
<1>5. ASSUME NEW U \in SUBSET T, U # T
      PROVE  U \in A
  <2>1. U \in SUBSET S
    BY <1>4
  <2>2. <<U, T>> \in StrictSubsetOrdering(S)
    BY <1>4, <1>5, <2>1 DEF StrictSubsetOrdering
  <2>. QED
    BY <1>4, <2>1, <2>2
<1>. QED
  BY <1>4, <1>5

-----------------------------------------------------------------------------
(* The recursion that defines a sum: an element is taken out, added to the *)
(* sum of the others.                                                      *)
Pick(s) == CHOOSE x \in s : TRUE

Follows(f, S, g) ==
  g = [s \in SUBSET S |-> IF s = {} THEN 0 ELSE f[Pick(s)] + g[s \ {Pick(s)}]]

LEMMA SumByChoice ==
  ASSUME NEW f, NEW S
  PROVE  SumFunctionOnSet(f, S) = (CHOOSE g : Follows(f, S, g))[S]
BY DEF SumFunctionOnSet, FoldFunctionOnSet, MapThenFoldSet, Follows, Pick

(* The equation a sum obeys, for the element that is picked.               *)
Rest(s) == s \ {Pick(s)}

SumObeys(f, s) ==
  SumFunctionOnSet(f, s) = IF s = {} THEN 0 ELSE f[Pick(s)] + SumFunctionOnSet(f, Rest(s))

LEMMA PickIsIn ==
  ASSUME NEW s, s # {}
  PROVE  Pick(s) \in s
BY DEF Pick

(* Any two functions that follow the recursion agree on the finite sets    *)
(* where the sum obeys its equation.                                       *)
LEMMA FollowersAgree ==
  ASSUME NEW f, NEW S, NEW g, Follows(f, S, g), NEW T \in SUBSET S, IsFiniteSet(T),
         \A U \in SUBSET T : SumObeys(f, U)
  PROVE  g[T] = SumFunctionOnSet(f, T)
<1>. DEFINE A == {U \in SUBSET T : g[U] = SumFunctionOnSet(f, U)}
<1>1. ASSUME NEW U \in SUBSET T, \A V \in SUBSET U : V # U => V \in A
      PROVE  U \in A
  <2>1. g[U] = IF U = {} THEN 0 ELSE f[Pick(U)] + g[Rest(U)]
    BY DEF Follows, Rest
  <2>2. SumObeys(f, U)
    OBVIOUS
  <2>3. CASE U = {}
    BY <2>1, <2>2, <2>3 DEF SumObeys
  <2>4. CASE U # {}
    <3>1. Rest(U) \in SUBSET U /\ Rest(U) # U
      BY <2>4, PickIsIn DEF Rest
    <3>2. g[Rest(U)] = SumFunctionOnSet(f, Rest(U))
      BY <1>1, <3>1
    <3>. QED
      BY <2>1, <2>2, <2>4, <3>2 DEF SumObeys
  <2>. QED
    BY <2>3, <2>4
<1>2. T \in A
  <2>. HIDE DEF A
  <2>. QED
    BY <1>1, SubsetInduction
<1>. QED
  BY <1>2

(* The recursion is well defined: by induction over the subsets, the sums  *)
(* of the proper subsets make a function that follows it.                  *)
LEMMA SumStep ==
  ASSUME NEW f, NEW S, IsFiniteSet(S)
  PROVE  SumObeys(f, S)
<1>. DEFINE A == {T \in SUBSET S : SumObeys(f, T)}
<1>1. ASSUME NEW T \in SUBSET S, \A U \in SUBSET T : U # T => U \in A
      PROVE  T \in A
  <2>. DEFINE rhs == IF T = {} THEN 0 ELSE f[Pick(T)] + SumFunctionOnSet(f, Rest(T))
              g == [s \in SUBSET T |-> IF s = T THEN rhs ELSE SumFunctionOnSet(f, s)]
  <2>1. ASSUME NEW s \in SUBSET T
        PROVE  g[s] = IF s = {} THEN 0 ELSE f[Pick(s)] + g[s \ {Pick(s)}]
    <3>1. s # {} => Rest(s) \in SUBSET T /\ Rest(s) # T
      BY PickIsIn DEF Rest
    <3>2. s # {} => g[s \ {Pick(s)}] = SumFunctionOnSet(f, Rest(s))
      BY <3>1 DEF Rest
    <3>3. g[s] = IF s = {} THEN 0 ELSE f[Pick(s)] + SumFunctionOnSet(f, Rest(s))
      <4>1. CASE s = T
        BY <4>1
      <4>2. CASE s # T
        <5>1. SumObeys(f, s)
          BY <1>1, <4>2
        <5>. QED
          BY <4>2, <5>1 DEF SumObeys
      <4>. QED
        BY <4>1, <4>2
    <3>. QED
      BY <3>2, <3>3
  <2>2. Follows(f, T, g)
    BY <2>1 DEF Follows
  <2>. HIDE DEF g
  <2>3. PICK c : c = (CHOOSE h : Follows(f, T, h))
    OBVIOUS
  <2>4. Follows(f, T, c)
    BY <2>2, <2>3
  <2>5. SumFunctionOnSet(f, T) = c[T]
    BY <2>3, SumByChoice
  <2>6. c[T] = IF T = {} THEN 0 ELSE f[Pick(T)] + c[Rest(T)]
    BY <2>4 DEF Follows, Rest
  <2>7. T # {} => c[Rest(T)] = SumFunctionOnSet(f, Rest(T))
    <3>. SUFFICES ASSUME T # {}
                  PROVE  c[Rest(T)] = SumFunctionOnSet(f, Rest(T))
      OBVIOUS
    <3>1. Rest(T) \in SUBSET T /\ Rest(T) # T
      BY PickIsIn DEF Rest
    <3>2. IsFiniteSet(Rest(T))
      BY <3>1, FS_Subset
    <3>3. \A U \in SUBSET Rest(T) : SumObeys(f, U)
      BY <1>1, <3>1
    <3>. QED
      BY <2>4, <3>1, <3>2, <3>3, FollowersAgree
  <2>. QED
    BY <2>5, <2>6, <2>7 DEF SumObeys
<1>2. S \in A
  <2>. HIDE DEF A
  <2>. QED
    BY <1>1, SubsetInduction
<1>. QED
  BY <1>2

-----------------------------------------------------------------------------
(* What the proofs about stock use.                                        *)
LEMMA SumOfNone == ASSUME NEW f PROVE SumFunctionOnSet(f, {}) = 0
BY SumStep, FS_EmptySet DEF SumObeys

(* A sum of integers is an integer, and any element may be taken out first. *)
TakesOut(f, T) ==
  /\ SumFunctionOnSet(f, T) \in Int
  /\ \A x \in T : SumFunctionOnSet(f, T) = f[x] + SumFunctionOnSet(f, T \ {x})

LEMMA AnyElement ==
  ASSUME NEW S, IsFiniteSet(S), NEW f, \A x \in S : f[x] \in Int
  PROVE  TakesOut(f, S)
<1>. DEFINE A == {T \in SUBSET S : TakesOut(f, T)}
<1>1. ASSUME NEW T \in SUBSET S, \A U \in SUBSET T : U # T => U \in A
      PROVE  T \in A
  <2>1. CASE T = {}
    BY <2>1, SumOfNone DEF TakesOut
  <2>2. CASE T # {}
    <3>. DEFINE p == Pick(T)
    <3>1. p \in T
      BY <2>2, PickIsIn
    <3>2. SumFunctionOnSet(f, T) = f[p] + SumFunctionOnSet(f, T \ {p})
      BY <2>2, FS_Subset, SumStep DEF SumObeys, Rest
    <3>3. \A x \in T : /\ SumFunctionOnSet(f, T \ {x}) \in Int
                       /\ \A y \in T \ {x} : SumFunctionOnSet(f, T \ {x})
                              = f[y] + SumFunctionOnSet(f, (T \ {x}) \ {y})
      <4>. TAKE x \in T
      <4>1. T \ {x} \in A
        BY <1>1
      <4>. QED
        BY <4>1 DEF TakesOut
    <3>4. ASSUME NEW x \in T, x # p
          PROVE  SumFunctionOnSet(f, T) = f[x] + SumFunctionOnSet(f, T \ {x})
      <4>1. (T \ {p}) \ {x} = (T \ {x}) \ {p}
        OBVIOUS
      <4>2. SumFunctionOnSet(f, T \ {p}) = f[x] + SumFunctionOnSet(f, (T \ {x}) \ {p})
        BY <3>1, <3>3, <3>4, <4>1
      <4>3. SumFunctionOnSet(f, T \ {x}) = f[p] + SumFunctionOnSet(f, (T \ {x}) \ {p})
        BY <3>1, <3>3, <3>4
      <4>4. PICK r : r = SumFunctionOnSet(f, (T \ {x}) \ {p})
        OBVIOUS
      <4>5. r \in Int
        <5>1. (T \ {x}) \ {p} \in A
          BY <1>1, <3>1
        <5>. QED
          BY <4>4, <5>1 DEF TakesOut
      <4>6. SumFunctionOnSet(f, T) = f[p] + (f[x] + r)
        BY <3>2, <4>2, <4>4
      <4>7. SumFunctionOnSet(f, T \ {x}) = f[p] + r
        BY <4>3, <4>4
      <4>8. f[p] \in Int /\ f[x] \in Int
        BY <3>1
      <4>. QED
        BY <4>5, <4>6, <4>7, <4>8
    <3>5. SumFunctionOnSet(f, T) \in Int
      BY <3>1, <3>2, <3>3
    <3>. QED
      BY <3>2, <3>4, <3>5 DEF TakesOut
  <2>. QED
    BY <2>1, <2>2
<1>2. S \in A
  <2>. HIDE DEF A
  <2>. QED
    BY <1>1, SubsetInduction
<1>. QED
  BY <1>2

LEMMA SumType ==
  ASSUME NEW S, IsFiniteSet(S), NEW f, \A x \in S : f[x] \in Int
  PROVE  SumFunctionOnSet(f, S) \in Int
BY AnyElement DEF TakesOut

(* Smaller terms, smaller sum: what is added up may grow term by term.     *)
LEMMA SumMonotonic ==
  ASSUME NEW S, IsFiniteSet(S), NEW f, NEW g,
         \A x \in S : f[x] \in Int /\ g[x] \in Int /\ f[x] <= g[x]
  PROVE  SumFunctionOnSet(f, S) <= SumFunctionOnSet(g, S)
<1>. DEFINE A == {T \in SUBSET S : SumFunctionOnSet(f, T) <= SumFunctionOnSet(g, T)}
<1>1. ASSUME NEW T \in SUBSET S, \A U \in SUBSET T : U # T => U \in A
      PROVE  T \in A
  <2>1. CASE T = {}
    BY <2>1, SumOfNone
  <2>2. CASE T # {}
    <3>1. PICK x \in T : TRUE
      BY <2>2
    <3>2. T \ {x} \in A /\ T \ {x} \in SUBSET S
      BY <1>1
    <3>3. /\ SumFunctionOnSet(f, T) = f[x] + SumFunctionOnSet(f, T \ {x})
          /\ SumFunctionOnSet(g, T) = g[x] + SumFunctionOnSet(g, T \ {x})
      BY FS_Subset, AnyElement DEF TakesOut
    <3>4. SumFunctionOnSet(f, T \ {x}) \in Int /\ SumFunctionOnSet(g, T \ {x}) \in Int
      BY <3>2, FS_Subset, SumType
    <3>5. f[x] \in Int /\ g[x] \in Int /\ f[x] <= g[x]
      OBVIOUS
    <3>6. SumFunctionOnSet(f, T \ {x}) <= SumFunctionOnSet(g, T \ {x})
      BY <3>2
    <3>. QED
      BY <3>3, <3>4, <3>5, <3>6
  <2>. QED
    BY <2>1, <2>2
<1>2. S \in A
  <2>. HIDE DEF A
  <2>. QED
    BY <1>1, SubsetInduction
<1>. QED
  BY <1>2

(* Only the terms over the set matter.                                     *)
LEMMA SumSame ==
  ASSUME NEW S, IsFiniteSet(S), NEW f, NEW g, \A x \in S : f[x] \in Int /\ f[x] = g[x]
  PROVE  SumFunctionOnSet(f, S) = SumFunctionOnSet(g, S)
<1>1. /\ SumFunctionOnSet(f, S) <= SumFunctionOnSet(g, S)
      /\ SumFunctionOnSet(g, S) <= SumFunctionOnSet(f, S)
  BY SumMonotonic
<1>. QED
  BY <1>1, SumType

(* Nothing adds up to nothing.                                             *)
LEMMA SumOfZeros ==
  ASSUME NEW S, IsFiniteSet(S), NEW f, \A x \in S : f[x] = 0
  PROVE  SumFunctionOnSet(f, S) = 0
<1>. DEFINE A == {T \in SUBSET S : SumFunctionOnSet(f, T) = 0}
<1>1. ASSUME NEW T \in SUBSET S, \A U \in SUBSET T : U # T => U \in A
      PROVE  T \in A
  <2>1. CASE T = {}
    BY <2>1, SumOfNone
  <2>2. CASE T # {}
    <3>1. PICK x \in T : TRUE
      BY <2>2
    <3>2. SumFunctionOnSet(f, T) = f[x] + SumFunctionOnSet(f, T \ {x})
      BY FS_Subset, AnyElement DEF TakesOut
    <3>3. SumFunctionOnSet(f, T \ {x}) = 0
      BY <1>1
    <3>. QED
      BY <3>2, <3>3
  <2>. QED
    BY <2>1, <2>2
<1>2. S \in A
  <2>. HIDE DEF A
  <2>. QED
    BY <1>1, SubsetInduction
<1>. QED
  BY <1>2

(* A change of one term changes the sum by as much.                        *)
LEMMA SumChange ==
  ASSUME NEW S, IsFiniteSet(S), NEW f, NEW g, NEW y \in S,
         \A x \in S : f[x] \in Int /\ g[x] \in Int,
         \A x \in S \ {y} : g[x] = f[x]
  PROVE  SumFunctionOnSet(g, S) = SumFunctionOnSet(f, S) + (g[y] - f[y])
<1>1. IsFiniteSet(S \ {y})
  BY FS_RemoveElement
<1>2. SumFunctionOnSet(f, S \ {y}) = SumFunctionOnSet(g, S \ {y})
  BY <1>1, SumSame
<1>3. /\ SumFunctionOnSet(f, S) = f[y] + SumFunctionOnSet(f, S \ {y})
      /\ SumFunctionOnSet(g, S) = g[y] + SumFunctionOnSet(g, S \ {y})
  BY AnyElement DEF TakesOut
<1>4. SumFunctionOnSet(f, S \ {y}) \in Int
  BY <1>1, SumType
<1>. QED
  BY <1>2, <1>3, <1>4

(* Of terms that are not negative, the others may be left out.             *)
LEMMA SumOfPart ==
  ASSUME NEW S, IsFiniteSet(S), NEW T \in SUBSET S, NEW f, \A x \in S : f[x] \in Nat
  PROVE  SumFunctionOnSet(f, T) <= SumFunctionOnSet(f, S)
<1>. DEFINE A == {U \in SUBSET S : SumFunctionOnSet(f, T \cap U) <= SumFunctionOnSet(f, U)}
<1>1. ASSUME NEW U \in SUBSET S, \A V \in SUBSET U : V # U => V \in A
      PROVE  U \in A
  <2>1. CASE U = {}
    <3>1. T \cap U = {}
      BY <2>1
    <3>. QED
      BY <2>1, <3>1, SumOfNone
  <2>2. CASE U # {}
    <3>1. PICK x \in U : TRUE
      BY <2>2
    <3>. DEFINE V == U \ {x}
                W == T \cap V
    <3>2. V \in SUBSET S /\ W \in SUBSET S /\ T \cap U \in SUBSET S
      OBVIOUS
    <3>3. SumFunctionOnSet(f, W) <= SumFunctionOnSet(f, V)
      BY <1>1, <3>1
    <3>4. IsFiniteSet(U) /\ IsFiniteSet(V) /\ IsFiniteSet(W) /\ IsFiniteSet(T \cap U)
      BY <3>2, FS_Subset
    <3>5. SumFunctionOnSet(f, V) \in Int /\ SumFunctionOnSet(f, W) \in Int
      <4>. HIDE DEF V, W
      <4>. QED
        BY <3>2, <3>4, SumType
    <3>6. SumFunctionOnSet(f, U) = f[x] + SumFunctionOnSet(f, V)
      BY <3>4, AnyElement DEF TakesOut
    <3>7. CASE x \in T
      <4>1. (T \cap U) \ {x} = W
        OBVIOUS
      <4>2. SumFunctionOnSet(f, T \cap U) = f[x] + SumFunctionOnSet(f, W)
        BY <3>4, <3>7, <4>1, AnyElement DEF TakesOut
      <4>3. f[x] \in Int
        OBVIOUS
      <4>4. SumFunctionOnSet(f, T \cap U) <= SumFunctionOnSet(f, U)
        <5>. HIDE DEF V, W
        <5>. QED
          BY <3>3, <3>5, <3>6, <4>2, <4>3
      <4>. QED
        BY <4>4
    <3>8. CASE x \notin T
      <4>1. SumFunctionOnSet(f, T \cap U) = SumFunctionOnSet(f, W)
        <5>1. T \cap U = W
          BY <3>8
        <5>. QED
          BY <5>1, Zenon
      <4>2. f[x] \in Nat
        OBVIOUS
      <4>3. SumFunctionOnSet(f, T \cap U) <= SumFunctionOnSet(f, U)
        <5>. HIDE DEF V, W
        <5>. QED
          BY <3>3, <3>5, <3>6, <4>1, <4>2
      <4>. QED
        BY <4>3
    <3>. QED
      BY <3>7, <3>8
  <2>. QED
    BY <2>1, <2>2
<1>2. S \in A
  <2>. HIDE DEF A
  <2>. QED
    BY <1>1, SubsetInduction
<1>3. T \cap S = T
  OBVIOUS
<1>. QED
  BY <1>2, <1>3

(* Sums add up term by term.                                               *)
LEMMA SumAdds ==
  ASSUME NEW S, IsFiniteSet(S), NEW f, NEW g, NEW h,
         \A x \in S : f[x] \in Int /\ g[x] \in Int /\ h[x] = f[x] + g[x]
  PROVE  SumFunctionOnSet(h, S) = SumFunctionOnSet(f, S) + SumFunctionOnSet(g, S)
<1>. DEFINE A == {T \in SUBSET S : SumFunctionOnSet(h, T) = SumFunctionOnSet(f, T) + SumFunctionOnSet(g, T)}
<1>1. ASSUME NEW T \in SUBSET S, \A U \in SUBSET T : U # T => U \in A
      PROVE  T \in A
  <2>1. CASE T = {}
    BY <2>1, SumOfNone
  <2>2. CASE T # {}
    <3>1. PICK x \in T : TRUE
      BY <2>2
    <3>2. T \ {x} \in A /\ T \ {x} \in SUBSET S
      BY <1>1
    <3>3. /\ SumFunctionOnSet(f, T) = f[x] + SumFunctionOnSet(f, T \ {x})
          /\ SumFunctionOnSet(g, T) = g[x] + SumFunctionOnSet(g, T \ {x})
          /\ SumFunctionOnSet(h, T) = h[x] + SumFunctionOnSet(h, T \ {x})
      <4>1. IsFiniteSet(T) /\ \A y \in T : f[y] \in Int /\ g[y] \in Int /\ h[y] \in Int
        BY FS_Subset
      <4>. QED
        BY <4>1, AnyElement DEF TakesOut
    <3>4. SumFunctionOnSet(f, T \ {x}) \in Int /\ SumFunctionOnSet(g, T \ {x}) \in Int
      BY <3>2, FS_Subset, SumType
    <3>5. f[x] \in Int /\ g[x] \in Int /\ h[x] = f[x] + g[x]
      OBVIOUS
    <3>6. SumFunctionOnSet(h, T \ {x}) = SumFunctionOnSet(f, T \ {x}) + SumFunctionOnSet(g, T \ {x})
      BY <3>2
    <3>. QED
      BY <3>3, <3>4, <3>5, <3>6
  <2>. QED
    BY <2>1, <2>2
<1>2. S \in A
  <2>. HIDE DEF A
  <2>. QED
    BY <1>1, SubsetInduction
<1>. QED
  BY <1>2
=============================================================================
