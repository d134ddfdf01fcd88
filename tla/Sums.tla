-------------------------------- MODULE Sums --------------------------------
(***************************************************************************)
(* Sums over finite sets of integers: what SumFunction of the community    *)
(* modules computes, by induction on the set.  The induction principle     *)
(* takes the sets for which a fact holds as a set, where the library's     *)
(* takes it as an operator.  At the end, what rounding half to even is off *)
(* by.                                                                     *)
(***************************************************************************)
EXTENDS Lots, FiniteSetsExt, Functions, FiniteSetTheorems, TLAPS

(* A set to which a finite set belongs whenever all sets of one element    *)
(* less do, contains every finite set.                                     *)
LEMMA Descent ==
  ASSUME NEW S, IsFiniteSet(S), NEW Good,
         \A T \in SUBSET S : (\A x \in T : T \ {x} \in Good) => T \in Good
  PROVE  S \in Good
  <1> DEFINE Bad == {T \in FiniteSubsetsOf(S) : T \notin Good}
  <1>1. SUFFICES ASSUME Bad # {} PROVE FALSE
    BY DEF FiniteSubsetsOf
  <1>2. PICK T \in Bad : \A U \in Bad : ~(<<U, T>> \in StrictSubsetOrdering(S))
    BY <1>1, FS_StrictSubsetOrderingWellFounded, WFMin DEF FiniteSubsetsOf
  <1>3. PICK x \in T : T \ {x} \notin Good
    BY <1>2 DEF FiniteSubsetsOf
  <1>4. T \ {x} \in FiniteSubsetsOf(S) /\ <<T \ {x}, T>> \in StrictSubsetOrdering(S)
    BY <1>2, FS_RemoveElement DEF FiniteSubsetsOf, StrictSubsetOrdering
  <1>5. QED BY <1>2, <1>3, <1>4

LEMMA SetInduction ==
  ASSUME NEW S, IsFiniteSet(S), NEW Good, {} \in Good,
         \A T \in SUBSET S : \A x \in S \ T : T \in Good => T \cup {x} \in Good
  PROVE  S \in Good
  <1>1. ASSUME NEW T \in SUBSET S, \A x \in T : T \ {x} \in Good PROVE T \in Good
    <2>1. CASE T = {}
      BY <2>1
    <2>2. CASE T # {}
      <3>1. PICK x : x \in T
        BY <2>2
      <3>2. (T \ {x}) \cup {x} = T /\ x \in S \ (T \ {x}) /\ T \ {x} \in SUBSET S
        BY <3>1
      <3>3. QED BY <1>1, <3>1, <3>2
    <2>3. QED BY <2>1, <2>2
  <1>2. QED BY <1>1, Descent

-----------------------------------------------------------------------------
Pick(s) == CHOOSE x \in s : TRUE

(* it is the iteration over S that SumFunctionOnSet is defined by.         *)
Adds(it, f, S) ==
  it = [s \in SUBSET S |-> IF s = {} THEN 0 ELSE f[Pick(s)] + it[s \ {Pick(s)}]]

Iteration(f, S) == CHOOSE it : Adds(it, f, S)

LEMMA SumUnfolds ==
  ASSUME NEW f, NEW S
  PROVE  SumFunctionOnSet(f, S) = Iteration(f, S)[S]
  BY DEF SumFunctionOnSet, FoldFunctionOnSet, MapThenFoldSet, Adds, Pick, Iteration

(* The iteration exists: built up from the sets of at most k elements.     *)
LEMMA SumExists ==
  ASSUME NEW S, IsFiniteSet(S), NEW f
  PROVE  Adds(Iteration(f, S), f, S)
  <1> DEFINE Upto(k) == {s \in SUBSET S : Cardinality(s) <= k}
             Body(it, s) == IF s = {} THEN 0 ELSE f[Pick(s)] + it[s \ {Pick(s)}]
             Level(k) == \E it : it = [s \in Upto(k) |-> Body(it, s)]
             Good == {T \in SUBSET S : Level(Cardinality(T))}
  <1>1. \A s \in SUBSET S : /\ IsFiniteSet(s) /\ Cardinality(s) \in Nat
                            /\ Cardinality(s) = 0 <=> s = {}
    BY FS_Subset, FS_CardinalityType, FS_EmptySet
  <1>2. \A s \in SUBSET S : s # {} => /\ Pick(s) \in s /\ s \ {Pick(s)} \in SUBSET S
                                      /\ Cardinality(s \ {Pick(s)}) = Cardinality(s) - 1
    BY <1>1, FS_RemoveElement DEF Pick
  <1>3. {} \in Good
    <2> DEFINE it == [s \in Upto(0) |-> 0]
    <2>1. \A s \in Upto(0) : s = {}
      BY <1>1
    <2>2. it = [s \in Upto(0) |-> Body(it, s)]
      BY <2>1
    <2>3. Cardinality({}) = 0
      BY FS_EmptySet
    <2> HIDE DEF it
    <2>4. QED BY <2>2, <2>3
  <1>4. ASSUME NEW T \in SUBSET S, NEW x \in S \ T, T \in Good PROVE T \cup {x} \in Good
    <2>1. Cardinality(T) \in Nat /\ Cardinality(T \cup {x}) = Cardinality(T) + 1
      BY <1>1, FS_AddElement
    <2>2. PICK k \in Nat : k = Cardinality(T)
      BY <2>1
    <2>3. PICK it : it = [s \in Upto(k) |-> Body(it, s)]
      BY <1>4, <2>2
    <2> DEFINE jt == [s \in Upto(k + 1) |-> Body(it, s)]
    <2>4. \A s \in Upto(k) : jt[s] = it[s]
      <3>1. Upto(k) \subseteq Upto(k + 1)
        BY <1>1
      <3> HIDE DEF Body, Upto
      <3>2. QED BY <2>3, <3>1
    <2>5. \A s \in Upto(k + 1) : s # {} => s \ {Pick(s)} \in Upto(k)
      BY <1>1, <1>2
    <2>6. \A s \in Upto(k + 1) : Body(it, s) = Body(jt, s)
      <3> SUFFICES ASSUME NEW s \in Upto(k + 1) PROVE Body(it, s) = Body(jt, s)
        OBVIOUS
      <3> HIDE DEF jt, Upto
      <3>1. CASE s = {}
        BY <3>1
      <3>2. CASE s # {}
        BY <3>2, <2>4, <2>5
      <3>3. QED BY <3>1, <3>2
    <2>7. jt = [s \in Upto(k + 1) |-> Body(jt, s)]
      <3> HIDE DEF Body, Upto
      <3>1. QED BY <2>6
    <2> HIDE DEF jt
    <2>8. Level(k + 1)
      BY <2>7
    <2> HIDE DEF Level
    <2>9. QED BY <2>1, <2>2, <2>8
  <1>5. S \in Good
    <2> HIDE DEF Good
    <2>1. QED BY <1>3, <1>4, SetInduction
  <1>6. Upto(Cardinality(S)) = SUBSET S
    BY <1>1, FS_Subset
  <1>7. \E it : Adds(it, f, S)
    BY <1>5, <1>6 DEF Adds
  <1>8. QED BY <1>7 DEF Iteration

-----------------------------------------------------------------------------
(* Functions that agree on the set have the same sum over it.              *)
LEMMA SumAgrees ==
  ASSUME NEW S, IsFiniteSet(S), NEW T \in SUBSET S, NEW f, NEW g, \A x \in T : f[x] = g[x]
  PROVE  SumFunctionOnSet(g, T) = Iteration(f, S)[T]
  <1> DEFINE I == Iteration(f, S)
             J == Iteration(g, T)
             Good == {s \in SUBSET T : I[s] = J[s]}
  <1>1. IsFiniteSet(T)
    BY FS_Subset
  <1>2. Adds(I, f, S) /\ Adds(J, g, T)
    BY <1>1, SumExists
  <1> HIDE DEF I, J
  <1>3. ASSUME NEW s \in SUBSET T, \A x \in s : s \ {x} \in Good PROVE s \in Good
    <2>1. /\ I[s] = IF s = {} THEN 0 ELSE f[Pick(s)] + I[s \ {Pick(s)}]
          /\ J[s] = IF s = {} THEN 0 ELSE g[Pick(s)] + J[s \ {Pick(s)}]
      BY <1>2 DEF Adds
    <2>2. CASE s = {}
      BY <2>1, <2>2
    <2>3. CASE s # {}
      <3>1. Pick(s) \in s
        BY <2>3 DEF Pick
      <3>2. QED BY <2>1, <2>3, <3>1, <1>3
    <2>4. QED BY <2>2, <2>3
  <1>4. T \in Good
    <2> HIDE DEF Good
    <2>1. QED BY <1>1, <1>3, Descent
  <1>5. SumFunctionOnSet(g, T) = J[T]
    BY SumUnfolds DEF J
  <1>6. QED BY <1>4, <1>5 DEF I

LEMMA SumEmpty == \A f : SumFunctionOnSet(f, {}) = 0
  <1> SUFFICES ASSUME NEW f PROVE SumFunctionOnSet(f, {}) = 0
    OBVIOUS
  <1>1. Adds(Iteration(f, {}), f, {})
    BY SumExists, FS_EmptySet
  <1>2. PICK I : I = Iteration(f, {})
    OBVIOUS
  <1>3. Adds(I, f, {}) /\ SumFunctionOnSet(f, {}) = I[{}]
    BY <1>1, <1>2, SumUnfolds
  <1>4. QED BY <1>3 DEF Adds

LEMMA SumCong ==
  ASSUME NEW S, IsFiniteSet(S), NEW f, NEW g, \A x \in S : f[x] = g[x]
  PROVE  SumFunctionOnSet(f, S) = SumFunctionOnSet(g, S)
  <1>1. S \in SUBSET S
    OBVIOUS
  <1>2. SumFunctionOnSet(g, S) = Iteration(f, S)[S]
    BY <1>1, SumAgrees
  <1>3. QED BY <1>2, SumUnfolds

(* The element the definition takes first.                                 *)
LEMMA SumFirst ==
  ASSUME NEW S, IsFiniteSet(S), S # {}, NEW f
  PROVE  /\ Pick(S) \in S
         /\ SumFunctionOnSet(f, S) = f[Pick(S)] + SumFunctionOnSet(f, S \ {Pick(S)})
  <1>1. Pick(S) \in S
    BY DEF Pick
  <1>2. PICK I : I = Iteration(f, S)
    OBVIOUS
  <1>3. Adds(I, f, S) /\ SumFunctionOnSet(f, S) = I[S]
    BY <1>2, SumExists, SumUnfolds
  <1>4. I[S] = f[Pick(S)] + I[S \ {Pick(S)}]
    BY <1>3 DEF Adds
  <1>5. SumFunctionOnSet(f, S \ {Pick(S)}) = I[S \ {Pick(S)}]
    BY <1>2, SumAgrees
  <1>6. QED BY <1>1, <1>3, <1>4, <1>5

(* A sum of integers is an integer, of natural numbers a natural number.   *)
LEMMA SumInt ==
  ASSUME NEW S, IsFiniteSet(S), NEW f, \A x \in S : f[x] \in Int
  PROVE  SumFunctionOnSet(f, S) \in Int
  <1> DEFINE Good == {T \in SUBSET S : SumFunctionOnSet(f, T) \in Int}
  <1>1. ASSUME NEW T \in SUBSET S, \A x \in T : T \ {x} \in Good PROVE T \in Good
    <2>1. CASE T = {}
      BY <2>1, SumEmpty
    <2>2. CASE T # {}
      <3>1. Pick(T) \in T /\ SumFunctionOnSet(f, T) = f[Pick(T)] + SumFunctionOnSet(f, T \ {Pick(T)})
        BY <2>2, SumFirst, FS_Subset
      <3>2. SumFunctionOnSet(f, T \ {Pick(T)}) \in Int
        BY <1>1, <3>1
      <3>3. QED BY <3>1, <3>2
    <2>3. QED BY <2>1, <2>2
  <1>2. S \in Good
    <2> HIDE DEF Good
    <2>1. QED BY <1>1, Descent
  <1>3. QED BY <1>2

(* Any element may be taken first.                                         *)
LEMMA SumRemove ==
  ASSUME NEW S, IsFiniteSet(S), NEW f, \A x \in S : f[x] \in Int
  PROVE  \A x \in S : SumFunctionOnSet(f, S) = f[x] + SumFunctionOnSet(f, S \ {x})
  <1> DEFINE Sum(T) == SumFunctionOnSet(f, T)
             Good == {T \in SUBSET S : \A x \in T : Sum(T) = f[x] + Sum(T \ {x})}
  <1>1. \A T \in SUBSET S : IsFiniteSet(T) /\ Sum(T) \in Int
    <2> SUFFICES ASSUME NEW T \in SUBSET S PROVE IsFiniteSet(T) /\ Sum(T) \in Int
      OBVIOUS
    <2>1. IsFiniteSet(T)
      BY FS_Subset
    <2>2. QED BY <2>1, SumInt
  <1>2. ASSUME NEW T \in SUBSET S, \A x \in T : T \ {x} \in Good PROVE T \in Good
    <2> SUFFICES ASSUME NEW x \in T PROVE Sum(T) = f[x] + Sum(T \ {x})
      OBVIOUS
    <2>1. Pick(T) \in T /\ Sum(T) = f[Pick(T)] + Sum(T \ {Pick(T)})
      BY <1>1, SumFirst
    <2>2. PICK p \in T : Sum(T) = f[p] + Sum(T \ {p})
      BY <2>1
    <2>3. CASE p = x
      BY <2>2, <2>3
    <2>4. CASE p # x
      <3>1. Sum(T \ {p}) = f[x] + Sum((T \ {p}) \ {x}) /\ Sum(T \ {x}) = f[p] + Sum((T \ {x}) \ {p})
        BY <1>2, <2>4
      <3>2. PICK U \in SUBSET S : U = (T \ {p}) \ {x} /\ U = (T \ {x}) \ {p}
        OBVIOUS
      <3>3. f[p] \in Int /\ f[x] \in Int /\ Sum(U) \in Int
        BY <1>1
      <3> HIDE DEF Sum
      <3>4. Sum(T) = f[p] + (f[x] + Sum(U)) /\ Sum(T \ {x}) = f[p] + Sum(U)
        BY <2>2, <3>1, <3>2
      <3>5. QED BY <3>3, <3>4
    <2>5. QED BY <2>3, <2>4
  <1>3. S \in Good
    <2> HIDE DEF Good
    <2>1. QED BY <1>2, Descent
  <1>4. QED BY <1>3

LEMMA SumAdd ==
  ASSUME NEW S, IsFiniteSet(S), NEW x, x \notin S, NEW f, \A y \in S \cup {x} : f[y] \in Int
  PROVE  SumFunctionOnSet(f, S \cup {x}) = f[x] + SumFunctionOnSet(f, S)
  <1>1. IsFiniteSet(S \cup {x}) /\ (S \cup {x}) \ {x} = S
    BY FS_AddElement
  <1>2. QED BY <1>1, SumRemove

-----------------------------------------------------------------------------
LEMMA SumLinear ==
  ASSUME NEW S, IsFiniteSet(S), NEW f, NEW g, NEW h, NEW k \in Int,
         \A x \in S : f[x] \in Int /\ g[x] \in Int /\ h[x] = f[x] + k * g[x]
  PROVE  SumFunctionOnSet(h, S) = SumFunctionOnSet(f, S) + k * SumFunctionOnSet(g, S)
  <1> DEFINE F(T) == SumFunctionOnSet(f, T)
             G(T) == SumFunctionOnSet(g, T)
             H(T) == SumFunctionOnSet(h, T)
             Good == {T \in SUBSET S : H(T) = F(T) + k * G(T)}
  <1>1. \A T \in SUBSET S : F(T) \in Int /\ G(T) \in Int
    <2> SUFFICES ASSUME NEW T \in SUBSET S PROVE F(T) \in Int /\ G(T) \in Int
      OBVIOUS
    <2>1. IsFiniteSet(T)
      BY FS_Subset
    <2>2. QED BY <2>1, SumInt
  <1>2. \A x \in S : h[x] \in Int
    OBVIOUS
  <1>3. {} \in Good
    BY SumEmpty
  <1>4. ASSUME NEW T \in SUBSET S, NEW x \in S \ T, T \in Good PROVE T \cup {x} \in Good
    <2>1. IsFiniteSet(T)
      BY FS_Subset
    <2>2. F(T \cup {x}) = f[x] + F(T) /\ G(T \cup {x}) = g[x] + G(T) /\ H(T \cup {x}) = h[x] + H(T)
      BY <1>2, <2>1, SumAdd
    <2>3. PICK a \in Int, b \in Int, c \in Int, d \in Int :
            a = f[x] /\ b = g[x] /\ c = F(T) /\ d = G(T)
      BY <1>1
    <2>4. H(T) = c + k * d /\ h[x] = a + k * b
      BY <1>4, <2>3
    <2> HIDE DEF F, G, H
    <2>5. H(T \cup {x}) = (a + k * b) + (c + k * d)
      BY <2>2, <2>4
    <2>6. k * (b + d) = k * b + k * d
      BY <2>3
    <2>7. F(T \cup {x}) + k * G(T \cup {x}) = (a + c) + k * (b + d)
      BY <2>2, <2>3
    <2>8. H(T \cup {x}) = F(T \cup {x}) + k * G(T \cup {x})
      BY <2>3, <2>5, <2>6, <2>7
    <2>9. QED BY <2>8
  <1>5. S \in Good
    <2> HIDE DEF Good
    <2>1. QED BY <1>3, <1>4, SetInduction
  <1>6. QED BY <1>5

LEMMA SumMonotone ==
  ASSUME NEW S, IsFiniteSet(S), NEW f, NEW g,
         \A x \in S : f[x] \in Int /\ g[x] \in Int /\ f[x] <= g[x]
  PROVE  SumFunctionOnSet(f, S) <= SumFunctionOnSet(g, S)
  <1> DEFINE F(T) == SumFunctionOnSet(f, T)
             G(T) == SumFunctionOnSet(g, T)
             Good == {T \in SUBSET S : F(T) <= G(T)}
  <1>1. \A T \in SUBSET S : F(T) \in Int /\ G(T) \in Int
    <2> SUFFICES ASSUME NEW T \in SUBSET S PROVE F(T) \in Int /\ G(T) \in Int
      OBVIOUS
    <2>1. IsFiniteSet(T)
      BY FS_Subset
    <2>2. QED BY <2>1, SumInt
  <1>2. {} \in Good
    BY SumEmpty
  <1>3. ASSUME NEW T \in SUBSET S, NEW x \in S \ T, T \in Good PROVE T \cup {x} \in Good
    <2>1. IsFiniteSet(T)
      BY FS_Subset
    <2>2. F(T \cup {x}) = f[x] + F(T) /\ G(T \cup {x}) = g[x] + G(T)
      BY <2>1, SumAdd
    <2>3. f[x] + F(T) <= g[x] + G(T)
      <3>1. f[x] \in Int /\ g[x] \in Int /\ F(T) \in Int /\ G(T) \in Int /\ f[x] <= g[x] /\ F(T) <= G(T)
        BY <1>1, <1>3
      <3> HIDE DEF F, G
      <3>2. QED BY <3>1
    <2>4. QED BY <2>2, <2>3
  <1>4. S \in Good
    <2> HIDE DEF Good
    <2>1. QED BY <1>2, <1>3, SetInduction
  <1>5. QED BY <1>4

LEMMA SumZero ==
  ASSUME NEW S, IsFiniteSet(S), NEW f, \A x \in S : f[x] = 0
  PROVE  SumFunctionOnSet(f, S) = 0
  <1> DEFINE Good == {T \in SUBSET S : SumFunctionOnSet(f, T) = 0}
  <1>1. {} \in Good
    BY SumEmpty
  <1>2. ASSUME NEW T \in SUBSET S, NEW x \in S \ T, T \in Good PROVE T \cup {x} \in Good
    <2>1. IsFiniteSet(T) /\ \A y \in T \cup {x} : f[y] \in Int
      BY FS_Subset
    <2>2. SumFunctionOnSet(f, T \cup {x}) = f[x] + SumFunctionOnSet(f, T)
      BY <2>1, SumAdd
    <2>3. QED BY <1>2, <2>2
  <1>3. S \in Good
    <2> HIDE DEF Good
    <2>1. QED BY <1>1, <1>2, SetInduction
  <1>4. QED BY <1>3

LEMMA SumUnion ==
  ASSUME NEW S, IsFiniteSet(S), NEW R, IsFiniteSet(R), S \cap R = {},
         NEW f, \A x \in S \cup R : f[x] \in Int
  PROVE  SumFunctionOnSet(f, S \cup R) = SumFunctionOnSet(f, S) + SumFunctionOnSet(f, R)
  <1> DEFINE F(T) == SumFunctionOnSet(f, T)
             Good == {T \in SUBSET S : F(T \cup R) = F(T) + F(R)}
  <1>1. \A T \in SUBSET S : IsFiniteSet(T) /\ IsFiniteSet(T \cup R) /\ F(T) \in Int /\ F(R) \in Int
    <2> SUFFICES ASSUME NEW T \in SUBSET S
                 PROVE  IsFiniteSet(T) /\ IsFiniteSet(T \cup R) /\ F(T) \in Int /\ F(R) \in Int
      OBVIOUS
    <2>1. IsFiniteSet(T) /\ IsFiniteSet(T \cup R)
      BY FS_Subset, FS_Union
    <2>2. F(T) \in Int /\ F(R) \in Int
      BY <2>1, SumInt
    <2>3. QED BY <2>1, <2>2
  <1>2. {} \in Good
    <2>1. F({}) = 0 /\ {} \cup R = R /\ F(R) \in Int
      BY <1>1, SumEmpty
    <2> HIDE DEF F
    <2>2. QED BY <2>1
  <1>3. ASSUME NEW T \in SUBSET S, NEW x \in S \ T, T \in Good PROVE T \cup {x} \in Good
    <2>1. x \notin T \cup R /\ (T \cup {x}) \cup R = (T \cup R) \cup {x}
      OBVIOUS
    <2>2. F(T \cup {x}) = f[x] + F(T) /\ F((T \cup R) \cup {x}) = f[x] + F(T \cup R)
      BY <1>1, <2>1, SumAdd
    <2>3. f[x] \in Int /\ F(T) \in Int /\ F(R) \in Int /\ F(T \cup R) = F(T) + F(R)
      BY <1>1, <1>3
    <2> HIDE DEF F
    <2>4. F((T \cup {x}) \cup R) = F((T \cup R) \cup {x})
      BY <2>1
    <2>5. F((T \cup R) \cup {x}) = F(T \cup {x}) + F(R)
      BY <2>2, <2>3
    <2>6. F((T \cup {x}) \cup R) = F(T \cup {x}) + F(R)
      BY <2>4, <2>5
    <2>7. QED BY <2>6
  <1>4. S \in Good
    <2> HIDE DEF Good
    <2>1. QED BY <1>2, <1>3, SetInduction
  <1>5. QED BY <1>4

(* What lies outside of T adds what it is worth.                           *)
LEMMA SumSplit ==
  ASSUME NEW S, IsFiniteSet(S), NEW T \in SUBSET S, NEW f, \A x \in S : f[x] \in Int
  PROVE  /\ SumFunctionOnSet(f, S) = SumFunctionOnSet(f, T) + SumFunctionOnSet(f, S \ T)
         /\ SumFunctionOnSet(f, T) \in Int /\ SumFunctionOnSet(f, S \ T) \in Int
  <1>1. IsFiniteSet(T) /\ IsFiniteSet(S \ T) /\ T \cup (S \ T) = S /\ T \cap (S \ T) = {}
    BY FS_Subset
  <1>2. \A x \in T \cup (S \ T) : f[x] \in Int
    OBVIOUS
  <1>3. SumFunctionOnSet(f, T \cup (S \ T)) = SumFunctionOnSet(f, T) + SumFunctionOnSet(f, S \ T)
    BY <1>1, <1>2, SumUnion
  <1>4. SumFunctionOnSet(f, T) \in Int /\ SumFunctionOnSet(f, S \ T) \in Int
    BY <1>1, SumInt
  <1>5. QED BY <1>1, <1>3, <1>4

LEMMA SumSubset ==
  ASSUME NEW S, IsFiniteSet(S), NEW T \in SUBSET S, NEW f, \A x \in S : f[x] \in Nat
  PROVE  /\ SumFunctionOnSet(f, T) \in Nat
         /\ SumFunctionOnSet(f, T) <= SumFunctionOnSet(f, S)
  <1> DEFINE zero == [x \in S |-> 0]
  <1>1. IsFiniteSet(T) /\ IsFiniteSet(S \ T)
    BY FS_Subset
  <1>2. SumFunctionOnSet(zero, T) = 0 /\ SumFunctionOnSet(zero, S \ T) = 0
    BY <1>1, SumZero
  <1>3. SumFunctionOnSet(zero, T) <= SumFunctionOnSet(f, T)
    BY <1>1, SumMonotone
  <1>4. SumFunctionOnSet(zero, S \ T) <= SumFunctionOnSet(f, S \ T)
    BY <1>1, SumMonotone
  <1>5. /\ SumFunctionOnSet(f, S) = SumFunctionOnSet(f, T) + SumFunctionOnSet(f, S \ T)
        /\ SumFunctionOnSet(f, T) \in Int /\ SumFunctionOnSet(f, S \ T) \in Int
    BY SumSplit
  <1>6. QED BY <1>2, <1>3, <1>4, <1>5

LEMMA SumRest ==
  ASSUME NEW S, IsFiniteSet(S), NEW T \in SUBSET S, NEW f,
         \A x \in S : f[x] \in Int, \A x \in S \ T : f[x] = 0
  PROVE  SumFunctionOnSet(f, T) = SumFunctionOnSet(f, S)
  <1>1. IsFiniteSet(S \ T)
    BY FS_Subset
  <1>2. SumFunctionOnSet(f, S \ T) = 0
    BY <1>1, SumZero
  <1>3. QED BY <1>2, SumSplit

LEMMA FiniteImage ==
  ASSUME NEW S, IsFiniteSet(S), NEW b
  PROVE  IsFiniteSet({b[x] : x \in S})
  <1> DEFINE T == {b[x] : x \in S}
  <1>1. [x \in S |-> b[x]] \in Surjection(S, T)
    BY DEF Surjection
  <1> HIDE DEF T
  <1>2. IsFiniteSet(T)
    BY <1>1, FS_Surjection
  <1>3. QED BY <1>2 DEF T

(* A sum over the images of an injective map.                              *)
LEMMA SumImage ==
  ASSUME NEW S, IsFiniteSet(S), NEW b, \A x, y \in S : b[x] = b[y] => x = y,
         NEW f, NEW g, \A x \in S : f[b[x]] = g[x] /\ g[x] \in Int
  PROVE  /\ IsFiniteSet({b[x] : x \in S})
         /\ SumFunctionOnSet(f, {b[x] : x \in S}) = SumFunctionOnSet(g, S)
  <1> DEFINE Im(T) == {b[x] : x \in T}
             Good == {T \in SUBSET S : /\ IsFiniteSet(Im(T))
                                        /\ SumFunctionOnSet(f, Im(T)) = SumFunctionOnSet(g, T)}
  <1>1. {} \in Good
    <2>1. Im({}) = {}
      OBVIOUS
    <2>2. QED BY <2>1, SumEmpty, FS_EmptySet
  <1>2. ASSUME NEW T \in SUBSET S, NEW x \in S \ T, T \in Good PROVE T \cup {x} \in Good
    <2>1. Im(T \cup {x}) = Im(T) \cup {b[x]} /\ b[x] \notin Im(T)
      OBVIOUS
    <2>2. IsFiniteSet(T) /\ IsFiniteSet(Im(T))
      BY <1>2, FS_Subset
    <2>3. IsFiniteSet(Im(T) \cup {b[x]})
      BY <2>2, FS_AddElement
    <2>4. \A y \in Im(T) \cup {b[x]} : f[y] \in Int
      OBVIOUS
    <2>5. SumFunctionOnSet(f, Im(T) \cup {b[x]}) = f[b[x]] + SumFunctionOnSet(f, Im(T))
      <3> HIDE DEF Im
      <3>1. QED BY <2>1, <2>2, <2>4, SumAdd
    <2>6. SumFunctionOnSet(g, T \cup {x}) = g[x] + SumFunctionOnSet(g, T)
      BY <2>2, SumAdd
    <2>7. f[b[x]] = g[x]
      OBVIOUS
    <2> HIDE DEF Im
    <2>8. QED BY <1>2, <2>1, <2>3, <2>5, <2>6, <2>7
  <1>3. S \in Good
    <2> HIDE DEF Good
    <2>1. QED BY <1>1, <1>2, SetInduction
  <1>4. QED BY <1>3

(* An element of the greatest value.                                       *)
LEMMA Greatest ==
  ASSUME NEW S, IsFiniteSet(S), S # {}, NEW f, \A x \in S : f[x] \in Int
  PROVE  \E x \in S : \A y \in S : f[y] <= f[x]
  <1> DEFINE Good == {T \in SUBSET S : T # {} => \E x \in T : \A y \in T : f[y] <= f[x]}
  <1>1. {} \in Good
    OBVIOUS
  <1>2. ASSUME NEW T \in SUBSET S, NEW x \in S \ T, T \in Good PROVE T \cup {x} \in Good
    <2>1. CASE T = {}
      BY <2>1
    <2>2. CASE T # {}
      <3>1. PICK z \in T : \A y \in T : f[y] <= f[z]
        BY <1>2, <2>2
      <3>2. f[z] \in Int /\ f[x] \in Int /\ \A y \in T : f[y] \in Int
        OBVIOUS
      <3>3. CASE f[x] <= f[z]
        BY <3>1, <3>3
      <3>4. CASE f[z] <= f[x]
        <4>1. \A y \in T \cup {x} : f[y] <= f[x]
          BY <3>1, <3>2, <3>4
        <4>2. QED BY <4>1
      <3>5. QED BY <3>2, <3>3, <3>4
    <2>3. QED BY <2>1, <2>2
  <1>3. S \in Good
    <2> HIDE DEF Good
    <2>1. QED BY <1>1, <1>2, SetInduction
  <1>4. QED BY <1>3

LEMMA SumOver ==
  ASSUME NEW S, IsFiniteSet(S), NEW f, NEW g, DOMAIN f = S, \A x \in S : f[x] = g[x]
  PROVE  SumFunction(f) = SumFunctionOnSet(g, S)
  BY SumCong DEF SumFunction

LEMMA SumOne ==
  ASSUME NEW x, NEW f, f[x] \in Int
  PROVE  SumFunctionOnSet(f, {x}) = f[x]
  <1>1. SumFunctionOnSet(f, {} \cup {x}) = f[x] + SumFunctionOnSet(f, {})
    BY SumAdd, FS_EmptySet
  <1>2. {} \cup {x} = {x}
    OBVIOUS
  <1>3. QED BY <1>1, <1>2, SumEmpty

-----------------------------------------------------------------------------
LEMMA DivMod ==
  ASSUME NEW n \in Int, NEW d \in Nat \ {0}
  PROVE  n \div d \in Int /\ n % d \in 0..(d - 1) /\ n = d * (n \div d) + (n % d)
  OBVIOUS

LEMMA RoundNear ==
  ASSUME NEW n \in Int, NEW d \in Nat \ {0}
  PROVE  /\ RoundHalfEven(n, d) \in Int
         /\ Abs(2 * (n - d * RoundHalfEven(n, d))) <= d
  <1>1. PICK q \in Int, r \in 0..(d - 1) : q = n \div d /\ r = n % d /\ n = d * q + r
    BY DivMod
  <1>2. RoundHalfEven(n, d) \in {q, q + 1} /\ (RoundHalfEven(n, d) = q => 2 * r <= d)
          /\ (RoundHalfEven(n, d) = q + 1 => 2 * r >= d)
    BY <1>1 DEF RoundHalfEven
  <1>3. PICK m \in Int : m = d * q
    OBVIOUS
  <1>4. d * (q + 1) = m + d
    BY <1>3
  <1>5. CASE RoundHalfEven(n, d) = q
    <2>1. d * RoundHalfEven(n, d) = m /\ 2 * r <= d /\ n = m + r
      BY <1>1, <1>2, <1>3, <1>5
    <2>2. QED BY <1>5, <2>1 DEF Abs
  <1>6. CASE RoundHalfEven(n, d) = q + 1
    <2>1. d * RoundHalfEven(n, d) = m + d
      BY <1>4, <1>6
    <2>2. 2 * r >= d /\ n = m + r
      BY <1>1, <1>2, <1>3, <1>6
    <2>3. n - (m + d) = r - d
      BY <2>2
    <2>4. QED BY <1>6, <2>1, <2>2, <2>3 DEF Abs
  <1>7. QED BY <1>2, <1>5, <1>6

LEMMA RoundZero ==
  ASSUME NEW n \in Int, NEW d \in Nat \ {0}, Abs(2 * n) <= d
  PROVE  RoundHalfEven(n, d) = 0
  <1>1. PICK q \in Int, r \in 0..(d - 1) : q = n \div d /\ r = n % d /\ n = d * q + r
    BY DivMod
  <1>2. CASE n >= 0
    <2>1. q = 0 /\ r = n
      BY <1>1, <1>2 DEF Abs
    <2>2. QED BY <1>1, <1>2, <2>1 DEF RoundHalfEven, Abs
  <1>3. CASE n < 0
    <2>1. q = -1 /\ r = n + d
      BY <1>1, <1>3 DEF Abs
    <2>2. QED BY <1>1, <1>3, <2>1 DEF RoundHalfEven, Abs
  <1>4. QED BY <1>2, <1>3
=============================================================================
