--------------------------- MODULE AirtimeProofs ---------------------------
(***************************************************************************)
(* What TLAPS proves of the governor's operators, for every governor, time *)
(* and frame: what asking, answering and recording leave and what an       *)
(* answer says of the limits.                                              *)
(***************************************************************************)
EXTENDS Airtime, FiniteSetsExt, FiniteSetTheorems, WellFoundedInduction, TLAPS

-----------------------------------------------------------------------------
(* Induction over the naturals and over finite sets, stated about sets so   *)
(* that it can be cited, and what it gives: the sum of a function over a    *)
(* finite set adds up the same however the set is taken apart.              *)

(* A set of natural numbers that is not empty has a least element.          *)
LEMMA NatLeast ==
  ASSUME NEW T \in SUBSET Nat, T # {}
  PROVE  \E x \in T : \A y \in T : x <= y
<1> DEFINE R == OpToRel(<, Nat)
<1>1. IsWellFoundedOn(R, Nat)
  BY NatLessThanWellFounded
<1>2. \A x, y \in Nat : x < y => <<x, y>> \in R
  BY DEF OpToRel
<1> HIDE DEF R
<1>3. PICK x \in T : \A y \in T : ~ (<<y, x>> \in R)
  BY <1>1, WFMin
<1>4. ASSUME NEW y \in T  PROVE x <= y
  <2>1. x \in Nat /\ y \in Nat /\ ~ (y < x)
    BY <1>2, <1>3
  <2> QED  BY <2>1
<1> QED  BY <1>4

(* Induction over the naturals.                                             *)
LEMMA NatByInduction ==
  ASSUME NEW T \in SUBSET Nat, 0 \in T, \A n \in T : n + 1 \in T
  PROVE  T = Nat
<1> SUFFICES ASSUME Nat \ T # {}  PROVE FALSE
  OBVIOUS
<1>1. PICK x \in Nat \ T : \A y \in Nat \ T : x <= y
  BY NatLeast
<1>2. x # 0 /\ x - 1 \in Nat
  BY <1>1
<1>3. x - 1 \in T
  BY <1>1, <1>2
<1> QED  BY <1>2, <1>3

(* Induction over a finite set: what holds of the empty set, and of a set   *)
(* with an element more, holds of the whole.                                *)
LEMMA FiniteByInduction ==
  ASSUME NEW S, IsFiniteSet(S), NEW T \in SUBSET (SUBSET S), {} \in T,
         \A s \in T : \A x \in S \ s : s \cup {x} \in T
  PROVE  S \in T
<1> DEFINE O == StrictSubsetOrdering(S)
           U == (SUBSET S) \ T
<1> SUFFICES ASSUME U # {}  PROVE FALSE
  OBVIOUS
<1>1. IsWellFoundedOn(O, SUBSET S)
  BY FS_StrictSubsetOrderingWellFounded, FS_FiniteSubsetsOfFinite
<1>2. \A s, t \in SUBSET S : s \subseteq t /\ s # t => <<s, t>> \in O
  BY DEF StrictSubsetOrdering
<1> HIDE DEF O
<1>3. PICK u \in U : \A v \in U : ~ (<<v, u>> \in O)
  BY <1>1, WFMin
<1>4. PICK x \in S : x \in u
  BY <1>3
<1>5. u \ {x} \in T
  BY <1>2, <1>3, <1>4
<1>6. (u \ {x}) \cup {x} = u
  BY <1>4
<1> QED  BY <1>3, <1>4, <1>5, <1>6

(* A finite set of natural numbers that is not empty has a greatest element. *)
LEMMA FiniteGreatest ==
  ASSUME NEW S \in SUBSET Nat, IsFiniteSet(S), S # {}
  PROVE  \E x \in S : \A y \in S : y <= x
<1> DEFINE T == {s \in SUBSET S : s = {} \/ \E x \in s : \A y \in s : y <= x}
<1>1. {} \in T
  OBVIOUS
<1>2. ASSUME NEW s \in T, NEW z \in S \ s  PROVE s \cup {z} \in T
  <2>1. CASE s = {}
    BY <2>1
  <2>2. CASE s # {}
    <3>1. PICK x \in s : \A y \in s : y <= x
      BY <2>2
    <3>2. CASE z <= x
      <4>1. \A y \in s \cup {z} : y <= x
        BY <3>1, <3>2
      <4> QED  BY <4>1
    <3>3. CASE ~ (z <= x)
      <4>1. \A y \in s \cup {z} : y <= z
        BY <3>1, <3>3
      <4> QED  BY <4>1
    <3> QED  BY <3>2, <3>3
  <2> QED  BY <2>1, <2>2
<1> HIDE DEF T
<1>3. T \in SUBSET (SUBSET S)
  BY DEF T
<1>4. S \in T
  BY <1>1, <1>2, <1>3, FiniteByInduction
<1> QED  BY <1>4 DEF T

-----------------------------------------------------------------------------
(* The sum of a function over a set, and what the fold makes of it.         *)
SumOver(w, S) == MapThenSumSet(LAMBDA x : w[x], S)

Some(s) == CHOOSE x \in s : TRUE
IsSum(g, w, S) ==
  g = [s \in SUBSET S |-> IF s = {} THEN 0 ELSE w[Some(s)] + g[s \ {Some(s)}]]

LEMMA SomeIsIn == ASSUME NEW s, s # {}  PROVE Some(s) \in s
BY DEF Some

(* What is left of a finite set without the element the fold takes.         *)
LEMMA PartOfFinite ==
  ASSUME NEW S, IsFiniteSet(S), NEW s \in SUBSET S
  PROVE  /\ IsFiniteSet(s)
         /\ Cardinality(s) \in Nat /\ Cardinality(s) <= Cardinality(S)
         /\ (Cardinality(s) = 0 => s = {})
         /\ (s # {} => s \ {Some(s)} \in SUBSET S
                        /\ Cardinality(s \ {Some(s)}) = Cardinality(s) - 1)
<1>1. IsFiniteSet(s) /\ Cardinality(s) <= Cardinality(S)
  BY FS_Subset
<1>2. Cardinality(s) \in Nat /\ (Cardinality(s) = 0 => s = {})
  BY <1>1, FS_CardinalityType, FS_EmptySet
<1>3. s # {} => Cardinality(s \ {Some(s)}) = Cardinality(s) - 1
  BY <1>1, FS_RemoveElement, SomeIsIn
<1> QED  BY <1>1, <1>2, <1>3

(* The function the fold is defined by exists.                              *)
LEMMA SumExists ==
  ASSUME NEW S, IsFiniteSet(S), NEW w
  PROVE  \E g : IsSum(g, w, S)
<1> DEFINE Small(n) == {s \in SUBSET S : Cardinality(s) <= n}
           Step(g, s) == IF s = {} THEN 0 ELSE w[Some(s)] + g[s \ {Some(s)}]
           Exists(n) == \E g : g = [s \in Small(n) |-> Step(g, s)]
           T == {n \in Nat : Exists(n)}
<1>0. \A s \in SUBSET S :
        s # {} => s \ {Some(s)} \in SUBSET S /\ Cardinality(s \ {Some(s)}) = Cardinality(s) - 1
  BY PartOfFinite
<1>1. 0 \in T
  <2> DEFINE g == [s \in Small(0) |-> 0]
  <2>1. ASSUME NEW s \in Small(0)  PROVE s = {}
    <3>1. s \in SUBSET S /\ Cardinality(s) <= 0
      OBVIOUS
    <3>2. Cardinality(s) \in Nat /\ (Cardinality(s) = 0 => s = {})
      BY PartOfFinite, <3>1
    <3> QED  BY <3>1, <3>2
  <2>2. g = [s \in Small(0) |-> Step(g, s)]
    BY <2>1
  <2>3. Exists(0)
    <3> HIDE DEF g
    <3> QED  BY <2>2
  <2> HIDE DEF Exists
  <2> QED  BY <2>3
<1>2. ASSUME NEW n \in T  PROVE n + 1 \in T
  <2>1. PICK g : g = [s \in Small(n) |-> Step(g, s)]
    <3>1. Exists(n)
      <4> HIDE DEF Exists
      <4> QED  OBVIOUS
    <3> QED  BY <3>1
  <2> DEFINE h == [s \in Small(n + 1) |-> IF s \in Small(n) THEN g[s] ELSE Step(g, s)]
  <2>2. ASSUME NEW s \in Small(n + 1)  PROVE h[s] = Step(h, s)
    <3>1. CASE s = {}
      <4>1. {} \in Small(n)
        BY FS_EmptySet
      <4> QED  BY <2>1, <3>1, <4>1
    <3>2. CASE s # {}
      <4>0. Cardinality(s) \in Nat
        BY PartOfFinite
      <4>1. s \ {Some(s)} \in Small(n) /\ s \ {Some(s)} \in Small(n + 1)
        BY <1>0, <3>2, <4>0
      <4>2. h[s \ {Some(s)}] = g[s \ {Some(s)}]
        BY <4>1
      <4>3. h[s] = Step(g, s)
        BY <2>1
      <4> QED  BY <3>2, <4>2, <4>3
    <3> QED  BY <3>1, <3>2
  <2>3. h = [s \in Small(n + 1) |-> Step(h, s)]
    BY <2>2
  <2>4. Exists(n + 1)
    <3> HIDE DEF h
    <3> QED  BY <2>3
  <2> HIDE DEF Exists
  <2> QED  BY <2>4
<1> DEFINE N == Cardinality(S)
<1>3. Exists(N)
  <2>1. T = Nat
    <3> HIDE DEF T
    <3>1. T \in SUBSET Nat
      BY DEF T
    <3> QED  BY <1>1, <1>2, <3>1, NatByInduction
  <2> HIDE DEF Exists
  <2> QED  BY <2>1, FS_CardinalityType
<1>4. Small(N) = SUBSET S
  BY PartOfFinite
<1> QED  BY <1>3, <1>4 DEF IsSum

(* ... so the sum is taken by it, whatever the expression that is summed.   *)
LEMMA SumByFold ==
  ASSUME NEW S, IsFiniteSet(S), NEW w
  PROVE  \E g : IsSum(g, w, S) /\ SumOver(w, S) = g[S]
<1> DEFINE Folds(g) == g = [s \in SUBSET S |->
                  IF s = {} THEN 0
                  ELSE LET x == CHOOSE x \in s : TRUE IN w[x] + g[s \ {x}]]
           G == CHOOSE g : Folds(g)
<1>1. SumOver(w, S) = G[S]
  BY DEF SumOver, MapThenSumSet, MapThenFoldSet
<1>2. IsSum(G, w, S)
  <2>1. \A g : Folds(g) <=> IsSum(g, w, S)
    BY DEF IsSum, Some
  <2> HIDE DEF Folds
  <2>2. \E g : Folds(g)
    BY <2>1, SumExists
  <2>3. Folds(G)
    BY <2>2
  <2> QED  BY <2>1, <2>3
<1> QED  BY <1>1, <1>2

(* The element that is taken away does not matter.                          *)
LEMMA SumAnyOrder ==
  ASSUME NEW S, IsFiniteSet(S), NEW w, \A x \in S : w[x] \in Int,
         NEW g, IsSum(g, w, S)
  PROVE  /\ g[{}] = 0
         /\ \A s \in SUBSET S : g[s] \in Int
         /\ \A s \in SUBSET S : \A x \in s : g[s] = w[x] + g[s \ {x}]
<1> DEFINE Good(s) == g[s] \in Int /\ \A x \in s : g[s] = w[x] + g[s \ {x}]
           T == {n \in Nat : \A s \in SUBSET S : Cardinality(s) <= n => Good(s)}
<1>1. g[{}] = 0
  BY DEF IsSum
<1>2. ASSUME NEW s \in SUBSET S, s # {}
      PROVE  /\ Some(s) \in s
             /\ g[s] = w[Some(s)] + g[s \ {Some(s)}]
  BY <1>2, SomeIsIn DEF IsSum
<1>3. 0 \in T
  <2>1. ASSUME NEW s \in SUBSET S, Cardinality(s) <= 0  PROVE Good(s)
    <3>1. Cardinality(s) \in Nat /\ (Cardinality(s) = 0 => s = {})
      BY PartOfFinite
    <3>2. s = {}
      BY <2>1, <3>1
    <3> QED  BY <1>1, <3>2
  <2> QED  BY <2>1
<1>4. ASSUME NEW n \in T  PROVE n + 1 \in T
  <2>0. n \in Nat /\ \A s \in SUBSET S : Cardinality(s) <= n => Good(s)
    OBVIOUS
  <2> HIDE DEF T
  <2>1. ASSUME NEW s \in SUBSET S, s # {}, Cardinality(s) <= n + 1  PROVE Good(s)
    <3>0. \A x \in s : s \ {x} \in SUBSET S /\ Cardinality(s \ {x}) <= n
      <4> TAKE x \in s
      <4>1. IsFiniteSet(s) /\ Cardinality(s) \in Nat
        BY PartOfFinite
      <4>2. Cardinality(s \ {x}) = Cardinality(s) - 1
        BY <4>1, FS_RemoveElement
      <4> QED  BY <2>0, <2>1, <4>1, <4>2
    <3> DEFINE c == Some(s)
               r == s \ {c}
    <3>1. c \in s /\ g[s] = w[c] + g[r]
      BY <1>2, <2>1
    <3> HIDE DEF c
    <3>2. r \in SUBSET S /\ Good(r)
      BY <2>0, <3>0, <3>1
    <3>3. g[s] \in Int
      BY <3>1, <3>2
    <3>4. IsFiniteSet(r) /\ Cardinality(r) \in Nat
      <4> HIDE DEF r, Good
      <4> QED  BY <3>2, PartOfFinite
    <3>5. ASSUME NEW x \in s, x # c  PROVE g[s] = w[x] + g[s \ {x}]
      <4> DEFINE q == s \ {x}
                 a == g[r \ {x}]
      <4>1. q \in SUBSET S /\ Good(q)
        BY <2>0, <3>0
      <4>2. x \in r /\ c \in q /\ q \ {c} = r \ {x}
        BY <3>1, <3>5
      <4>3. g[r] = w[x] + a
        BY <3>2, <4>2
      <4>4. g[q] = w[c] + a
        BY <4>1, <4>2
      <4>5. w[x] \in Int /\ w[c] \in Int
        BY <3>1
      <4>6. a \in Int
        <5>1. r \ {x} \in SUBSET S /\ Cardinality(r \ {x}) <= n
          <6>2. Cardinality(r \ {x}) = Cardinality(r) - 1
            BY <3>4, <4>2, FS_RemoveElement
          <6>3. Cardinality(r) <= n
            BY <3>0, <3>1
          <6> QED  BY <2>0, <3>2, <3>4, <6>2, <6>3
        <5> QED  BY <2>0, <5>1
      <4> HIDE DEF a, q
      <4> QED  BY <3>1, <4>3, <4>4, <4>5, <4>6 DEF q
    <3>6. \A x \in s : g[s] = w[x] + g[s \ {x}]
      BY <3>1, <3>5
    <3> QED  BY <3>3, <3>6
  <2>2. ASSUME NEW s \in SUBSET S, Cardinality(s) <= n + 1  PROVE Good(s)
    <3>1. CASE s = {}
      BY <1>1, <3>1
    <3> QED  BY <2>1, <2>2, <3>1
  <2> QED  BY <2>0, <2>2 DEF T
<1>5. T = Nat
  <2> HIDE DEF T
  <2>1. T \in SUBSET Nat
    BY DEF T
  <2> QED  BY <1>3, <1>4, <2>1, NatByInduction
<1>6. ASSUME NEW s \in SUBSET S  PROVE Good(s)
  <2>1. Cardinality(s) \in Nat /\ Cardinality(s) <= Cardinality(s)
    BY PartOfFinite
  <2>2. Cardinality(s) \in T
    BY <1>5, <2>1
  <2> HIDE DEF Good
  <2> QED  BY <2>1, <2>2
<1> QED  BY <1>1, <1>6

(* Whatever defines the sum over a set gives the sums over its parts.       *)
LEMMA SumOfPart ==
  ASSUME NEW S, IsFiniteSet(S), NEW w, \A x \in S : w[x] \in Int,
         NEW g, IsSum(g, w, S), NEW P \in SUBSET S
  PROVE  SumOver(w, P) = g[P]
<1>1. IsFiniteSet(P)
  BY FS_Subset
<1>2. PICK h : IsSum(h, w, P) /\ SumOver(w, P) = h[P]
  BY <1>1, SumByFold
<1> DEFINE T == {s \in SUBSET P : h[s] = g[s]}
<1>3. /\ g[{}] = 0
      /\ \A s \in SUBSET S : \A x \in s : g[s] = w[x] + g[s \ {x}]
  BY SumAnyOrder
<1>4. /\ h[{}] = 0
      /\ \A s \in SUBSET P : \A x \in s : h[s] = w[x] + h[s \ {x}]
  BY <1>1, <1>2, SumAnyOrder
<1>5. {} \in T
  BY <1>3, <1>4
<1>6. ASSUME NEW s \in T, NEW x \in P \ s  PROVE s \cup {x} \in T
  <2>1. (s \cup {x}) \ {x} = s
    OBVIOUS
  <2>2. h[s \cup {x}] = w[x] + h[s]
    BY <1>4, <2>1
  <2>3. g[s \cup {x}] = w[x] + g[s]
    BY <1>3, <2>1
  <2> QED  BY <2>2, <2>3
<1>7. P \in T
  <2> HIDE DEF T
  <2>1. T \in SUBSET (SUBSET P)
    BY DEF T
  <2> QED  BY <1>1, <1>5, <1>6, <2>1, FiniteByInduction
<1> QED  BY <1>2, <1>7

LEMMA SumEmpty ==
  ASSUME NEW w
  PROVE  SumOver(w, {}) = 0
<1>1. PICK g : IsSum(g, w, {}) /\ SumOver(w, {}) = g[{}]
  BY SumByFold, FS_EmptySet
<1> QED  BY <1>1 DEF IsSum

LEMMA SumIsInt ==
  ASSUME NEW S, IsFiniteSet(S), NEW w, \A x \in S : w[x] \in Int
  PROVE  SumOver(w, S) \in Int
<1>1. PICK g : IsSum(g, w, S) /\ SumOver(w, S) = g[S]
  BY SumByFold
<1> QED  BY <1>1, SumAnyOrder

(* An element more adds its share.                                          *)
LEMMA SumAdd ==
  ASSUME NEW S, IsFiniteSet(S), NEW x, x \notin S,
         NEW w, \A y \in S \cup {x} : w[y] \in Int
  PROVE  SumOver(w, S \cup {x}) = SumOver(w, S) + w[x]
<1> DEFINE U == S \cup {x}
<1>1. IsFiniteSet(U) /\ U \ {x} = S
  BY FS_AddElement
<1>2. \A y \in U : w[y] \in Int
  OBVIOUS
<1>3. S \in SUBSET U /\ U \in SUBSET U /\ x \in U
  OBVIOUS
<1> HIDE DEF U
<1>4. PICK g : IsSum(g, w, U)
  BY <1>1, SumExists
<1>5. SumOver(w, S) = g[S] /\ SumOver(w, U) = g[U]
  BY <1>1, <1>2, <1>3, <1>4, SumOfPart
<1>6. g[U] = w[x] + g[U \ {x}] /\ g[S] \in Int /\ w[x] \in Int
  BY <1>1, <1>2, <1>3, <1>4, SumAnyOrder
<1>7. SumOver(w, U) = SumOver(w, S) + w[x]
  <2>1. g[U \ {x}] = g[S]
    BY <1>1
  <2> QED  BY <1>5, <1>6, <2>1
<1> QED  BY <1>7 DEF U

(* An element less takes it away.                                           *)
LEMMA SumRemove ==
  ASSUME NEW S, IsFiniteSet(S), NEW x \in S, NEW w, \A y \in S : w[y] \in Int
  PROVE  SumOver(w, S \ {x}) = SumOver(w, S) - w[x]
<1> DEFINE R == S \ {x}
<1>1. IsFiniteSet(R) /\ x \notin R /\ R \cup {x} = S
  BY FS_RemoveElement
<1>2. \A y \in R \cup {x} : w[y] \in Int
  OBVIOUS
<1>3. w[x] \in Int /\ \A y \in R : w[y] \in Int
  OBVIOUS
<1> HIDE DEF R
<1>4. SumOver(w, S) = SumOver(w, R) + w[x]
  BY <1>1, <1>2, SumAdd
<1>5. SumOver(w, R) \in Int
  BY <1>1, <1>3, SumIsInt
<1> QED  BY <1>3, <1>4, <1>5 DEF R

(* Functions that agree on a set have the same sum over it.                 *)
LEMMA SumSame ==
  ASSUME NEW S, IsFiniteSet(S), NEW w, NEW v,
         \A x \in S : w[x] \in Int /\ v[x] = w[x]
  PROVE  SumOver(v, S) = SumOver(w, S)
<1> DEFINE T == {s \in SUBSET S : SumOver(v, s) = SumOver(w, s)}
<1>1. {} \in T
  BY SumEmpty
<1>2. ASSUME NEW s \in T, NEW x \in S \ s  PROVE s \cup {x} \in T
  <2>1. IsFiniteSet(s) /\ s \in SUBSET S /\ SumOver(v, s) = SumOver(w, s)
    BY FS_Subset
  <2>2. \A y \in s \cup {x} : w[y] \in Int /\ v[y] \in Int
    BY <2>1
  <2>3. SumOver(w, s \cup {x}) = SumOver(w, s) + w[x]
    BY <2>1, <2>2, SumAdd
  <2>4. SumOver(v, s \cup {x}) = SumOver(v, s) + v[x]
    BY <2>1, <2>2, SumAdd
  <2> QED  BY <2>1, <2>3, <2>4
<1> HIDE DEF T
<1>3. T \in SUBSET (SUBSET S)
  BY DEF T
<1>4. S \in T
  BY <1>1, <1>2, <1>3, FiniteByInduction
<1> QED  BY <1>4 DEF T

(* When every positive term on one side is at most a term of its own on the *)
(* other, the one sum is at most the other.                                 *)
LEMMA SumInjected ==
  ASSUME NEW S, IsFiniteSet(S), NEW R, IsFiniteSet(R),
         NEW w, NEW v, NEW m,
         \A x \in S : w[x] \in Int,
         \A x \in S : w[x] > 0 =>
            /\ m[x] \in R
            /\ w[x] <= v[m[x]]
            /\ \A y \in S : w[y] > 0 /\ m[x] = m[y] => x = y,
         \A z \in R : v[z] \in Nat
  PROVE  SumOver(w, S) <= SumOver(v, R)
<1> DEFINE T == {s \in SUBSET S : \A r \in SUBSET R :
                   (\A x \in s : w[x] > 0 => m[x] \in r) => SumOver(w, s) <= SumOver(v, r)}
<1>1. {} \in T
  <2>1. \A r \in SUBSET R : SumOver(v, r) >= 0
    <3> DEFINE Q == {r \in SUBSET R : SumOver(v, r) >= 0}
    <3>1. {} \in Q
      BY SumEmpty
    <3>2. ASSUME NEW P \in SUBSET R  PROVE P \in Q
      <4> DEFINE QP == Q \cap SUBSET P
      <4>1. ASSUME NEW r \in QP, NEW x \in P \ r  PROVE r \cup {x} \in QP
        <5>1. IsFiniteSet(r) /\ SumOver(v, r) >= 0 /\ \A y \in r \cup {x} : v[y] \in Int
          BY FS_Subset
        <5>2. SumOver(v, r \cup {x}) = SumOver(v, r) + v[x] /\ v[x] \in Nat
          BY <5>1, SumAdd
        <5>3. SumOver(v, r) \in Int
          BY <5>1, SumIsInt
        <5> QED  BY <5>1, <5>2, <5>3
      <4> HIDE DEF Q
      <4>2. IsFiniteSet(P) /\ QP \in SUBSET (SUBSET P) /\ {} \in QP
        BY <3>1, FS_Subset
      <4>3. P \in QP
        <5> HIDE DEF QP
        <5> QED  BY <4>1, <4>2, FiniteByInduction
      <4> QED  BY <4>3
    <3> QED  BY <3>2
  <2> QED  BY <2>1, SumEmpty
<1>2. ASSUME NEW s \in T, NEW x \in S \ s  PROVE s \cup {x} \in T
  <2>1. IsFiniteSet(s) /\ s \in SUBSET S
    BY FS_Subset
  <2>2. SumOver(w, s \cup {x}) = SumOver(w, s) + w[x] /\ w[x] \in Int /\ SumOver(w, s) \in Int
    <3>1. \A y \in s \cup {x} : w[y] \in Int
      BY <2>1
    <3> QED  BY <2>1, <3>1, SumAdd, SumIsInt
  <2>3. ASSUME NEW r \in SUBSET R, \A y \in s \cup {x} : w[y] > 0 => m[y] \in r
        PROVE  SumOver(w, s \cup {x}) <= SumOver(v, r)
    <3>0. IsFiniteSet(r) /\ (\A y \in r : v[y] \in Int) /\ SumOver(v, r) \in Int
      BY FS_Subset, SumIsInt
    <3>1. CASE w[x] <= 0
      <4>1. SumOver(w, s) <= SumOver(v, r)
        BY <2>3
      <4> QED  BY <2>2, <3>0, <3>1, <4>1
    <3>2. CASE w[x] > 0
      <4> DEFINE z == m[x]
                 q == r \ {z}
      <4>1. z \in r /\ v[z] \in Nat /\ w[x] <= v[z]
        BY <2>3, <3>2
      <4>2. \A y \in s : w[y] > 0 => m[y] \in q
        BY <2>1, <2>3, <3>2
      <4>3. SumOver(w, s) <= SumOver(v, q)
        BY <4>2
      <4>4. SumOver(v, q) = SumOver(v, r) - v[z]
        <5> HIDE DEF z
        <5> QED  BY <3>0, <4>1, SumRemove
      <4> QED  BY <2>2, <3>0, <4>1, <4>3, <4>4
    <3> QED  BY <2>2, <3>1, <3>2
  <2> QED  BY <2>1, <2>3
<1> HIDE DEF T
<1>3. T \in SUBSET (SUBSET S)
  BY DEF T
<1>4. S \in T
  BY <1>1, <1>2, <1>3, FiniteByInduction
<1> QED  BY <1>4 DEF T

(* ... in particular a part of a set of natural numbers sums to no more.    *)
LEMMA SumPart ==
  ASSUME NEW R, IsFiniteSet(R), NEW S \in SUBSET R, NEW v, \A z \in R : v[z] \in Nat
  PROVE  SumOver(v, S) <= SumOver(v, R)
<1> DEFINE m == [x \in S |-> x]
<1>1. IsFiniteSet(S)
  BY FS_Subset
<1>2. \A x \in S : /\ v[x] \in Int /\ m[x] \in R
                   /\ v[x] <= v[m[x]]
                   /\ \A y \in S : m[x] = m[y] => x = y
  OBVIOUS
<1> HIDE DEF m
<1> QED  BY <1>1, <1>2, SumInjected

LEMMA SumIsNat ==
  ASSUME NEW R, IsFiniteSet(R), NEW v, \A z \in R : v[z] \in Nat
  PROVE  SumOver(v, R) \in Nat
<1>1. SumOver(v, {}) <= SumOver(v, R)
  BY FS_Subset, SumPart
<1> QED  BY <1>1, SumEmpty, SumIsInt

-----------------------------------------------------------------------------
(* Trimming forgets bursts and nothing else. *)
LEMMA TrimKeeps ==
  ASSUME NEW g \in Governors, NEW t \in Nat
  PROVE  /\ Trim(g, t) \in Governors
         /\ Trim(g, t).last = g.last
         /\ Trim(g, t).run = g.run
         /\ Trim(g, t).cooling = g.cooling
<1>1. {b \in g.bursts : Since(b.end, t) <= Retention} \in SUBSET Bursts
  BY DEF Governors
<1> QED  BY <1>1 DEF Governors, Trim

(* Settling changes the run and the cooldown only, and only when the        *)
(* transmitter has rested or cooled.                                        *)
LEMMA SettleKeeps ==
  ASSUME NEW g \in Governors, NEW t \in Nat
  PROVE  /\ Settle(g, t) \in Governors
         /\ Settle(g, t).last = g.last
         /\ Settle(g, t).cooling = IF Cooling(g, t) THEN g.cooling ELSE Never
         /\ Settle(g, t).run =
              IF ~Cooling(g, t) /\ (g.cooling # Never \/ Rested(g, t)) THEN 0 ELSE g.run
<1> DEFINE h == Trim(g, t)
<1>1. /\ h \in Governors
      /\ h.last = g.last /\ h.run = g.run /\ h.cooling = g.cooling
  BY TrimKeeps
<1>2. Cooling(h, t) <=> Cooling(g, t)
  BY <1>1 DEF Cooling
<1>3. Rested(h, t) <=> Rested(g, t)
  BY <1>1 DEF Rested
<1> HIDE DEF h
<1>4. CASE Cooling(g, t)
  <2>1. Settle(g, t) = h
    BY <1>2, <1>4 DEF Settle, h
  <2> QED  BY <1>1, <1>4, <2>1
<1>5. CASE ~Cooling(g, t)
  <2> DEFINE run == IF g.cooling # Never \/ Rested(g, t) THEN 0 ELSE h.run
  <2>1. Settle(g, t) = [h EXCEPT !.cooling = Never, !.run = run]
    BY <1>1, <1>2, <1>3, <1>5 DEF Settle, h
  <2>2. run \in 0 .. MaxContinuous
    BY <1>1, AirtimeAssumption DEF Governors
  <2> QED  BY <1>1, <1>5, <2>1, <2>2 DEF Governors
<1> QED  BY <1>4, <1>5

(* An answer of "send" leaves room for the frame in the run. *)
LEMMA SendHasRoom ==
  ASSUME NEW g \in Governors, NEW duty, NEW cost \in Costs, NEW t \in Nat,
         Delay(g, duty, cost, t) = 0
  PROVE  ~Cooling(g, t) /\ ~RunFull(g.run, cost)
<1>1. CASE Cooling(g, t)
  <2>1. Delay(g, duty, cost, t) = g.cooling - t
    BY <1>1 DEF Delay
  <2> QED  BY <1>1, <2>1 DEF Cooling, Governors, Never
<1>2. CASE ~Cooling(g, t) /\ RunFull(g.run, cost)
  <2>1. Delay(g, duty, cost, t) = Larger(GapLeft(g, t), 1)
    BY <1>2 DEF Delay
  <2>2. GapLeft(g, t) \in Int
    BY AirtimeAssumption DEF GapLeft, Larger, Governors, Never
  <2> QED  BY <2>1, <2>2 DEF Larger
<1> QED  BY <1>1, <1>2

(* What recording a transmission leaves, when the run had room for it. *)
LEMMA RecordKeeps ==
  ASSUME NEW g \in Governors, NEW cost \in Costs, NEW t \in Nat,
         ~RunFull(g.run, cost)
  PROVE  LET run == (IF Rested(g, t) THEN 0 ELSE g.run) + cost
         IN /\ Record(g, cost, t) \in Governors
            /\ Record(g, cost, t).last = t + cost
            /\ Record(g, cost, t).run = run
            /\ Record(g, cost, t).cooling =
                 IF run >= MaxContinuous THEN t + cost + Cooldown ELSE g.cooling
<1> DEFINE run == (IF Rested(g, t) THEN 0 ELSE g.run) + cost
           end == t + cost
           h == [bursts |-> g.bursts \cup {[end |-> end, len |-> cost]},
                 last |-> end, run |-> run,
                 cooling |-> IF run >= MaxContinuous THEN end + Cooldown ELSE g.cooling]
<1>1. cost \in Nat /\ cost <= MaxContinuous /\ cost > 0
  BY AirtimeAssumption
<1>2. run \in 0 .. MaxContinuous
  BY <1>1, AirtimeAssumption DEF RunFull, Governors
<1>3. end \in Nat
  BY <1>1
<1>4. h.bursts \in SUBSET Bursts
  BY <1>1, <1>3 DEF Bursts, Governors
<1>5. h.cooling \in Nat \cup {Never}
  BY <1>3, AirtimeAssumption DEF Governors
<1>6. h \in Governors
  BY <1>2, <1>3, <1>4, <1>5 DEF Governors
<1>7. Record(g, cost, t) = Trim(h, t)
  BY DEF Record
<1> QED  BY <1>6, <1>7, TrimKeeps

(* Settling forgets the bursts that are in no window any more, and so shows *)
(* the same in every window.                                                *)
LEMMA SettleForgets ==
  ASSUME NEW g \in Governors, NEW t \in Nat
  PROVE  Settle(g, t).bursts = {b \in g.bursts : Since(b.end, t) <= Retention}
<1> DEFINE h == Trim(g, t)
<1>1. h \in Governors /\ h.bursts = {b \in g.bursts : Since(b.end, t) <= Retention}
  BY TrimKeeps DEF Trim, Governors
<1> HIDE DEF h
<1>2. CASE Cooling(h, t)
  <2>1. Settle(g, t) = h
    BY <1>2 DEF Settle, h
  <2> QED  BY <1>1, <2>1
<1>3. CASE ~Cooling(h, t)
  <2> DEFINE run == IF h.cooling # Never \/ Rested(h, t) THEN 0 ELSE h.run
  <2>1. Settle(g, t) = [h EXCEPT !.cooling = Never, !.run = run]
    BY <1>1, <1>3 DEF Settle, h, Governors
  <2> QED  BY <1>1, <2>1 DEF Governors
<1> QED  BY <1>2, <1>3

LEMMA SpansAreRetained ==
  /\ Window \in Nat /\ HourWindow \in Nat /\ Retention \in Nat
  /\ Window <= Retention /\ HourWindow <= Retention
BY AirtimeAssumption DEF Retention, Larger, HourWindow

LEMMA SettleSeesTheSame ==
  ASSUME NEW g \in Governors, NEW t \in Nat, NEW span \in Nat, span <= Retention
  PROVE  Live(Settle(g, t), t, span) = Live(g, t, span)
<1>1. Settle(g, t).bursts = {b \in g.bursts : Since(b.end, t) <= Retention}
  BY SettleForgets
<1>2. Retention \in Nat
  BY AirtimeAssumption DEF Retention, Larger, HourWindow
<1>3. \A b \in g.bursts : Since(b.end, t) \in Nat
  BY DEF Since, Larger, Governors, Bursts
<1> QED  BY <1>1, <1>2, <1>3 DEF Live

(* A deferral for the duty window or the budget is never of no time.        *)
LEMMA RetryTakesTime ==
  ASSUME NEW g \in Governors, NEW t \in Nat, NEW span \in Nat, NEW allowed, NEW cost
  PROVE  RetryDelay(g, t, span, allowed, cost) \in Nat \ {0}
<1> DEFINE live == Live(g, t, span)
           after(x) == {b \in live : b.end > x}
           room == {x \in {b.end : b \in live} : Airtime(after(x)) + cost <= allowed}
<1>1. CASE room = {}
  <2>1. RetryDelay(g, t, span, allowed, cost) = Larger(Smaller(span, MaxBackoff), MinDelay)
    BY <1>1 DEF RetryDelay
  <2> QED  BY <2>1, AirtimeAssumption DEF Larger, Smaller
<1>2. CASE room # {}
  <2>1. RetryDelay(g, t, span, allowed, cost)
          = Larger(Since(t, Min(room) + span), MinDelay)
    BY <1>2 DEF RetryDelay
  <2>2. Min(room) \in Nat
    <3>1. room \in SUBSET Nat
      BY DEF Live, Governors, Bursts
    <3> HIDE DEF room
    <3>2. PICK x \in room : \A y \in room : x <= y
      BY <1>2, <3>1, NatLeast
    <3> QED  BY <3>1, <3>2 DEF Min
  <2> HIDE DEF room
  <2> QED  BY <2>1, <2>2, AirtimeAssumption DEF Larger, Since
<1> QED  BY <1>1, <1>2

(* The order in which the limits are asked.                                 *)
LEMMA DelayInOrder ==
  ASSUME NEW g, NEW duty, NEW cost, NEW t
  PROVE  IF Cooling(g, t) THEN Delay(g, duty, cost, t) = g.cooling - t
         ELSE IF RunFull(g.run, cost)
              THEN Delay(g, duty, cost, t) = Larger(GapLeft(g, t), 1)
         ELSE IF DutySpent(g, duty, cost, t)
              THEN Delay(g, duty, cost, t)
                     = RetryDelay(g, t, Window, Allowance(duty), cost)
         ELSE IF HourSpent(g, cost, t)
              THEN Delay(g, duty, cost, t)
                     = RetryDelay(g, t, HourWindow, HourBudget, cost)
         ELSE Delay(g, duty, cost, t) = 0
<1>1. CASE Cooling(g, t)
  BY <1>1 DEF Delay
<1>2. CASE ~Cooling(g, t) /\ RunFull(g.run, cost)
  BY <1>2 DEF Delay
<1>3. CASE ~Cooling(g, t) /\ ~RunFull(g.run, cost) /\ DutySpent(g, duty, cost, t)
  BY <1>3 DEF Delay
<1>4. CASE /\ ~Cooling(g, t) /\ ~RunFull(g.run, cost) /\ ~DutySpent(g, duty, cost, t)
           /\ HourSpent(g, cost, t)
  BY <1>4 DEF Delay
<1>5. CASE /\ ~Cooling(g, t) /\ ~RunFull(g.run, cost) /\ ~DutySpent(g, duty, cost, t)
           /\ ~HourSpent(g, cost, t)
  BY <1>5 DEF Delay
<1> QED  BY <1>1, <1>2, <1>3, <1>4, <1>5

(* An answer of "send" leaves room in every window.                         *)
LEMMA SendIsWithinLimits ==
  ASSUME NEW g \in Governors, NEW duty, NEW cost \in Costs, NEW t \in Nat,
         Delay(g, duty, cost, t) = 0
  PROVE  ~DutySpent(g, duty, cost, t) /\ ~HourSpent(g, cost, t)
<1>1. ~Cooling(g, t) /\ ~RunFull(g.run, cost)
  BY SendHasRoom
<1>2. /\ RetryDelay(g, t, Window, Allowance(duty), cost) # 0
      /\ RetryDelay(g, t, HourWindow, HourBudget, cost) # 0
  BY RetryTakesTime, SpansAreRetained
<1> QED  BY <1>1, <1>2, DelayInOrder

(* The answer of a settled governor is a time to wait.                      *)
LEMMA DelayIsNat ==
  ASSUME NEW g \in Governors, NEW duty, NEW cost, NEW t \in Nat
  PROVE  Delay(g, duty, cost, t) \in Nat
<1>1. RetryDelay(g, t, Window, Allowance(duty), cost) \in Nat
  BY RetryTakesTime, SpansAreRetained
<1>2. RetryDelay(g, t, HourWindow, HourBudget, cost) \in Nat
  BY RetryTakesTime, SpansAreRetained
<1>3. Larger(GapLeft(g, t), 1) \in Nat
  BY AirtimeAssumption DEF GapLeft, Larger, Governors, Never
<1>4. Cooling(g, t) => g.cooling - t \in Nat
  BY DEF Cooling, Governors, Never
<1> QED  BY <1>1, <1>2, <1>3, <1>4, DelayInOrder
=============================================================================
