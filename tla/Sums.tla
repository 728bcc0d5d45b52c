-------------------------------- MODULE Sums --------------------------------
(***************************************************************************)
(* Sums over finite sets, as SumFunction and SumFunctionOnSet compute them.*)
(***************************************************************************)
EXTENDS Integers, FiniteSets, Functions, FiniteSetTheorems, WellFoundedInduction, TLAPS

\* Induction, for a set of numbers.
LEMMA NatSetInduction ==
  ASSUME NEW T, T \subseteq Nat, 0 \in T, \A n \in T : n + 1 \in T
  PROVE  Nat \subseteq T
<1> DEFINE R == OpToRel(<, Nat)
<1>1. SUFFICES ASSUME Nat \ T # {} PROVE FALSE
  OBVIOUS
<1>2. PICK m \in Nat \ T : \A n \in Nat \ T : <<n, m>> \notin R
  BY ONLY <1>1, WFMin, NatLessThanWellFounded, Nat \ T \subseteq Nat
<1>3. \A n \in Nat : n < m => n \in T
  BY <1>2 DEF OpToRel
<1>4. m \in Nat /\ m \notin T /\ m # 0
  BY <1>2
<1>5. m - 1 \in Nat /\ m - 1 < m
  BY <1>4
<1>6. m - 1 \in T
  BY <1>3, <1>5
<1>7. (m - 1) + 1 \in T
  BY <1>6
<1> QED
  BY <1>4, <1>7

AnyOf(s) == CHOOSE x \in s : TRUE

\* What the sum over s is, from the sums g of smaller sets.
SumStep(f, g, s) == IF s = {} THEN 0 ELSE f[AnyOf(s)] + g[s \ {AnyOf(s)}]

SumsBelow(f, S) == CHOOSE g : g = [s \in SUBSET S |-> SumStep(f, g, s)]

LEMMA SumIsRecursive ==
  ASSUME NEW f, NEW S
  PROVE  SumFunctionOnSet(f, S) = SumsBelow(f, S)[S]
BY DEF SumFunctionOnSet, FoldFunctionOnSet, MapThenFoldSet, SumsBelow, SumStep, AnyOf

LEMMA SmallerSet ==
  ASSUME NEW S, IsFiniteSet(S), NEW x \in S
  PROVE  /\ IsFiniteSet(S \ {x})
         /\ Cardinality(S) \in Nat \ {0} /\ Cardinality(S \ {x}) = Cardinality(S) - 1
<1>1. IsFiniteSet(S \ {x}) /\ Cardinality(S \ {x}) = Cardinality(S) - 1
  BY FS_RemoveElement
<1>2. Cardinality(S) \in Nat /\ Cardinality(S \ {x}) \in Nat
  BY <1>1, FS_CardinalityType
<1> QED
  BY <1>1, <1>2

\* The recursion has a solution, one size of the subsets after the other.
LEMMA SumsExist ==
  ASSUME NEW f, NEW S, IsFiniteSet(S)
  PROVE  \A s \in SUBSET S : SumsBelow(f, S)[s] = SumStep(f, SumsBelow(f, S), s)
<1> DEFINE Small(n) == {s \in SUBSET S : Cardinality(s) <= n}
           Solved(n) == \E g : g = [s \in Small(n) |-> SumStep(f, g, s)]
           T == {n \in Nat : Solved(n)}
<1>0. \A s \in SUBSET S : IsFiniteSet(s) /\ Cardinality(s) \in Nat
  BY FS_Subset, FS_CardinalityType
<1>1. 0 \in T
  <2> DEFINE g == [s \in Small(0) |-> 0]
  <2>1. \A s \in Small(0) : s = {}
    BY <1>0, FS_EmptySet
  <2>2. g = [s \in Small(0) |-> SumStep(f, g, s)]
    BY <2>1 DEF SumStep
  <2> QED
    BY <2>2
<1>2. ASSUME NEW n \in T PROVE n + 1 \in T
  <2>1. PICK g : g = [s \in Small(n) |-> SumStep(f, g, s)]
    BY <1>2
  <2> DEFINE h == [s \in Small(n + 1) |-> SumStep(f, g, s)]
  <2>2. \A s \in Small(n + 1) : s # {} => s \ {AnyOf(s)} \in Small(n)
    <3> SUFFICES ASSUME NEW s \in Small(n + 1), s # {} PROVE s \ {AnyOf(s)} \in Small(n)
      OBVIOUS
    <3>1. AnyOf(s) \in s
      BY DEF AnyOf
    <3>2. Cardinality(s \ {AnyOf(s)}) = Cardinality(s) - 1
      BY <1>0, <3>1, SmallerSet
    <3> QED
      BY <1>0, <3>2
  <2>3. \A s \in Small(n) : s \in Small(n + 1) /\ h[s] = g[s]
    BY <1>0, <2>1
  <2>4. \A s \in Small(n + 1) : SumStep(f, g, s) = SumStep(f, h, s)
    BY <2>2, <2>3 DEF SumStep
  <2>5. h = [s \in Small(n + 1) |-> SumStep(f, h, s)]
    BY <2>4
  <2>6. Solved(n + 1)
    BY <2>5
  <2> HIDE DEF Solved
  <2> QED
    BY <2>6
<1>3. Cardinality(S) \in T
  <2>1. Nat \subseteq T
    BY ONLY <1>1, <1>2, T \subseteq Nat, NatSetInduction
  <2> QED
    BY <1>0, <2>1
<1>4. Small(Cardinality(S)) = SUBSET S
  BY FS_Subset
<1>5. \E g : g = [s \in SUBSET S |-> SumStep(f, g, s)]
  BY <1>3, <1>4
<1>6. SumsBelow(f, S) = [s \in SUBSET S |-> SumStep(f, SumsBelow(f, S), s)]
  BY <1>5 DEF SumsBelow
<1> DEFINE g == SumsBelow(f, S)
<1> HIDE DEF g
<1>7. g = [s \in SUBSET S |-> SumStep(f, g, s)]
  BY <1>6 DEF g
<1>8. \A s \in SUBSET S : g[s] = SumStep(f, g, s)
  BY ONLY <1>7
<1> QED
  BY <1>8 DEF g

\* The sum over a subset does not depend on the set it is a subset of.
LEMMA SumsAgree ==
  ASSUME NEW f, NEW S, IsFiniteSet(S), NEW s \in SUBSET S
  PROVE  SumsBelow(f, S)[s] = SumsBelow(f, s)[s]
<1> DEFINE g == SumsBelow(f, S)
           h == SumsBelow(f, s)
           T == {n \in Nat : \A t \in SUBSET s : Cardinality(t) = n => g[t] = h[t]}
<1>0. \A t \in SUBSET s : t \in SUBSET S /\ IsFiniteSet(t) /\ Cardinality(t) \in Nat
  BY FS_Subset, FS_CardinalityType
<1>1. /\ \A t \in SUBSET S : g[t] = SumStep(f, g, t)
      /\ \A t \in SUBSET s : h[t] = SumStep(f, h, t)
  BY <1>0, SumsExist
<1> HIDE DEF g, h
<1>2. 0 \in T
  BY <1>0, <1>1, FS_EmptySet DEF SumStep
<1>3. ASSUME NEW n \in T PROVE n + 1 \in T
  <2> SUFFICES ASSUME NEW t \in SUBSET s, Cardinality(t) = n + 1 PROVE g[t] = h[t]
    OBVIOUS
  <2>1. t # {} /\ AnyOf(t) \in t
    BY FS_EmptySet DEF AnyOf
  <2>2. Cardinality(t \ {AnyOf(t)}) = n
    BY <1>0, <2>1, SmallerSet
  <2>3. g[t \ {AnyOf(t)}] = h[t \ {AnyOf(t)}]
    BY <1>3, <2>2
  <2> QED
    BY <1>0, <1>1, <2>1, <2>3 DEF SumStep
<1>4. Nat \subseteq T
  BY ONLY <1>2, <1>3, T \subseteq Nat, NatSetInduction
<1>5. Cardinality(s) \in T
  BY <1>0, <1>4
<1> QED
  BY <1>5 DEF g, h

LEMMA SumEmpty ==
  ASSUME NEW f
  PROVE  SumFunctionOnSet(f, {}) = 0
<1>1. SumsBelow(f, {})[{}] = SumStep(f, SumsBelow(f, {}), {})
  BY SumsExist, FS_EmptySet
<1> QED
  BY <1>1, SumIsRecursive DEF SumStep

LEMMA SumTakesAny ==
  ASSUME NEW f, NEW S, IsFiniteSet(S), S # {}
  PROVE  /\ AnyOf(S) \in S
         /\ SumFunctionOnSet(f, S) = f[AnyOf(S)] + SumFunctionOnSet(f, S \ {AnyOf(S)})
<1>1. AnyOf(S) \in S
  BY DEF AnyOf
<1>2. SumsBelow(f, S)[S] = SumStep(f, SumsBelow(f, S), S)
  BY SumsExist
<1>3. SumsBelow(f, S)[S \ {AnyOf(S)}] = SumsBelow(f, S \ {AnyOf(S)})[S \ {AnyOf(S)}]
  BY SumsAgree
<1> QED
  BY <1>1, <1>2, <1>3, SumIsRecursive DEF SumStep

-----------------------------------------------------------------------------
(* What the proofs use. *)

\* A sum of integers is one.
LEMMA SumInt ==
  ASSUME NEW f, NEW S, IsFiniteSet(S), \A x \in S : f[x] \in Int
  PROVE  SumFunctionOnSet(f, S) \in Int
<1> DEFINE T == {n \in Nat : \A s \in SUBSET S : Cardinality(s) = n
                                => SumFunctionOnSet(f, s) \in Int}
<1>0. \A s \in SUBSET S : IsFiniteSet(s) /\ Cardinality(s) \in Nat
  BY FS_Subset, FS_CardinalityType
<1>1. 0 \in T
  BY <1>0, SumEmpty, FS_EmptySet
<1>2. ASSUME NEW n \in T PROVE n + 1 \in T
  <2> SUFFICES ASSUME NEW s \in SUBSET S, Cardinality(s) = n + 1
               PROVE  SumFunctionOnSet(f, s) \in Int
    OBVIOUS
  <2>1. s # {}
    BY FS_EmptySet
  <2>2. /\ AnyOf(s) \in s
        /\ SumFunctionOnSet(f, s) = f[AnyOf(s)] + SumFunctionOnSet(f, s \ {AnyOf(s)})
    BY <1>0, <2>1, SumTakesAny
  <2>3. Cardinality(s \ {AnyOf(s)}) = n
    BY <1>0, <2>2, SmallerSet
  <2> QED
    BY <1>2, <2>2, <2>3
<1>3. Nat \subseteq T
  BY ONLY <1>1, <1>2, T \subseteq Nat, NatSetInduction
<1> QED
  BY <1>0, <1>3

\* Any element can be taken out of a sum.
LEMMA SumTakes ==
  ASSUME NEW f, NEW S, IsFiniteSet(S), \A x \in S : f[x] \in Int, NEW a \in S
  PROVE  SumFunctionOnSet(f, S) = f[a] + SumFunctionOnSet(f, S \ {a})
<1> DEFINE T == {n \in Nat : \A s \in SUBSET S : Cardinality(s) = n =>
                   \A x \in s : SumFunctionOnSet(f, s) = f[x] + SumFunctionOnSet(f, s \ {x})}
<1>0. \A s \in SUBSET S : IsFiniteSet(s) /\ Cardinality(s) \in Nat
  BY FS_Subset, FS_CardinalityType
<1>1. 0 \in T
  BY <1>0, FS_EmptySet
<1>2. ASSUME NEW n \in T PROVE n + 1 \in T
  <2> SUFFICES ASSUME NEW s \in SUBSET S, Cardinality(s) = n + 1, NEW x \in s
               PROVE  SumFunctionOnSet(f, s) = f[x] + SumFunctionOnSet(f, s \ {x})
    OBVIOUS
  <2> DEFINE y == AnyOf(s)
  <2>1. y \in s /\ SumFunctionOnSet(f, s) = f[y] + SumFunctionOnSet(f, s \ {y})
    BY <1>0, SumTakesAny
  <2> HIDE DEF y
  <2>2. CASE x = y
    BY <2>1, <2>2
  <2>3. CASE x # y
    <3>1. Cardinality(s \ {x}) = n /\ Cardinality(s \ {y}) = n
      BY <1>0, <2>1, SmallerSet
    <3>2. SumFunctionOnSet(f, s \ {y}) = f[x] + SumFunctionOnSet(f, (s \ {y}) \ {x})
      BY <1>2, <2>1, <2>3, <3>1
    <3>3. SumFunctionOnSet(f, s \ {x}) = f[y] + SumFunctionOnSet(f, (s \ {x}) \ {y})
      BY <1>2, <2>1, <2>3, <3>1
    <3>4. (s \ {x}) \ {y} = (s \ {y}) \ {x}
      OBVIOUS
    <3>5. /\ f[x] \in Int /\ f[y] \in Int
          /\ SumFunctionOnSet(f, (s \ {y}) \ {x}) \in Int
      <4>1. IsFiniteSet((s \ {y}) \ {x})
        BY <1>0
      <4> QED
        BY <2>1, <4>1, SumInt
    <3>6. SumFunctionOnSet(f, s) = f[y] + (f[x] + SumFunctionOnSet(f, (s \ {y}) \ {x}))
      BY <2>1, <3>2
    <3>7. SumFunctionOnSet(f, s \ {x}) = f[y] + SumFunctionOnSet(f, (s \ {y}) \ {x})
      BY <3>3, <3>4
    <3> QED
      BY <3>5, <3>6, <3>7
  <2> QED
    BY <2>2, <2>3
<1>3. Nat \subseteq T
  BY ONLY <1>1, <1>2, T \subseteq Nat, NatSetInduction
<1> QED
  BY <1>0, <1>3

\* Functions that agree on a set have the same sum there.
LEMMA SumSame ==
  ASSUME NEW f, NEW g, NEW S, IsFiniteSet(S), \A x \in S : f[x] = g[x]
  PROVE  SumFunctionOnSet(f, S) = SumFunctionOnSet(g, S)
<1> DEFINE T == {n \in Nat : \A s \in SUBSET S : Cardinality(s) = n
                                => SumFunctionOnSet(f, s) = SumFunctionOnSet(g, s)}
<1>0. \A s \in SUBSET S : IsFiniteSet(s) /\ Cardinality(s) \in Nat
  BY FS_Subset, FS_CardinalityType
<1>1. 0 \in T
  BY <1>0, SumEmpty, FS_EmptySet
<1>2. ASSUME NEW n \in T PROVE n + 1 \in T
  <2> SUFFICES ASSUME NEW s \in SUBSET S, Cardinality(s) = n + 1
               PROVE  SumFunctionOnSet(f, s) = SumFunctionOnSet(g, s)
    OBVIOUS
  <2>1. s # {}
    BY FS_EmptySet
  <2>2. /\ AnyOf(s) \in s
        /\ SumFunctionOnSet(f, s) = f[AnyOf(s)] + SumFunctionOnSet(f, s \ {AnyOf(s)})
        /\ SumFunctionOnSet(g, s) = g[AnyOf(s)] + SumFunctionOnSet(g, s \ {AnyOf(s)})
    BY <1>0, <2>1, SumTakesAny
  <2>3. Cardinality(s \ {AnyOf(s)}) = n
    BY <1>0, <2>2, SmallerSet
  <2> QED
    BY <1>2, <2>2, <2>3
<1>3. Nat \subseteq T
  BY ONLY <1>1, <1>2, T \subseteq Nat, NatSetInduction
<1> QED
  BY <1>0, <1>3

\* What one term adds to a sum is what it changes by.
LEMMA SumChanges ==
  ASSUME NEW f, NEW g, NEW S, IsFiniteSet(S), NEW a \in S,
         \A x \in S : f[x] \in Int /\ g[x] \in Int, \A x \in S \ {a} : f[x] = g[x]
  PROVE  SumFunctionOnSet(g, S) = SumFunctionOnSet(f, S) - f[a] + g[a]
<1>1. IsFiniteSet(S \ {a})
  BY FS_RemoveElement
<1>2. SumFunctionOnSet(f, S \ {a}) = SumFunctionOnSet(g, S \ {a})
  BY <1>1, SumSame
<1>3. SumFunctionOnSet(f, S \ {a}) \in Int
  BY <1>1, SumInt
<1>4. /\ SumFunctionOnSet(f, S) = f[a] + SumFunctionOnSet(f, S \ {a})
      /\ SumFunctionOnSet(g, S) = g[a] + SumFunctionOnSet(g, S \ {a})
  BY SumTakes
<1> QED
  BY <1>2, <1>3, <1>4

\* Terms that are nothing count for nothing.
LEMMA SumSkips ==
  ASSUME NEW f, NEW S, IsFiniteSet(S), \A x \in S : f[x] \in Int,
         NEW R \in SUBSET S, \A x \in S \ R : f[x] = 0
  PROVE  SumFunctionOnSet(f, S) = SumFunctionOnSet(f, R)
<1> DEFINE T == {n \in Nat : \A s \in SUBSET S : (R \subseteq s /\ Cardinality(s \ R) = n)
                                => SumFunctionOnSet(f, s) = SumFunctionOnSet(f, R)}
<1>0. \A s \in SUBSET S : IsFiniteSet(s) /\ Cardinality(s) \in Nat
  BY FS_Subset, FS_CardinalityType
<1>1. 0 \in T
  <2> SUFFICES ASSUME NEW s \in SUBSET S, R \subseteq s, Cardinality(s \ R) = 0
               PROVE  s = R
    OBVIOUS
  <2>1. s \ R = {}
    BY <1>0, FS_EmptySet
  <2> QED
    BY <2>1
<1>2. ASSUME NEW n \in T PROVE n + 1 \in T
  <2> SUFFICES ASSUME NEW s \in SUBSET S, R \subseteq s, Cardinality(s \ R) = n + 1
               PROVE  SumFunctionOnSet(f, s) = SumFunctionOnSet(f, R)
    OBVIOUS
  <2>1. PICK x \in s : x \notin R
    BY FS_EmptySet
  <2>2. (s \ R) \ {x} = (s \ {x}) \ R /\ s \ R \in SUBSET S
    OBVIOUS
  <2>3. Cardinality((s \ {x}) \ R) = n
    <3>1. IsFiniteSet(s \ R) /\ x \in s \ R
      BY <1>0, <2>1
    <3>2. Cardinality((s \ R) \ {x}) = Cardinality(s \ R) - 1
      BY ONLY <3>1, SmallerSet
    <3> QED
      BY <2>2, <3>2
  <2>4. SumFunctionOnSet(f, s \ {x}) = SumFunctionOnSet(f, R)
    BY <1>2, <2>1, <2>3
  <2>5. SumFunctionOnSet(f, s) = 0 + SumFunctionOnSet(f, s \ {x})
    BY <1>0, <2>1, SumTakes
  <2>6. SumFunctionOnSet(f, R) \in Int
    BY <1>0, SumInt
  <2> QED
    BY <2>4, <2>5, <2>6
<1>3. Nat \subseteq T
  BY ONLY <1>1, <1>2, T \subseteq Nat, NatSetInduction
<1> QED
  BY <1>0, <1>3

\* A sum of amounts that are not negative is not negative.
LEMMA SumNat ==
  ASSUME NEW f, NEW S, IsFiniteSet(S), \A x \in S : f[x] \in Nat
  PROVE  SumFunctionOnSet(f, S) \in Nat
<1> DEFINE T == {n \in Nat : \A s \in SUBSET S : Cardinality(s) = n
                                => SumFunctionOnSet(f, s) \in Nat}
<1>0. \A s \in SUBSET S : IsFiniteSet(s) /\ Cardinality(s) \in Nat
  BY FS_Subset, FS_CardinalityType
<1>1. 0 \in T
  BY <1>0, SumEmpty, FS_EmptySet
<1>2. ASSUME NEW n \in T PROVE n + 1 \in T
  <2> SUFFICES ASSUME NEW s \in SUBSET S, Cardinality(s) = n + 1
               PROVE  SumFunctionOnSet(f, s) \in Nat
    OBVIOUS
  <2>1. s # {}
    BY FS_EmptySet
  <2>2. /\ AnyOf(s) \in s
        /\ SumFunctionOnSet(f, s) = f[AnyOf(s)] + SumFunctionOnSet(f, s \ {AnyOf(s)})
    BY <1>0, <2>1, SumTakesAny
  <2>3. Cardinality(s \ {AnyOf(s)}) = n
    BY <1>0, <2>2, SmallerSet
  <2> QED
    BY <1>2, <2>2, <2>3
<1>3. Nat \subseteq T
  BY ONLY <1>1, <1>2, T \subseteq Nat, NatSetInduction
<1> QED
  BY <1>0, <1>3

\* Nor is one of amounts that are not positive positive.
LEMMA SumNotPositive ==
  ASSUME NEW f, NEW S, IsFiniteSet(S), \A x \in S : f[x] \in Int /\ f[x] <= 0
  PROVE  SumFunctionOnSet(f, S) <= 0
<1> DEFINE T == {n \in Nat : \A s \in SUBSET S : Cardinality(s) = n
                                => SumFunctionOnSet(f, s) <= 0}
<1>0. \A s \in SUBSET S : IsFiniteSet(s) /\ Cardinality(s) \in Nat
  BY FS_Subset, FS_CardinalityType
<1>1. 0 \in T
  BY <1>0, SumEmpty, FS_EmptySet
<1>2. ASSUME NEW n \in T PROVE n + 1 \in T
  <2> SUFFICES ASSUME NEW s \in SUBSET S, Cardinality(s) = n + 1
               PROVE  SumFunctionOnSet(f, s) <= 0
    OBVIOUS
  <2>1. s # {}
    BY FS_EmptySet
  <2>2. /\ AnyOf(s) \in s
        /\ SumFunctionOnSet(f, s) = f[AnyOf(s)] + SumFunctionOnSet(f, s \ {AnyOf(s)})
    BY <1>0, <2>1, SumTakesAny
  <2>3. Cardinality(s \ {AnyOf(s)}) = n
    BY <1>0, <2>2, SmallerSet
  <2>4. SumFunctionOnSet(f, s \ {AnyOf(s)}) \in Int
    BY <1>0, SumInt
  <2> QED
    BY <1>2, <2>2, <2>3, <2>4
<1>3. Nat \subseteq T
  BY ONLY <1>1, <1>2, T \subseteq Nat, NatSetInduction
<1> QED
  BY <1>0, <1>3

\* Where each debit falls on a credit of its own that covers it, the credits
\* cover the debits.
LEMMA SumCovers ==
  ASSUME NEW g, NEW S, IsFiniteSet(S), \A x \in S : g[x] \in Nat,
         NEW f, NEW P, IsFiniteSet(P), \A j \in P : f[j] \in Int,
         NEW m \in [P -> S], \A j, k \in P : m[j] = m[k] => j = k,
         \A j \in P : g[m[j]] + f[j] >= 0
  PROVE  SumFunctionOnSet(g, S) + SumFunctionOnSet(f, P) >= 0
<1> DEFINE Covered(Q, R) == SumFunctionOnSet(g, R) + SumFunctionOnSet(f, Q) >= 0
           T == {n \in Nat : \A Q \in SUBSET P, R \in SUBSET S :
                   Cardinality(Q) = n /\ (\A j \in Q : m[j] \in R) => Covered(Q, R)}
<1>0. /\ \A Q \in SUBSET P : IsFiniteSet(Q) /\ Cardinality(Q) \in Nat
      /\ \A R \in SUBSET S : IsFiniteSet(R)
  BY FS_Subset, FS_CardinalityType
<1>1. 0 \in T
  <2>1. \A Q \in SUBSET P : Cardinality(Q) = 0 => Q = {}
    BY <1>0, FS_EmptySet
  <2>2. SumFunctionOnSet(f, {}) = 0 /\ \A R \in SUBSET S : SumFunctionOnSet(g, R) \in Nat
    BY <1>0, SumEmpty, SumNat
  <2> QED
    BY <2>1, <2>2
<1>2. ASSUME NEW n \in T PROVE n + 1 \in T
  <2> SUFFICES ASSUME NEW Q \in SUBSET P, NEW R \in SUBSET S,
                      Cardinality(Q) = n + 1, \A j \in Q : m[j] \in R
               PROVE  Covered(Q, R)
    OBVIOUS
  <2>1. Q # {}
    <3>1. n \in Nat /\ n + 1 # 0
      OBVIOUS
    <3>2. Cardinality(Q) # 0
      BY <3>1
    <3> QED
      BY ONLY <3>2, FS_EmptySet
  <2>2. PICK x \in Q : SumFunctionOnSet(f, Q) = f[x] + SumFunctionOnSet(f, Q \ {x})
    BY <1>0, <2>1, SumTakesAny
  <2>3. Cardinality(Q \ {x}) = n
    BY <1>0, SmallerSet
  <2>4. SumFunctionOnSet(g, R) = g[m[x]] + SumFunctionOnSet(g, R \ {m[x]})
    BY <1>0, SumTakes
  <2>5. \A j \in Q \ {x} : m[j] \in R \ {m[x]}
    OBVIOUS
  <2>6. Covered(Q \ {x}, R \ {m[x]})
    BY <1>2, <2>3, <2>5
  <2>7. /\ SumFunctionOnSet(g, R \ {m[x]}) \in Int /\ SumFunctionOnSet(f, Q \ {x}) \in Int
        /\ g[m[x]] \in Int /\ f[x] \in Int /\ g[m[x]] + f[x] >= 0
    <3>1. \A y \in R \ {m[x]} : g[y] \in Int
      OBVIOUS
    <3>2. IsFiniteSet(R \ {m[x]}) /\ IsFiniteSet(Q \ {x})
      BY <1>0
    <3>3. SumFunctionOnSet(g, R \ {m[x]}) \in Int
      BY <3>1, <3>2, SumInt
    <3>4. SumFunctionOnSet(f, Q \ {x}) \in Int
      BY <3>2, SumInt
    <3> QED
      BY <3>3, <3>4
  <2> QED
    BY <2>2, <2>4, <2>6, <2>7
<1>3. Nat \subseteq T
  BY ONLY <1>1, <1>2, T \subseteq Nat, NatSetInduction
<1>4. Covered(P, S)
  BY <1>0, <1>3
<1> QED
  BY <1>4

LEMMA SumOne ==
  ASSUME NEW f, NEW a, f[a] \in Int
  PROVE  SumFunctionOnSet(f, {a}) = f[a]
<1>1. IsFiniteSet({a}) /\ {a} \ {a} = {} /\ a \in {a}
  BY FS_Singleton
<1>2. SumFunctionOnSet(f, {a}) = f[a] + SumFunctionOnSet(f, {})
  BY <1>1, SumTakes
<1> QED
  BY <1>2, SumEmpty

\* Sums over sets that do not meet add up.
LEMMA SumUnion ==
  ASSUME NEW f, NEW A, NEW B, IsFiniteSet(A), IsFiniteSet(B), A \intersect B = {},
         \A x \in A \union B : f[x] \in Int
  PROVE  SumFunctionOnSet(f, A \union B) = SumFunctionOnSet(f, A) + SumFunctionOnSet(f, B)
<1> DEFINE T == {n \in Nat : \A a \in SUBSET A : Cardinality(a) = n =>
                   SumFunctionOnSet(f, a \union B) = SumFunctionOnSet(f, a) + SumFunctionOnSet(f, B)}
<1>0. \A a \in SUBSET A : /\ IsFiniteSet(a) /\ Cardinality(a) \in Nat /\ IsFiniteSet(a \union B)
                          /\ SumFunctionOnSet(f, a) \in Int
  <2> SUFFICES ASSUME NEW a \in SUBSET A
               PROVE  /\ IsFiniteSet(a) /\ Cardinality(a) \in Nat /\ IsFiniteSet(a \union B)
                      /\ SumFunctionOnSet(f, a) \in Int
    OBVIOUS
  <2>1. IsFiniteSet(a) /\ Cardinality(a) \in Nat
    BY FS_Subset, FS_CardinalityType
  <2>2. IsFiniteSet(a \union B)
    BY <2>1, FS_Union
  <2> QED
    BY <2>1, <2>2, SumInt
<1>1. SumFunctionOnSet(f, B) \in Int
  BY SumInt
<1>2. 0 \in T
  <2> SUFFICES ASSUME NEW a \in SUBSET A, Cardinality(a) = 0
               PROVE SumFunctionOnSet(f, a \union B) = SumFunctionOnSet(f, a) + SumFunctionOnSet(f, B)
    OBVIOUS
  <2>1. a = {} /\ a \union B = B
    BY <1>0, FS_EmptySet
  <2> QED
    BY <1>1, <2>1, SumEmpty
<1>3. ASSUME NEW n \in T PROVE n + 1 \in T
  <2> SUFFICES ASSUME NEW a \in SUBSET A, Cardinality(a) = n + 1
               PROVE SumFunctionOnSet(f, a \union B) = SumFunctionOnSet(f, a) + SumFunctionOnSet(f, B)
    OBVIOUS
  <2>1. PICK x \in a : SumFunctionOnSet(f, a) = f[x] + SumFunctionOnSet(f, a \ {x})
    <3>1. a # {}
      BY FS_EmptySet
    <3> QED
      BY <1>0, <3>1, SumTakesAny
  <2>2. Cardinality(a \ {x}) = n
    <3>1. IsFiniteSet(a) /\ x \in a
      BY <1>0
    <3>2. Cardinality(a \ {x}) = Cardinality(a) - 1
      BY ONLY <3>1, SmallerSet
    <3> QED
      BY <3>2
  <2>3. SumFunctionOnSet(f, a \union B) = f[x] + SumFunctionOnSet(f, (a \union B) \ {x})
    <3>1. IsFiniteSet(a \union B) /\ x \in a \union B /\ \A y \in a \union B : f[y] \in Int
      BY <1>0
    <3> QED
      BY ONLY <3>1, SumTakes
  <2>4. (a \union B) \ {x} = (a \ {x}) \union B
    OBVIOUS
  <2>5. SumFunctionOnSet(f, (a \ {x}) \union B) = SumFunctionOnSet(f, a \ {x}) + SumFunctionOnSet(f, B)
    BY <1>3, <2>2
  <2>6. f[x] \in Int /\ SumFunctionOnSet(f, a \ {x}) \in Int
    BY <1>0
  <2> QED
    BY <1>1, <2>1, <2>3, <2>4, <2>5, <2>6
<1>4. Nat \subseteq T
  BY ONLY <1>2, <1>3, T \subseteq Nat, NatSetInduction
<1> QED
  BY <1>0, <1>4

\* What g gives a key of K is the sum over the elements of S that have it.
Grouped(g, f, S, key, K) == \A k \in K : g[k] = SumFunctionOnSet(f, {x \in S : key[x] = k})
Keyed(S, key, K) == {x \in S : key[x] \in K}

\* A sum can be taken group by group.
LEMMA SumGroups ==
  ASSUME NEW f, NEW S, IsFiniteSet(S), \A x \in S : f[x] \in Int,
         NEW key, NEW K, IsFiniteSet(K), NEW g, Grouped(g, f, S, key, K)
  PROVE  SumFunctionOnSet(g, K) = SumFunctionOnSet(f, Keyed(S, key, K))
<1> USE DEF Grouped, Keyed
<1> DEFINE In(R) == {x \in S : key[x] \in R}
           Of(k) == {x \in S : key[x] = k}
           T == {n \in Nat : \A R \in SUBSET K : Cardinality(R) = n =>
                   SumFunctionOnSet(g, R) = SumFunctionOnSet(f, In(R))}
<1>0. \A R \in SUBSET K : IsFiniteSet(R) /\ Cardinality(R) \in Nat
  BY FS_Subset, FS_CardinalityType
<1>1. \A A \in SUBSET S : IsFiniteSet(A)
  BY FS_Subset
<1>2. 0 \in T
  <2> SUFFICES ASSUME NEW R \in SUBSET K, Cardinality(R) = 0
               PROVE  SumFunctionOnSet(g, R) = SumFunctionOnSet(f, In(R))
    OBVIOUS
  <2>1. R = {} /\ In(R) = {}
    BY <1>0, FS_EmptySet
  <2> QED
    BY <2>1, SumEmpty
<1>3. ASSUME NEW n \in T PROVE n + 1 \in T
  <2> SUFFICES ASSUME NEW R \in SUBSET K, Cardinality(R) = n + 1
               PROVE  SumFunctionOnSet(g, R) = SumFunctionOnSet(f, In(R))
    OBVIOUS
  <2>1. PICK k \in R : SumFunctionOnSet(g, R) = g[k] + SumFunctionOnSet(g, R \ {k})
    <3>1. IsFiniteSet(R) /\ R # {}
      BY <1>0, FS_EmptySet
    <3> QED
      BY ONLY <3>1, SumTakesAny
  <2>2. Cardinality(R \ {k}) = n
    <3>1. IsFiniteSet(R) /\ k \in R
      BY <1>0
    <3>2. Cardinality(R \ {k}) = Cardinality(R) - 1
      BY ONLY <3>1, SmallerSet
    <3> QED
      BY <3>2
  <2>3. SumFunctionOnSet(g, R \ {k}) = SumFunctionOnSet(f, In(R \ {k}))
    BY <1>3, <2>2
  <2>4. In(R) = Of(k) \union In(R \ {k}) /\ Of(k) \intersect In(R \ {k}) = {}
    OBVIOUS
  <2>5. SumFunctionOnSet(f, Of(k) \union In(R \ {k}))
          = SumFunctionOnSet(f, Of(k)) + SumFunctionOnSet(f, In(R \ {k}))
    <3>1. /\ IsFiniteSet(Of(k)) /\ IsFiniteSet(In(R \ {k})) /\ Of(k) \intersect In(R \ {k}) = {}
          /\ \A x \in Of(k) \union In(R \ {k}) : f[x] \in Int
      BY <1>1, <2>4
    <3> HIDE DEF Of, In
    <3> QED
      BY ONLY <3>1, SumUnion
  <2>6. g[k] = SumFunctionOnSet(f, Of(k))
    OBVIOUS
  <2> QED
    BY <2>1, <2>3, <2>4, <2>5, <2>6
<1>4. Nat \subseteq T
  BY ONLY <1>2, <1>3, T \subseteq Nat, NatSetInduction
<1> QED
  BY <1>0, <1>4

\* Amounts handed, in part, each to a place of its own that had none.
LEMMA SumMoved ==
  ASSUME NEW S, IsFiniteSet(S), NEW f, NEW g, \A x \in S : f[x] \in Int /\ g[x] \in Int,
         NEW P \in SUBSET S, NEW row \in [P -> S \ P], \A p, q \in P : row[p] = row[q] => p = q,
         \A p \in P : f[row[p]] = 0 /\ g[p] + g[row[p]] = f[p],
         \A x \in S \ P : (\A p \in P : row[p] # x) => g[x] = f[x]
  PROVE  SumFunctionOnSet(f, S) = SumFunctionOnSet(g, S)
<1> DEFINE Given(x) == \E p \in P : row[p] = x
           Giver(x) == CHOOSE p \in P : row[p] = x
           key == [x \in S |-> IF Given(x) THEN Giver(x) ELSE x]
           K == {x \in S : ~Given(x)}
           Of(k) == {x \in S : key[x] = k}
           a == [k \in K |-> SumFunctionOnSet(f, Of(k))]
           b == [k \in K |-> SumFunctionOnSet(g, Of(k))]
<1>1. \A x \in S : Given(x) => Giver(x) \in P /\ row[Giver(x)] = x
  OBVIOUS
<1>2. \A p \in P : p \in K
  OBVIOUS
<1>3. \A p \in P : Given(row[p]) /\ Giver(row[p]) = p
  OBVIOUS
<1>4. \A k \in K : Of(k) = IF k \in P THEN {k} \union {row[k]} ELSE {k}
  <2> SUFFICES ASSUME NEW k \in K, NEW x
               PROVE  x \in Of(k) <=> x = k \/ (k \in P /\ x = row[k])
    OBVIOUS
  <2> HIDE DEF Giver
  <2>1. k \in S /\ ~Given(k)
    OBVIOUS
  <2>2. key[k] = k
    BY <2>1
  <2>3. k \in P => row[k] \in S /\ key[row[k]] = k
    BY <1>3
  <2>4. ASSUME x \in S, key[x] = k PROVE x = k \/ (k \in P /\ x = row[k])
    BY <1>1, <2>4
  <2> QED
    BY <2>1, <2>2, <2>3, <2>4
<1>5. \A k \in K : a[k] = b[k]
  <2> SUFFICES ASSUME NEW k \in K PROVE SumFunctionOnSet(f, Of(k)) = SumFunctionOnSet(g, Of(k))
    OBVIOUS
  <2>1. k \in S /\ f[k] \in Int /\ g[k] \in Int
    OBVIOUS
  <2>2. SumFunctionOnSet(f, {k}) = f[k] /\ SumFunctionOnSet(g, {k}) = g[k]
    BY <2>1, SumOne
  <2>3. CASE k \in P
    <3>1. PICK r \in S \ P : r = row[k]
      BY <2>3
    <3>2. f[r] = 0 /\ g[r] \in Int /\ g[k] + g[r] = f[k] /\ f[r] \in Int
      BY <2>3, <3>1
    <3>3. SumFunctionOnSet(f, {r}) = f[r] /\ SumFunctionOnSet(g, {r}) = g[r]
      BY <3>2, SumOne
    <3>a. IsFiniteSet({k}) /\ IsFiniteSet({r})
      BY FS_Singleton
    <3>b. {k} \intersect {r} = {}
      BY <2>3, <3>1
    <3>c. /\ \A x \in {k} \union {r} : f[x] \in Int
          /\ \A x \in {k} \union {r} : g[x] \in Int
      BY ONLY <2>1, <3>2
    <3>d. SumFunctionOnSet(f, {k} \union {r}) = SumFunctionOnSet(f, {k}) + SumFunctionOnSet(f, {r})
      BY ONLY <3>a, <3>b, <3>c, SumUnion
    <3>e. SumFunctionOnSet(g, {k} \union {r}) = SumFunctionOnSet(g, {k}) + SumFunctionOnSet(g, {r})
      BY ONLY <3>a, <3>b, <3>c, SumUnion
    <3>5. /\ SumFunctionOnSet(f, {k} \union {r}) = f[k] + f[r]
          /\ SumFunctionOnSet(g, {k} \union {r}) = g[k] + g[r]
      BY ONLY <2>2, <3>3, <3>d, <3>e
    <3>6. Of(k) = {k} \union {r}
      BY <1>4, <2>3, <3>1
    <3> HIDE DEF Of
    <3>7. f[k] + f[r] = g[k] + g[r]
      BY <2>1, <3>2
    <3> QED
      BY <3>5, <3>6, <3>7
  <2>4. CASE k \notin P
    <3>1. Of(k) = {k}
      BY <1>4, <2>4
    <3>2. g[k] = f[k]
      BY <2>4
    <3> HIDE DEF Of
    <3> QED
      BY <2>2, <3>1, <3>2
  <2> QED
    BY <2>3, <2>4
<1>6. IsFiniteSet(K)
  BY FS_Subset
<1>7. Keyed(S, key, K) = S
  BY <1>1, <1>2 DEF Keyed
<1>8. Grouped(a, f, S, key, K) /\ Grouped(b, g, S, key, K)
  BY DEF Grouped
<1>i. /\ IsFiniteSet(S) /\ \A x \in S : f[x] \in Int
      /\ \A x \in S : g[x] \in Int
  OBVIOUS
<1> HIDE DEF a, b, K, key, Of
<1>9. SumFunctionOnSet(a, K) = SumFunctionOnSet(f, Keyed(S, key, K))
  BY ONLY <1>6, <1>8, <1>i, SumGroups
<1>10. SumFunctionOnSet(b, K) = SumFunctionOnSet(g, Keyed(S, key, K))
  BY ONLY <1>6, <1>8, <1>i, SumGroups
<1>11. SumFunctionOnSet(a, K) = SumFunctionOnSet(b, K)
  BY <1>5, <1>6, SumSame
<1> QED
  BY <1>7, <1>9, <1>10, <1>11

=============================================================================
