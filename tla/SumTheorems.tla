---------------------------- MODULE SumTheorems ----------------------------
(***************************************************************************)
(* Sums of integers over finite sets: SumFunctionOnSet of the community    *)
(* modules, which the models use for credits, weights and ledger deltas.   *)
(*                                                                         *)
(* The sum is a recursive function on the subsets of a set.  That it is    *)
(* one, and what it computes, is shown by minimal counterexample: strict   *)
(* inclusion is well founded on the subsets of a finite set, so a set of   *)
(* counterexamples that is not empty has a least one.                      *)
(***************************************************************************)
EXTENDS Functions, FiniteSetTheorems, WellFoundedInduction, TLAPS

LEMMA LeastSubset ==
  ASSUME NEW S, IsFiniteSet(S), NEW B \in SUBSET SUBSET S, B # {}
  PROVE  \E T \in B : \A U \in B : U \subseteq T => U = T
<1>1. IsWellFoundedOn(StrictSubsetOrdering(S), SUBSET S)
  BY FS_StrictSubsetOrderingWellFounded, FS_FiniteSubsetsOfFinite
<1>2. PICK T \in B : \A U \in B : <<U, T>> \notin StrictSubsetOrdering(S)
  BY <1>1, WFMin
<1> QED BY <1>2 DEF StrictSubsetOrdering

(* Induction along the elements of a finite set.                           *)
LEMMA SubsetsByElements ==
  ASSUME NEW S, IsFiniteSet(S), NEW G, {} \in G,
         \A T \in SUBSET S : \A x \in S \ T : T \in G => T \cup {x} \in G
  PROVE  S \in G
<1> DEFINE B == {T \in SUBSET S : T \notin G}
<1> SUFFICES ASSUME S \notin G PROVE FALSE
  OBVIOUS
<1>0. B \in SUBSET SUBSET S /\ B # {}
  OBVIOUS
<1>1. PICK T \in B : \A U \in B : U \subseteq T => U = T
  <2> HIDE DEF B
  <2> QED BY <1>0, LeastSubset
<1>2. PICK x : x \in T
  BY <1>1
<1>3. T \ {x} \in G /\ T \ {x} \in SUBSET S /\ x \in S \ (T \ {x})
  BY <1>1, <1>2
<1>4. (T \ {x}) \cup {x} = T
  BY <1>2
<1> QED BY <1>1, <1>3, <1>4

-----------------------------------------------------------------------------
(* The recursion behind the sum.                                           *)

Chosen(s) == CHOOSE x \in s : TRUE

Unrolled(f, g, s) == IF s = {} THEN 0 ELSE f[Chosen(s)] + g[s \ {Chosen(s)}]

Solves(f, g, S) == g = [s \in SUBSET S |-> Unrolled(f, g, s)]

Solution(f, S) == CHOOSE g : Solves(f, g, S)

LEMMA SumIsSolution ==
  ASSUME NEW f, NEW S
  PROVE  SumFunctionOnSet(f, S) = Solution(f, S)[S]
  BY DEF SumFunctionOnSet, FoldFunctionOnSet, MapThenFoldSet, Solution, Solves, Unrolled, Chosen

LEMMA ChosenInside ==
  ASSUME NEW s, s # {}
  PROVE  Chosen(s) \in s /\ s \ {Chosen(s)} # s /\ s \ {Chosen(s)} \subseteq s
  BY DEF Chosen

LEMMA SolutionsAgree ==
  ASSUME NEW f, NEW S, IsFiniteSet(S), NEW T, NEW g, NEW h, Solves(f, g, S), Solves(f, h, T),
         NEW u, u \subseteq S, u \subseteq T
  PROVE  g[u] = h[u]
<1> DEFINE B == {s \in SUBSET S : s \subseteq T /\ g[s] # h[s]}
<1> SUFFICES ASSUME B # {} PROVE FALSE
  OBVIOUS
<1>0. B \in SUBSET SUBSET S
  OBVIOUS
<1>1. PICK s \in B : \A r \in B : r \subseteq s => r = s
  <2> HIDE DEF B
  <2> QED BY <1>0, LeastSubset
<1>2. g[s] = Unrolled(f, g, s) /\ h[s] = Unrolled(f, h, s)
  BY <1>1 DEF Solves
<1>3. s # {} => g[s \ {Chosen(s)}] = h[s \ {Chosen(s)}]
  BY <1>1, ChosenInside
<1> QED BY <1>1, <1>2, <1>3 DEF Unrolled

LEMMA SolutionSolves ==
  ASSUME NEW f, NEW S, IsFiniteSet(S)
  PROVE  Solves(f, Solution(f, S), S)
<1> DEFINE B == {T \in SUBSET S : ~ Solves(f, Solution(f, T), T)}
<1> SUFFICES ASSUME B # {} PROVE FALSE
  OBVIOUS
<1>0. B \in SUBSET SUBSET S
  OBVIOUS
<1>1. PICK T \in B : \A U \in B : U \subseteq T => U = T
  <2> HIDE DEF B
  <2> QED BY <1>0, LeastSubset
<1> DEFINE V(s) == Solution(f, s)[s]
           g == [s \in SUBSET T |-> IF s = {} THEN 0
                                     ELSE f[Chosen(s)] + V(s \ {Chosen(s)})]
<1>2. ASSUME NEW s \in SUBSET T, s # T
      PROVE  V(s) = g[s]
  <2>1. Solves(f, Solution(f, s), s)
    BY <1>1, <1>2
  <2>2. V(s) = Unrolled(f, Solution(f, s), s)
    BY <2>1 DEF Solves
  <2>3. CASE s = {}
    BY <2>2, <2>3 DEF Unrolled
  <2>4. CASE s # {}
    <3> DEFINE r == s \ {Chosen(s)}
    <3>1. r \subseteq s /\ r # T /\ r \in SUBSET T
      BY <1>2, <2>4, ChosenInside
    <3>2. Solves(f, Solution(f, r), r)
      BY <1>1, <3>1
    <3>3. IsFiniteSet(s)
      BY <1>1, FS_Subset
    <3>4. Solution(f, s)[r] = Solution(f, r)[r]
      <4> HIDE DEF r
      <4> QED BY <2>1, <3>1, <3>2, <3>3, SolutionsAgree
    <3>5. V(s) = f[Chosen(s)] + Solution(f, s)[r]
      BY <2>2, <2>4 DEF Unrolled
    <3> QED BY <2>4, <3>4, <3>5
  <2> QED BY <2>3, <2>4
<1>3. \A s \in SUBSET T : s # {} => V(s \ {Chosen(s)}) = g[s \ {Chosen(s)}]
  <2> SUFFICES ASSUME NEW s \in SUBSET T, s # {}
               PROVE  V(s \ {Chosen(s)}) = g[s \ {Chosen(s)}]
    OBVIOUS
  <2> DEFINE r == s \ {Chosen(s)}
  <2>1. r \in SUBSET T /\ r # T
    BY ChosenInside
  <2> HIDE DEF r, V, g
  <2>2. V(r) = g[r]
    BY <1>2, <2>1
  <2> QED BY <2>2 DEF r
<1>4. Solves(f, g, T)
  <2>1. \A s \in SUBSET T : g[s] = Unrolled(f, g, s)
    <3> SUFFICES ASSUME NEW s \in SUBSET T PROVE g[s] = Unrolled(f, g, s)
      OBVIOUS
    <3>1. g[s] = IF s = {} THEN 0 ELSE f[Chosen(s)] + V(s \ {Chosen(s)})
      OBVIOUS
    <3> HIDE DEF g, V
    <3> QED BY <1>3, <3>1 DEF Unrolled
  <2>2. g = [s \in SUBSET T |-> g[s]]
    OBVIOUS
  <2> HIDE DEF g
  <2> QED BY <2>1, <2>2 DEF Solves
<1> HIDE DEF g
<1>5. Solves(f, Solution(f, T), T)
  BY <1>4 DEF Solution
<1> QED BY <1>1, <1>5

-----------------------------------------------------------------------------
(* What a sum is.                                                          *)

LEMMA SumUnrolled ==
  ASSUME NEW f, NEW S, IsFiniteSet(S)
  PROVE  SumFunctionOnSet(f, S) =
           IF S = {} THEN 0 ELSE f[Chosen(S)] + SumFunctionOnSet(f, S \ {Chosen(S)})
<1>1. Solves(f, Solution(f, S), S)
  BY SolutionSolves
<1>2. Solution(f, S)[S] = Unrolled(f, Solution(f, S), S)
  BY <1>1 DEF Solves
<1>3. ASSUME S # {}
      PROVE  Solution(f, S)[S \ {Chosen(S)}] = Solution(f, S \ {Chosen(S)})[S \ {Chosen(S)}]
  <2> DEFINE T == S \ {Chosen(S)}
  <2>1. IsFiniteSet(T) /\ T \subseteq S
    BY FS_RemoveElement
  <2> HIDE DEF T
  <2>2. Solves(f, Solution(f, T), T)
    BY <2>1, SolutionSolves
  <2>3. \A g, h : Solves(f, g, S) /\ Solves(f, h, T) => g[T] = h[T]
    BY <2>1, SolutionsAgree
  <2>4. Solution(f, S)[T] = Solution(f, T)[T]
    BY <1>1, <2>2, <2>3
  <2> QED BY <2>4 DEF T
<1> QED BY <1>2, <1>3, SumIsSolution DEF Unrolled

LEMMA SumEmpty == ASSUME NEW f PROVE SumFunctionOnSet(f, {}) = 0
  BY SumUnrolled, FS_EmptySet

LEMMA SumSame ==
  ASSUME NEW f, NEW g, NEW S, IsFiniteSet(S), \A x \in S : f[x] = g[x]
  PROVE  SumFunctionOnSet(f, S) = SumFunctionOnSet(g, S)
<1> DEFINE B == {T \in SUBSET S : SumFunctionOnSet(f, T) # SumFunctionOnSet(g, T)}
<1> SUFFICES ASSUME B # {} PROVE FALSE
  OBVIOUS
<1>0. B \in SUBSET SUBSET S
  OBVIOUS
<1>1. PICK T \in B : \A U \in B : U \subseteq T => U = T
  <2> HIDE DEF B
  <2> QED BY <1>0, LeastSubset
<1>2. IsFiniteSet(T)
  BY FS_Subset
<1>3. T # {}
  BY <1>1, SumEmpty
<1>4. Chosen(T) \in T /\ T \ {Chosen(T)} \subseteq T /\ T \ {Chosen(T)} # T
  BY <1>3, ChosenInside
<1>5. SumFunctionOnSet(f, T \ {Chosen(T)}) = SumFunctionOnSet(g, T \ {Chosen(T)})
  BY <1>1, <1>4
<1>6. f[Chosen(T)] = g[Chosen(T)]
  BY <1>4
<1> QED BY <1>1, <1>2, <1>3, <1>5, <1>6, SumUnrolled

LEMMA SumInt ==
  ASSUME NEW f, NEW S, IsFiniteSet(S), \A x \in S : f[x] \in Int
  PROVE  SumFunctionOnSet(f, S) \in Int
<1> DEFINE B == {T \in SUBSET S : SumFunctionOnSet(f, T) \notin Int}
<1> SUFFICES ASSUME B # {} PROVE FALSE
  OBVIOUS
<1>0. B \in SUBSET SUBSET S
  OBVIOUS
<1>1. PICK T \in B : \A U \in B : U \subseteq T => U = T
  <2> HIDE DEF B
  <2> QED BY <1>0, LeastSubset
<1>2. IsFiniteSet(T)
  BY FS_Subset
<1>3. T # {}
  <2>1. SumFunctionOnSet(f, T) \notin Int
    BY <1>1
  <2>2. SumFunctionOnSet(f, {}) \in Int
    BY SumEmpty
  <2> QED BY <2>1, <2>2
<1>4. Chosen(T) \in T /\ T \ {Chosen(T)} \subseteq T /\ T \ {Chosen(T)} # T
  BY <1>3, ChosenInside
<1>5. SumFunctionOnSet(f, T \ {Chosen(T)}) \in Int
  BY <1>1, <1>4
<1>6. f[Chosen(T)] \in Int
  BY <1>4
<1>7. SumFunctionOnSet(f, T) = f[Chosen(T)] + SumFunctionOnSet(f, T \ {Chosen(T)})
  BY <1>2, <1>3, SumUnrolled
<1> QED BY <1>1, <1>5, <1>6, <1>7

(* The order in which the elements are taken does not matter.              *)
LEMMA SumRemoveElement ==
  ASSUME NEW f, NEW S, IsFiniteSet(S), \A y \in S : f[y] \in Int, NEW x \in S
  PROVE  SumFunctionOnSet(f, S) = f[x] + SumFunctionOnSet(f, S \ {x})
<1> DEFINE Splits(T, y) == SumFunctionOnSet(f, T) = f[y] + SumFunctionOnSet(f, T \ {y})
           B == {T \in SUBSET S : \E y \in T : ~ Splits(T, y)}
<1> HIDE DEF Splits
<1> SUFFICES ASSUME B # {} PROVE FALSE
  BY DEF Splits
<1>0. B \in SUBSET SUBSET S
  OBVIOUS
<1>1. PICK T \in B : \A U \in B : U \subseteq T => U = T
  <2> HIDE DEF B
  <2> QED BY <1>0, LeastSubset
<1>2. PICK z \in T : ~ Splits(T, z)
  BY <1>1
<1> DEFINE p == Chosen(T)
<1>3. IsFiniteSet(T) /\ T # {} /\ T \subseteq S
  BY <1>1, <1>2, FS_Subset
<1>4. p \in T
  BY <1>3, ChosenInside
<1>5. Splits(T, p)
  BY <1>3, SumUnrolled DEF Splits
<1> HIDE DEF p
<1>6. p # z
  BY <1>2, <1>5
<1>7. \A y \in T : T \ {y} \notin B
  BY <1>1
<1>8. Splits(T \ {p}, z)
  BY <1>2, <1>3, <1>4, <1>6, <1>7
<1>9. Splits(T \ {z}, p)
  BY <1>2, <1>3, <1>4, <1>6, <1>7
<1>10. /\ (T \ {p}) \ {z} = (T \ {z}) \ {p}
       /\ IsFiniteSet((T \ {z}) \ {p}) /\ (T \ {z}) \ {p} \subseteq S
  BY <1>3, FS_RemoveElement
<1> DEFINE R == (T \ {z}) \ {p}
<1>11. SumFunctionOnSet(f, R) \in Int
  <2> HIDE DEF R
  <2>1. \A y \in R : f[y] \in Int
    BY <1>3 DEF R
  <2>2. IsFiniteSet(R)
    BY <1>10 DEF R
  <2> QED BY <2>1, <2>2, SumInt
<1>12. /\ SumFunctionOnSet(f, T) = f[p] + SumFunctionOnSet(f, T \ {p})
       /\ SumFunctionOnSet(f, T \ {p}) = f[z] + SumFunctionOnSet(f, R)
       /\ SumFunctionOnSet(f, T \ {z}) = f[p] + SumFunctionOnSet(f, R)
  BY <1>5, <1>8, <1>9, <1>10 DEF Splits
<1>13. f[p] \in Int /\ f[z] \in Int
  BY <1>2, <1>3, <1>4
<1> HIDE DEF R
<1>14. SumFunctionOnSet(f, T) = f[z] + SumFunctionOnSet(f, T \ {z})
  BY <1>11, <1>12, <1>13
<1> QED BY <1>2, <1>14 DEF Splits

LEMMA SumAddElement ==
  ASSUME NEW f, NEW S, IsFiniteSet(S), NEW x, x \notin S, \A y \in S \cup {x} : f[y] \in Int
  PROVE  SumFunctionOnSet(f, S \cup {x}) = f[x] + SumFunctionOnSet(f, S)
<1>1. IsFiniteSet(S \cup {x}) /\ x \in S \cup {x} /\ (S \cup {x}) \ {x} = S
  BY FS_AddElement
<1> DEFINE T == S \cup {x}
<1> HIDE DEF T
<1>2. SumFunctionOnSet(f, T) = f[x] + SumFunctionOnSet(f, T \ {x})
  BY <1>1, SumRemoveElement DEF T
<1> QED BY <1>1, <1>2 DEF T

(* A sum over one element at most.                                         *)
LEMMA SumOfOne ==
  ASSUME NEW f, NEW S, NEW x, S \subseteq {x}, x \in S => f[x] \in Int
  PROVE  SumFunctionOnSet(f, S) = IF x \in S THEN f[x] ELSE 0
<1>1. CASE S = {}
  BY <1>1, SumEmpty
<1>2. CASE S = {x}
  <2>1. IsFiniteSet(S) /\ S \ {x} = {}
    BY <1>2, FS_Singleton
  <2>2. SumFunctionOnSet(f, S) = f[x] + SumFunctionOnSet(f, S \ {x})
    BY <1>2, <2>1, SumRemoveElement
  <2> QED BY <1>2, <2>1, <2>2, SumEmpty
<1> QED BY <1>1, <1>2

(* One summand changes.                                                    *)
LEMMA SumUpdate ==
  ASSUME NEW f, NEW g, NEW S, IsFiniteSet(S), NEW x \in S,
         \A y \in S : f[y] \in Int /\ g[y] \in Int,
         \A y \in S \ {x} : g[y] = f[y]
  PROVE  SumFunctionOnSet(g, S) = SumFunctionOnSet(f, S) - f[x] + g[x]
<1> DEFINE T == S \ {x}
<1>1. IsFiniteSet(T) /\ T \subseteq S
  BY FS_RemoveElement
<1>2. /\ SumFunctionOnSet(f, S) = f[x] + SumFunctionOnSet(f, T)
      /\ SumFunctionOnSet(g, S) = g[x] + SumFunctionOnSet(g, T)
  BY SumRemoveElement
<1> HIDE DEF T
<1>3. SumFunctionOnSet(f, T) = SumFunctionOnSet(g, T)
  BY <1>1, SumSame DEF T
<1>4. SumFunctionOnSet(f, T) \in Int
  BY <1>1, SumInt
<1>5. f[x] \in Int /\ g[x] \in Int
  OBVIOUS
<1> QED BY <1>2, <1>3, <1>4, <1>5

(* A sum of larger numbers is larger.                                      *)
LEMMA SumMonotone ==
  ASSUME NEW f, NEW g, NEW S, IsFiniteSet(S),
         \A x \in S : f[x] \in Int /\ g[x] \in Int /\ f[x] <= g[x]
  PROVE  SumFunctionOnSet(f, S) <= SumFunctionOnSet(g, S)
<1> DEFINE G == {T \in SUBSET S : SumFunctionOnSet(f, T) <= SumFunctionOnSet(g, T)}
<1>1. {} \in G
  BY SumEmpty
<1>2. ASSUME NEW T \in SUBSET S, NEW x \in S \ T, T \in G
      PROVE  T \cup {x} \in G
  <2>1. IsFiniteSet(T)
    BY FS_Subset
  <2>2. /\ SumFunctionOnSet(f, T \cup {x}) = f[x] + SumFunctionOnSet(f, T)
        /\ SumFunctionOnSet(g, T \cup {x}) = g[x] + SumFunctionOnSet(g, T)
    BY <1>2, <2>1, SumAddElement
  <2>3. SumFunctionOnSet(f, T) \in Int /\ SumFunctionOnSet(g, T) \in Int
    BY <2>1, SumInt
  <2>4. SumFunctionOnSet(f, T) <= SumFunctionOnSet(g, T) /\ T \cup {x} \in SUBSET S
    BY <1>2
  <2>5. f[x] \in Int /\ g[x] \in Int /\ f[x] <= g[x]
    BY <1>2
  <2>6. SumFunctionOnSet(f, T \cup {x}) <= SumFunctionOnSet(g, T \cup {x})
    <3> DEFINE s == SumFunctionOnSet(f, T)
               t == SumFunctionOnSet(g, T)
    <3> HIDE DEF s, t
    <3> QED BY <2>2, <2>3, <2>4, <2>5 DEF s, t
  <2> QED BY <2>4, <2>6
<1> HIDE DEF G
<1>3. S \in G
  BY <1>1, <1>2, SubsetsByElements
<1> QED BY <1>3 DEF G

LEMMA SumNat ==
  ASSUME NEW f, NEW S, IsFiniteSet(S), \A x \in S : f[x] \in Nat
  PROVE  SumFunctionOnSet(f, S) \in Nat
<1> DEFINE zero == [x \in S |-> 0]
           G == {T \in SUBSET S : SumFunctionOnSet(zero, T) = 0}
<1>1. {} \in G
  BY SumEmpty
<1>2. ASSUME NEW T \in SUBSET S, NEW x \in S \ T, T \in G
      PROVE  T \cup {x} \in G
  <2>1. IsFiniteSet(T) /\ zero[x] = 0 /\ \A y \in T \cup {x} : zero[y] \in Int
    BY FS_Subset
  <2> HIDE DEF zero
  <2>2. SumFunctionOnSet(zero, T \cup {x}) = zero[x] + SumFunctionOnSet(zero, T)
    BY <1>2, <2>1, SumAddElement
  <2> QED BY <1>2, <2>1, <2>2
<1>3. S \in G
  <2> HIDE DEF G
  <2> QED BY <1>1, <1>2, SubsetsByElements
<1>4. SumFunctionOnSet(zero, S) = 0
  BY <1>3
<1>5. \A x \in S : zero[x] \in Int /\ f[x] \in Int /\ zero[x] <= f[x]
  OBVIOUS
<1> HIDE DEF zero
<1>6. SumFunctionOnSet(zero, S) <= SumFunctionOnSet(f, S)
  BY <1>5, SumMonotone
<1>7. SumFunctionOnSet(f, S) \in Int
  BY SumInt
<1> QED BY <1>4, <1>6, <1>7

=============================================================================
