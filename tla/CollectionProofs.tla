-------------------------- MODULE CollectionProofs --------------------------
(***************************************************************************)
(* Induction over numbers and finite sets, and what it yields: sums change *)
(* by what is changed, selections keep the order of what they keep.        *)
(* Induction is stated with sets, because the library's theorems take a    *)
(* predicate as parameter; it follows from the least element of a set.     *)
(***************************************************************************)
EXTENDS Collections, SequenceTheorems, FiniteSetTheorems, WellFoundedInduction, TLAPS

(* Every non-empty set of naturals has a least element.                    *)
LEMMA LeastNatural ==
  ASSUME NEW T, T \subseteq Nat, T # {}
  PROVE  \E n \in T : \A k \in T : n <= k
<1> DEFINE R == {ss \in Nat \X Nat : ss[1] < ss[2]}
<1>1. IsWellFoundedOn(R, Nat)
  BY NatLessThanWellFounded DEF OpToRel
<1>2. \A k, n \in Nat : k < n => <<k, n>> \in R
  OBVIOUS
<1> HIDE DEF R
<1>3. PICK n \in T : \A k \in T : ~ (<<k, n>> \in R)
  BY <1>1, WFMin
<1>4. \A k \in T : k \in Nat /\ n \in Nat /\ ~ (k < n)
  BY <1>2, <1>3
<1> QED
  BY <1>4

(* Induction on the naturals.                                              *)
LEMMA NaturalsBySteps ==
  ASSUME NEW T, 0 \in T, \A n \in Nat : n \in T => n + 1 \in T
  PROVE  Nat \subseteq T
<1> DEFINE B == {n \in Nat : n \notin T}
<1> SUFFICES ASSUME B # {} PROVE FALSE
  OBVIOUS
<1>1. PICK n \in B : \A k \in B : n <= k
  BY LeastNatural
<1>2. n # 0 /\ n \in Nat
  OBVIOUS
<1>3. n - 1 \in Nat /\ n - 1 \notin B
  BY <1>1, <1>2
<1>4. (n - 1) + 1 \in T
  BY <1>3
<1> QED
  BY <1>2, <1>4

(* Induction on the subsets of a finite set, an element at a time.         *)
LEMMA SubsetsBySteps ==
  ASSUME NEW S, IsFiniteSet(S), NEW F, {} \in F,
         \A A \in SUBSET S : A # {} /\ (\A x \in A : A \ {x} \in F) => A \in F
  PROVE  SUBSET S \subseteq F
<1> DEFINE T == {n \in Nat : \A A \in SUBSET S : Cardinality(A) = n => A \in F}
<1>1. \A A \in SUBSET S : IsFiniteSet(A) /\ Cardinality(A) \in Nat
  BY FS_Subset, FS_CardinalityType
<1>2. 0 \in T
  <2>1. \A A \in SUBSET S : Cardinality(A) = 0 => A = {}
    BY <1>1, FS_EmptySet
  <2> QED
    BY <2>1
<1>3. ASSUME NEW n \in Nat, n \in T PROVE n + 1 \in T
  <2> SUFFICES ASSUME NEW A \in SUBSET S, Cardinality(A) = n + 1 PROVE A \in F
    OBVIOUS
  <2>0. Cardinality({}) = 0
    BY FS_EmptySet, Zenon
  <2>1. A # {}
    <3>1. Cardinality(A) # 0
      OBVIOUS
    <3> QED
      BY <2>0, <3>1, Zenon
  <2>2. ASSUME NEW x \in A PROVE A \ {x} \in F
    <3>1. Cardinality(A \ {x}) = Cardinality(A) - 1
      BY <1>1, FS_RemoveElement
    <3>2. A \ {x} \in SUBSET S /\ Cardinality(A \ {x}) = n
      BY <3>1
    <3> QED
      BY <1>3, <3>2
  <2> QED
    BY <2>1, <2>2
<1> HIDE DEF T
<1>4. Nat \subseteq T
  BY <1>2, <1>3, NaturalsBySteps
<1> QED
  BY <1>1, <1>4 DEF T

-----------------------------------------------------------------------------
(* Sums.  A fold takes the elements of a set in the order CHOOSE gives     *)
(* them; `Sums' is its defining equation.                                  *)

First(s) == CHOOSE x \in s : TRUE

Sums(f, S, it) ==
  it = [s \in SUBSET S |-> IF s = {} THEN 0 ELSE f[First(s)] + it[s \ {First(s)}]]

(* The equation has a solution on the subsets of any finite set: from one  *)
(* for the subsets of up to n elements follows one for n + 1.              *)
LEMMA SumsExist ==
  ASSUME NEW S, IsFiniteSet(S), NEW f
  PROVE  \E it : Sums(f, S, it)
<1> DEFINE Level(n) == {s \in SUBSET S : Cardinality(s) <= n}
           Value(it, s) == IF s = {} THEN 0 ELSE f[First(s)] + it[s \ {First(s)}]
           T == {n \in Nat : \E it : it = [s \in Level(n) |-> Value(it, s)]}
<1>1. \A A \in SUBSET S : IsFiniteSet(A) /\ Cardinality(A) \in Nat
  BY FS_Subset, FS_CardinalityType
<1>2. \A s \in SUBSET S : s # {} =>
         First(s) \in s /\ Cardinality(s \ {First(s)}) = Cardinality(s) - 1
  BY <1>1, FS_RemoveElement DEF First
<1>3. \A s \in SUBSET S : Cardinality(s) = 0 <=> s = {}
  BY <1>1, FS_EmptySet
<1>4. 0 \in T
  <2> DEFINE it == [s \in Level(0) |-> 0]
  <2>1. \A s \in Level(0) : s = {}
    BY <1>1, <1>3
  <2>2. it = [s \in Level(0) |-> Value(it, s)]
    BY <2>1
  <2> QED
    BY <2>2
<1>5. ASSUME NEW n \in Nat, n \in T PROVE n + 1 \in T
  <2>1. PICK it : it = [s \in Level(n) |-> Value(it, s)]
    BY <1>5
  <2> DEFINE new == [s \in Level(n + 1) |-> IF s \in Level(n) THEN it[s] ELSE Value(it, s)]
  <2>2. ASSUME NEW s \in Level(n + 1), s # {}
        PROVE  s \ {First(s)} \in Level(n) /\ s \ {First(s)} \in Level(n + 1)
    BY <1>1, <1>2, <2>2
  <2>3. \A s \in Level(n) : s \in Level(n + 1) /\ new[s] = it[s]
    BY <1>1
  <2>4. ASSUME NEW s \in Level(n + 1) PROVE new[s] = Value(new, s)
    <3>1. new[s] = Value(it, s)
      BY <2>1, <2>4
    <3>2. s # {} => new[s \ {First(s)}] = it[s \ {First(s)}]
      BY <2>2, <2>3, <2>4
    <3> QED
      BY <3>1, <3>2
  <2>5. new = [s \in Level(n + 1) |-> Value(new, s)]
    BY <2>4
  <2>6. \E i : i = [s \in Level(n + 1) |-> Value(i, s)]
    <3> HIDE DEF new, Level, Value
    <3> QED
      BY <2>5, Zenon
  <2>7. n + 1 \in Nat
    OBVIOUS
  <2> QED
    BY <2>6, <2>7, Zenon
<1> HIDE DEF T
<1>6. Cardinality(S) \in T
  BY <1>1, <1>4, <1>5, NaturalsBySteps
<1>7. Level(Cardinality(S)) = SUBSET S
  BY <1>1, FS_Subset
<1> QED
  BY <1>6, <1>7 DEF T, Sums

(* Two solutions agree wherever both are defined.                          *)
LEMMA SumsAgree ==
  ASSUME NEW S1, NEW S2, NEW f, NEW it1, NEW it2,
         Sums(f, S1, it1), Sums(f, S2, it2),
         NEW A, A \subseteq S1, A \subseteq S2, IsFiniteSet(A)
  PROVE  it1[A] = it2[A]
<1> DEFINE F == {B \in SUBSET A : it1[B] = it2[B]}
<1>1. \A B \in SUBSET A : B # {} => First(B) \in B
  BY DEF First
<1>2. ASSUME NEW B \in SUBSET A
      PROVE  /\ it1[B] = IF B = {} THEN 0 ELSE f[First(B)] + it1[B \ {First(B)}]
             /\ it2[B] = IF B = {} THEN 0 ELSE f[First(B)] + it2[B \ {First(B)}]
  BY DEF Sums
<1>3. {} \in F
  BY <1>2
<1>4. ASSUME NEW B \in SUBSET A, B # {}, \A x \in B : B \ {x} \in F PROVE B \in F
  BY <1>1, <1>2, <1>4
<1> HIDE DEF F
<1>5. SUBSET A \subseteq F
  BY <1>3, <1>4, SubsetsBySteps
<1> QED
  BY <1>5 DEF F

(* A total is what any solution says it is.                                *)
LEMMA TotalIs ==
  ASSUME NEW S, IsFiniteSet(S), NEW f, NEW it, Sums(f, S, it),
         NEW A \in SUBSET S
  PROVE  Total(f, A) = it[A]
<1>1. IsFiniteSet(A)
  BY FS_Subset
<1>2. Total(f, A) = (CHOOSE i : Sums(f, A, i))[A]
  BY DEF Total, MapThenSumSet, MapThenFoldSet, Sums, First
<1>3. PICK i : Sums(f, A, i)
  BY <1>1, SumsExist
<1>4. Sums(f, A, CHOOSE j : Sums(f, A, j))
  BY <1>3, Zenon
<1>5. (CHOOSE j : Sums(f, A, j))[A] = it[A]
  BY <1>1, <1>4, SumsAgree
<1> QED
  BY <1>2, <1>5

THEOREM TotalEmpty ==
  ASSUME NEW f PROVE Total(f, {}) = 0
<1>1. IsFiniteSet({})
  BY FS_EmptySet
<1>2. PICK it : Sums(f, {}, it)
  BY <1>1, SumsExist
<1>3. it[{}] = 0
  BY <1>2 DEF Sums
<1> QED
  BY <1>1, <1>2, <1>3, TotalIs

(* A total is an integer, and any element may be taken out first.          *)
THEOREM TotalStep ==
  ASSUME NEW S, IsFiniteSet(S), NEW f, \A x \in S : f[x] \in Int
  PROVE  /\ Total(f, S) \in Int
         /\ \A x \in S : Total(f, S) = f[x] + Total(f, S \ {x})
<1>1. PICK it : Sums(f, S, it)
  BY SumsExist
<1> DEFINE Open(A) == it[A] \in Int /\ \A x \in A : it[A] = f[x] + it[A \ {x}]
           F == {A \in SUBSET S : Open(A)}
<1>2. \A A \in SUBSET S : A # {} => First(A) \in A
  BY DEF First
<1>3. ASSUME NEW A \in SUBSET S
      PROVE  it[A] = IF A = {} THEN 0 ELSE f[First(A)] + it[A \ {First(A)}]
  BY <1>1 DEF Sums
<1> DEFINE G == {A \in SUBSET S : it[A] \in Int}
<1>a. SUBSET S \subseteq G
  <2>1. {} \in G
    BY <1>3
  <2>2. ASSUME NEW A \in SUBSET S, A # {}, \A x \in A : A \ {x} \in G PROVE A \in G
    <3> DEFINE c == First(A)
    <3>1. c \in A
      BY <1>2, <2>2
    <3>2. it[A] = f[c] + it[A \ {c}]
      BY <1>3, <2>2
    <3> HIDE DEF c
    <3>3. f[c] \in Int /\ it[A \ {c}] \in Int
      BY <2>2, <3>1
    <3> QED
      BY <3>2, <3>3
  <2> HIDE DEF G
  <2> QED
    BY <2>1, <2>2, SubsetsBySteps
<1>4. {} \in F
  BY <1>3
<1>5. ASSUME NEW A \in SUBSET S, A # {}, \A x \in A : A \ {x} \in F PROVE A \in F
  <2> DEFINE c == First(A)
  <2>1. c \in A /\ c \in S
    BY <1>2, <1>5
  <2> HIDE DEF c
  <2>2. it[A] = f[c] + it[A \ {c}]
    BY <1>3, <1>5 DEF c
  <2>3. it[A \ {c}] \in Int
    BY <1>5, <2>1
  <2>4. ASSUME NEW x \in A, x # c PROVE it[A] = f[x] + it[A \ {x}]
    <3>1. (A \ {c}) \ {x} = (A \ {x}) \ {c}
      OBVIOUS
    <3> DEFINE r == it[(A \ {x}) \ {c}]
    <3>2. it[A \ {c}] = f[x] + r
      BY <1>5, <2>1, <2>4, <3>1
    <3>3. it[A \ {x}] = f[c] + r
      BY <1>5, <2>1, <2>4
    <3>4. (A \ {x}) \ {c} \in SUBSET S /\ r \in Int
      BY <1>a
    <3> QED
      BY <2>1, <2>2, <3>2, <3>3, <3>4
  <2>5. it[A] \in Int
    BY <1>a
  <2> QED
    BY <2>2, <2>4, <2>5
<1> HIDE DEF F
<1>6. SUBSET S \subseteq F
  BY <1>4, <1>5, SubsetsBySteps
<1>7. Open(S)
  BY <1>6 DEF F
<1>8. \A A \in SUBSET S : Total(f, A) = it[A]
  BY <1>1, TotalIs
<1> QED
  BY <1>7, <1>8

(* A total is of its function's values on the set alone.                   *)
THEOREM TotalEqual ==
  ASSUME NEW S, IsFiniteSet(S), NEW f, NEW g, \A x \in S : f[x] \in Int /\ f[x] = g[x]
  PROVE  Total(f, S) = Total(g, S)
<1> DEFINE F == {A \in SUBSET S : Total(f, A) = Total(g, A)}
<1>1. {} \in F
  BY TotalEmpty
<1>2. ASSUME NEW A \in SUBSET S, A # {}, \A x \in A : A \ {x} \in F PROVE A \in F
  <2>1. PICK x \in A : TRUE
    BY <1>2
  <2>2. IsFiniteSet(A) /\ \A y \in A : f[y] \in Int /\ g[y] \in Int
    BY FS_Subset
  <2>3. Total(f, A) = f[x] + Total(f, A \ {x}) /\ Total(g, A) = g[x] + Total(g, A \ {x})
    BY <2>2, TotalStep
  <2>4. Total(f, A \ {x}) = Total(g, A \ {x}) /\ f[x] = g[x]
    BY <1>2
  <2> QED
    BY <2>3, <2>4
<1> HIDE DEF F
<1>3. SUBSET S \subseteq F
  BY <1>1, <1>2, SubsetsBySteps
<1> QED
  BY <1>3 DEF F

(* A total of naturals is a natural, and no less than any of them.         *)
THEOREM TotalNat ==
  ASSUME NEW S, IsFiniteSet(S), NEW f, \A x \in S : f[x] \in Nat
  PROVE  Total(f, S) \in Nat /\ \A x \in S : f[x] <= Total(f, S)
<1> DEFINE F == {A \in SUBSET S : Total(f, A) \in Nat}
<1>0. ASSUME NEW A \in SUBSET S, NEW x \in A
      PROVE  Total(f, A) = f[x] + Total(f, A \ {x})
  <2>1. IsFiniteSet(A) /\ \A y \in A : f[y] \in Int
    BY FS_Subset
  <2> QED
    BY <2>1, TotalStep
<1>1. {} \in F
  BY TotalEmpty
<1>2. ASSUME NEW A \in SUBSET S, A # {}, \A x \in A : A \ {x} \in F PROVE A \in F
  <2>1. PICK x \in A : TRUE
    BY <1>2
  <2>2. f[x] \in Nat /\ Total(f, A \ {x}) \in Nat /\ Total(f, A) = f[x] + Total(f, A \ {x})
    BY <1>0, <1>2
  <2> QED
    BY <2>2
<1> HIDE DEF F
<1>3. SUBSET S \subseteq F
  BY <1>1, <1>2, SubsetsBySteps
<1>4. \A A \in SUBSET S : Total(f, A) \in Nat
  BY <1>3 DEF F
<1>5. ASSUME NEW x \in S PROVE f[x] <= Total(f, S)
  <2>1. Total(f, S) = f[x] + Total(f, S \ {x}) /\ Total(f, S \ {x}) \in Nat /\ f[x] \in Nat
    BY <1>0, <1>4
  <2> QED
    BY <2>1
<1> QED
  BY <1>4, <1>5

(* One element more.                                                       *)
THEOREM TotalAdd ==
  ASSUME NEW S, IsFiniteSet(S), NEW f, NEW x, x \notin S, f[x] \in Int, \A y \in S : f[y] \in Int
  PROVE  Total(f, S \cup {x}) = f[x] + Total(f, S) /\ Total(f, S) \in Int
<1>1. IsFiniteSet(S \cup {x}) /\ (S \cup {x}) \ {x} = S
  BY FS_AddElement
<1>2. \A y \in S \cup {x} : f[y] \in Int
  OBVIOUS
<1>3. Total(f, S \cup {x}) = f[x] + Total(f, (S \cup {x}) \ {x})
  BY <1>1, <1>2, TotalStep
<1> QED
  BY <1>1, <1>3, TotalStep

(* One element less.                                                       *)
THEOREM TotalDrop ==
  ASSUME NEW S, IsFiniteSet(S), NEW f, NEW x, x \in S, \A y \in S : f[y] \in Int
  PROVE  Total(f, S \ {x}) = Total(f, S) - f[x] /\ Total(f, S) \in Int
<1>1. Total(f, S) = f[x] + Total(f, S \ {x}) /\ Total(f, S) \in Int
  BY TotalStep
<1>2. Total(f, S \ {x}) \in Int
  <2>1. IsFiniteSet(S \ {x}) /\ \A y \in S \ {x} : f[y] \in Int
    BY FS_RemoveElement
  <2> QED
    BY <2>1, TotalStep
<1>3. f[x] \in Int
  OBVIOUS
<1> QED
  BY <1>1, <1>2, <1>3

(* One value changes.                                                      *)
THEOREM TotalChange ==
  ASSUME NEW S, IsFiniteSet(S), NEW f, NEW g, NEW x, x \in S, g[x] \in Int,
         \A y \in S : f[y] \in Int, \A y \in S : y # x => g[y] = f[y]
  PROVE  Total(g, S) = Total(f, S) - f[x] + g[x]
<1>1. Total(f, S) \in Int /\ Total(f, S \ {x}) = Total(f, S) - f[x]
  BY TotalDrop
<1>2. IsFiniteSet(S \ {x}) /\ \A y \in S : g[y] \in Int
  BY FS_RemoveElement
<1>3. Total(g, S) \in Int /\ Total(g, S \ {x}) = Total(g, S) - g[x]
  BY <1>2, TotalDrop
<1>4. Total(f, S \ {x}) = Total(g, S \ {x})
  BY <1>2, TotalEqual
<1>5. f[x] \in Int
  OBVIOUS
<1> QED
  BY <1>1, <1>3, <1>4, <1>5

(* Nothing adds up to nothing.                                             *)
THEOREM TotalZero ==
  ASSUME NEW S, IsFiniteSet(S), NEW f, \A x \in S : f[x] = 0
  PROVE  Total(f, S) = 0
<1> DEFINE F == {A \in SUBSET S : Total(f, A) = 0}
<1>1. {} \in F
  BY TotalEmpty
<1>2. ASSUME NEW A \in SUBSET S, A # {}, \A x \in A : A \ {x} \in F PROVE A \in F
  <2>1. PICK x \in A : TRUE
    BY <1>2
  <2>2. IsFiniteSet(A) /\ \A y \in A : f[y] \in Int
    BY FS_Subset
  <2>3. Total(f, A) = f[x] + Total(f, A \ {x})
    BY <2>2, TotalStep
  <2>4. f[x] = 0 /\ Total(f, A \ {x}) = 0
    BY <1>2
  <2> QED
    BY <2>3, <2>4
<1> HIDE DEF F
<1>3. SUBSET S \subseteq F
  BY <1>1, <1>2, SubsetsBySteps
<1> QED
  BY <1>3 DEF F

(* The totals of a set's parts are its total.                              *)
THEOREM TotalOfParts ==
  ASSUME NEW S, IsFiniteSet(S), NEW T, IsFiniteSet(T), NEW d \in [S -> T],
         NEW f, \A x \in S : f[x] \in Int
  PROVE  Total([t \in T |-> Total(f, {x \in S : d[x] = t})], T) = Total(f, S)
<1> DEFINE Part(A, t) == {x \in A : d[x] = t}
           Parts(A) == [t \in T |-> Total(f, Part(A, t))]
           F == {A \in SUBSET S : Total(Parts(A), T) = Total(f, A)}
<1>0. ASSUME NEW A \in SUBSET S, NEW t \in T
      PROVE  IsFiniteSet(Part(A, t)) /\ Total(f, Part(A, t)) \in Int
  <2>1. IsFiniteSet(Part(A, t)) /\ \A x \in Part(A, t) : f[x] \in Int
    BY FS_Subset
  <2> QED
    BY <2>1, TotalStep
<1>1. {} \in F
  <2>1. Total(f, {}) = 0
    BY TotalEmpty
  <2> DEFINE zero == Parts({})
  <2>2. \A t \in T : zero[t] = 0
    <3>1. \A t \in T : Part({}, t) = {}
      OBVIOUS
    <3> QED
      BY <2>1, <3>1
  <2> HIDE DEF zero
  <2>6. Total(zero, T) = 0
    BY <2>2, TotalZero
  <2> QED
    BY <2>1, <2>6 DEF zero
<1>2. ASSUME NEW A \in SUBSET S, A # {}, \A x \in A : A \ {x} \in F PROVE A \in F
  <2>1. PICK x \in A : TRUE
    BY <1>2
  <2>2. d[x] \in T /\ f[x] \in Int /\ IsFiniteSet(A) /\ \A y \in A : f[y] \in Int
    BY FS_Subset
  <2> DEFINE old == Parts(A \ {x})
             new == Parts(A)
             u == d[x]
  <2>3. \A t \in T \ {u} : Part(A, t) = Part(A \ {x}, t)
    OBVIOUS
  <2>4. /\ Part(A, u) = Part(A \ {x}, u) \cup {x} /\ x \notin Part(A \ {x}, u)
        /\ \A y \in Part(A \ {x}, u) : f[y] \in Int
    OBVIOUS
  <2>5. Total(f, Part(A, u)) = f[x] + Total(f, Part(A \ {x}, u))
    <3> HIDE DEF Part
    <3>1. IsFiniteSet(Part(A \ {x}, u))
      BY <1>0, <2>2
    <3> QED
      BY <2>2, <2>4, <3>1, TotalAdd
  <2>6. /\ \A t \in T : old[t] \in Int
        /\ new[u] \in Int /\ new[u] = f[x] + old[u]
        /\ \A t \in T \ {u} : new[t] = old[t]
    <3> HIDE DEF Part
    <3> QED
      BY <1>0, <2>2, <2>3, <2>5
  <2>7. Total(old, T) \in Int /\ Total(new, T) = Total(old, T) - old[u] + new[u]
    <3>1. u \in T
      BY <2>2
    <3> HIDE DEF old, new, u
    <3> QED
      <4>1. new[u] \in Int /\ (\A t \in T : old[t] \in Int) /\ \A t \in T : t # u => new[t] = old[t]
        BY <2>6
      <4>2. Total(new, T) = Total(old, T) - old[u] + new[u]
        BY <3>1, <4>1, TotalChange
      <4> QED
        BY <4>1, <4>2, TotalStep
  <2>8. Total(old, T) = Total(f, A \ {x})
    BY <1>2
  <2>9. Total(f, A) = f[x] + Total(f, A \ {x})
    BY <2>2, TotalStep
  <2>10. old[u] \in Int /\ new[u] = f[x] + old[u] /\ f[x] \in Int
    BY <2>2, <2>6
  <2>11. Total(new, T) = Total(f, A)
    <3> HIDE DEF old, new, u
    <3> QED
      BY <2>7, <2>8, <2>9, <2>10
  <2> QED
    BY <2>11
<1> HIDE DEF F
<1>3. SUBSET S \subseteq F
  BY <1>1, <1>2, SubsetsBySteps
<1> QED
  BY <1>3 DEF F

-----------------------------------------------------------------------------
(* Selections.  `Picks' is the equation that defines `Selected', element   *)
(* by element.                                                             *)

Picked(s, K, i, before) == IF s[i] \in K THEN Append(before, s[i]) ELSE before

Picks(s, K, n, kept) ==
  kept = [i \in 0 .. n |-> IF i = 0 THEN <<>> ELSE Picked(s, K, i, kept[i - 1])]

(* The equation has a solution, whatever the sequence.                     *)
LEMMA PicksExist ==
  ASSUME NEW s, NEW K, NEW n \in Nat PROVE \E kept : Picks(s, K, n, kept)
<1> DEFINE T == {m \in Nat : \E kept : Picks(s, K, m, kept)}
<1>1. 0 \in T
  <2> DEFINE kept == [i \in 0 .. 0 |-> <<>>]
  <2>1. kept = [i \in 0 .. 0 |-> IF i = 0 THEN <<>> ELSE Picked(s, K, i, kept[i - 1])]
    OBVIOUS
  <2>2. Picks(s, K, 0, kept)
    BY <2>1 DEF Picks
  <2> QED
    BY <2>2
<1>2. ASSUME NEW m \in Nat, m \in T PROVE m + 1 \in T
  <2>1. PICK kept : Picks(s, K, m, kept)
    BY <1>2
  <2>2. kept = [i \in 0 .. m |-> IF i = 0 THEN <<>> ELSE Picked(s, K, i, kept[i - 1])]
    BY <2>1 DEF Picks
  <2> DEFINE new == [i \in 0 .. m + 1 |-> IF i = m + 1 THEN Picked(s, K, i, kept[m]) ELSE kept[i]]
  <2>3. ASSUME NEW i \in 0 .. m + 1
        PROVE  new[i] = IF i = 0 THEN <<>> ELSE Picked(s, K, i, new[i - 1])
    <3>1. CASE i = 0
      <4>1. 0 \in 0 .. m /\ i # m + 1
        BY <3>1
      <4> QED
        BY <2>2, <3>1, <4>1
    <3>2. CASE i = m + 1
      <4>1. new[i - 1] = kept[m] /\ i # 0
        BY <3>2
      <4> QED
        BY <3>2, <4>1
    <3>3. CASE i # 0 /\ i # m + 1
      <4>1. i \in 0 .. m /\ i - 1 \in 0 .. m + 1 /\ i - 1 # m + 1
        BY <3>3
      <4>2. new[i] = kept[i] /\ new[i - 1] = kept[i - 1]
        BY <3>3, <4>1
      <4>3. kept[i] = Picked(s, K, i, kept[i - 1])
        BY <2>2, <3>3, <4>1
      <4> QED
        BY <3>3, <4>2, <4>3
    <3> QED
      BY <3>1, <3>2, <3>3
  <2>4. Picks(s, K, m + 1, new)
    BY <2>3, Zenon DEF Picks
  <2> QED
    BY <2>4
<1> HIDE DEF T
<1>3. n \in T
  BY <1>1, <1>2, NaturalsBySteps
<1> QED
  BY <1>3 DEF T

\* What a selection from the first n elements has kept.
Selection(s, K, n, t) ==
  /\ \A i \in 1 .. Len(t) : t[i] \in K /\ \E j \in 1 .. n : s[j] = t[i]
  /\ \A j \in 1 .. n : s[j] \in K => \E i \in 1 .. Len(t) : t[i] = s[j]
  /\ \A i, j \in 1 .. Len(t) : i < j => \E k, l \in 1 .. n : k < l /\ s[k] = t[i] /\ s[l] = t[j]

\* One more element keeps what a selection promises.
LEMMA SelectionGrows ==
  ASSUME NEW S, NEW s \in Seq(S), NEW K, NEW n \in Nat, n + 1 <= Len(s),
         NEW t \in Seq(S), Selection(s, K, n, t)
  PROVE  Picked(s, K, n + 1, t) \in Seq(S) /\ Selection(s, K, n + 1, Picked(s, K, n + 1, t))
<1> PICK e \in S : e = s[n + 1]
  BY ElementOfSeq
<1>1. /\ n + 1 \in 1 .. n + 1 /\ \A j \in 1 .. n : j \in 1 .. n + 1 /\ j < n + 1
      /\ \A j \in 1 .. n + 1 : j \in 1 .. n \/ j = n + 1
  OBVIOUS
<1>2. CASE e \notin K
  <2>1. Picked(s, K, n + 1, t) = t
    BY <1>2 DEF Picked
  <2>2. \A j \in 1 .. n + 1 : s[j] \in K => j \in 1 .. n
    BY <1>1, <1>2
  <2>3. ASSUME NEW i \in 1 .. Len(t)
        PROVE  t[i] \in K /\ \E j \in 1 .. n + 1 : s[j] = t[i]
    <3>1. PICK j \in 1 .. n : s[j] = t[i] /\ t[i] \in K
      BY DEF Selection
    <3>2. j \in 1 .. n + 1
      OBVIOUS
    <3> QED
      BY <3>1, <3>2
  <2>4. ASSUME NEW i \in 1 .. Len(t), NEW j \in 1 .. Len(t), i < j
        PROVE  \E k, l \in 1 .. n + 1 : k < l /\ s[k] = t[i] /\ s[l] = t[j]
    <3>1. PICK k \in 1 .. n, l \in 1 .. n : k < l /\ s[k] = t[i] /\ s[l] = t[j]
      BY <2>4 DEF Selection
    <3>2. k \in 1 .. n + 1 /\ l \in 1 .. n + 1
      OBVIOUS
    <3> QED
      BY <3>1, <3>2
  <2>5. ASSUME NEW j \in 1 .. n + 1, s[j] \in K PROVE \E i \in 1 .. Len(t) : t[i] = s[j]
    BY <2>2, <2>5 DEF Selection
  <2>6. Selection(s, K, n + 1, t)
    BY <2>3, <2>4, <2>5 DEF Selection
  <2> QED
    BY <2>1, <2>6
<1>3. CASE e \in K
  <2> DEFINE new == Append(t, e)
  <2>1. Picked(s, K, n + 1, t) = new
    BY <1>3 DEF Picked
  <2>2. /\ new \in Seq(S) /\ Len(new) = Len(t) + 1 /\ Len(t) \in Nat
        /\ new[Len(t) + 1] = e /\ \A i \in 1 .. Len(t) : new[i] = t[i]
    BY AppendProperties
  <2> HIDE DEF new
  <2>3. /\ Len(t) + 1 \in 1 .. Len(new) /\ \A i \in 1 .. Len(t) : i \in 1 .. Len(new)
        /\ \A i \in 1 .. Len(new) : i \in 1 .. Len(t) \/ i = Len(t) + 1
        /\ \A i, j \in 1 .. Len(new) : i < j => i \in 1 .. Len(t)
    BY <2>2
  <2>4. \A i \in 1 .. Len(new) : new[i] \in K /\ \E j \in 1 .. n + 1 : s[j] = new[i]
    <3>1. ASSUME NEW i \in 1 .. Len(new)
          PROVE  new[i] \in K /\ \E j \in 1 .. n + 1 : s[j] = new[i]
      <4>1. CASE i \in 1 .. Len(t)
        <5>1. PICK j \in 1 .. n : s[j] = t[i] /\ t[i] \in K
          BY <4>1 DEF Selection
        <5>2. j \in 1 .. n + 1 /\ new[i] = t[i]
          BY <2>2, <4>1
        <5> QED
          BY <5>1, <5>2
      <4>2. CASE i = Len(t) + 1
        BY <1>1, <1>3, <2>2, <4>2, Zenon
      <4> QED
        BY <2>3, <4>1, <4>2
    <3> QED
      BY <3>1
  <2>5. \A j \in 1 .. n + 1 : s[j] \in K => \E i \in 1 .. Len(new) : new[i] = s[j]
    <3>1. ASSUME NEW j \in 1 .. n + 1, s[j] \in K
          PROVE  \E i \in 1 .. Len(new) : new[i] = s[j]
      <4>1. CASE j \in 1 .. n
        <5>1. PICK i \in 1 .. Len(t) : t[i] = s[j]
          BY <3>1, <4>1 DEF Selection
        <5> QED
          BY <2>2, <2>3, <5>1
      <4>2. CASE j = n + 1
        BY <2>2, <2>3, <4>2, Zenon
      <4> QED
        BY <1>1, <4>1, <4>2
    <3> QED
      BY <3>1
  <2>6. ASSUME NEW i \in 1 .. Len(new), NEW j \in 1 .. Len(new), i < j
        PROVE  \E k, l \in 1 .. n + 1 : k < l /\ s[k] = new[i] /\ s[l] = new[j]
    <3>1. i \in 1 .. Len(t) /\ new[i] = t[i]
      BY <2>2, <2>3, <2>6
    <3>2. CASE j \in 1 .. Len(t)
      <4>1. PICK k \in 1 .. n, l \in 1 .. n : k < l /\ s[k] = t[i] /\ s[l] = t[j]
        BY <2>6, <3>1, <3>2 DEF Selection
      <4>2. k \in 1 .. n + 1 /\ l \in 1 .. n + 1 /\ new[j] = t[j]
        BY <2>2, <3>2
      <4> QED
        BY <3>1, <4>1, <4>2
    <3>3. CASE j = Len(t) + 1
      <4>1. PICK k \in 1 .. n : s[k] = t[i]
        BY <3>1 DEF Selection
      <4> QED
        BY <1>1, <2>2, <3>1, <3>3, <4>1, Zenon
    <3> QED
      BY <2>3, <3>2, <3>3
  <2>7. Selection(s, K, n + 1, new)
    BY <2>4, <2>5, <2>6, Zenon DEF Selection
  <2> QED
    BY <2>1, <2>2, <2>7
<1> QED
  BY <1>2, <1>3

(* A selection has the elements of K and no others, in the order they had. *)
THEOREM SelectedIs ==
  ASSUME NEW S, NEW s \in Seq(S), NEW K
  PROVE  Selected(s, K) \in Seq(S) /\ Selection(s, K, Len(s), Selected(s, K))
<1>0. Len(s) \in Nat
  OBVIOUS
<1> DEFINE n == Len(s)
           f == CHOOSE kept : Picks(s, K, n, kept)
<1>1. Selected(s, K) = f[n]
  BY Zenon DEF Selected, Picks, Picked
<1>2. Picks(s, K, n, f)
  <2>1. \E kept : Picks(s, K, n, kept)
    BY <1>0, PicksExist
  <2> QED
    BY <2>1, Zenon
<1> HIDE DEF f
<1>3. ASSUME NEW i \in 0 .. n
      PROVE  f[i] = IF i = 0 THEN <<>> ELSE Picked(s, K, i, f[i - 1])
  BY <1>2 DEF Picks
<1> DEFINE T == {m \in Nat : m <= n => f[m] \in Seq(S) /\ Selection(s, K, m, f[m])}
<1>4. 0 \in T
  <2>1. f[0] = <<>>
    BY <1>0, <1>3
  <2>2. f[0] \in Seq(S) /\ Len(f[0]) = 0
    BY <2>1
  <2>3. Selection(s, K, 0, f[0])
    BY <2>2 DEF Selection
  <2> QED
    BY <2>2, <2>3
<1>5. ASSUME NEW m \in Nat, m \in T PROVE m + 1 \in T
  <2> SUFFICES ASSUME m + 1 <= n
               PROVE  f[m + 1] \in Seq(S) /\ Selection(s, K, m + 1, f[m + 1])
    OBVIOUS
  <2>1. f[m] \in Seq(S) /\ Selection(s, K, m, f[m])
    BY <1>0, <1>5
  <2>2. f[m + 1] = Picked(s, K, m + 1, f[m])
    <3>1. m + 1 \in 0 .. n /\ m + 1 # 0 /\ (m + 1) - 1 = m
      BY <1>0
    <3> QED
      BY <1>3, <3>1
  <2> QED
    BY <2>1, <2>2, SelectionGrows
<1> HIDE DEF T
<1>6. n \in T
  BY <1>0, <1>4, <1>5, NaturalsBySteps
<1> QED
  BY <1>0, <1>1, <1>6 DEF T
=============================================================================
