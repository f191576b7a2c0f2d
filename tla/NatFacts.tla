------------------------------ MODULE NatFacts ------------------------------
(***************************************************************************)
(* Facts that the proofs share: a query "order by t limit 1" finds a row   *)
(* whenever there is one, a "sum(...)" over rows adds up, and a "count(...)" *)
(* counts.                                                                  *)
(***************************************************************************)
EXTENDS Integers, FiniteSetsExt, FiniteSetTheorems, WellFoundedInduction, TLAPS

(* Every non-empty set of naturals has a least element ("order by t asc").   *)
LEMMA LeastExists ==
    ASSUME NEW S \in SUBSET Nat, S # {}
    PROVE  \E n \in S : \A m \in S : n <= m
<1>1. OpToRel(<, Nat) = {p \in Nat \X Nat : p[1] < p[2]}
  BY DEF OpToRel
<1>2. PICK n \in S : \A m \in S : <<m, n>> \notin OpToRel(<, Nat)
  BY NatLessThanWellFounded, WFMin
<1>3. \A m \in S : ~(m < n)
  BY <1>1, <1>2
<1> QED
  BY <1>3

(* Every non-empty set of naturals that a natural bounds has a greatest      *)
(* element ("order by t desc").                                              *)
LEMMA GreatestExists ==
    ASSUME NEW S \in SUBSET Nat, S # {}, NEW b \in Nat, \A n \in S : n <= b
    PROVE  \E n \in S : \A m \in S : m <= n
<1> DEFINE D == {b - n : n \in S}
<1>1. D \in SUBSET Nat /\ D # {}
  <2>1. \A n \in S : b - n \in Nat
    OBVIOUS
  <2> QED
    BY <2>1
<1>2. PICK d \in D : \A e \in D : d <= e
  BY <1>1, LeastExists
<1>3. PICK n \in S : d = b - n
  BY <1>2
<1>4. ASSUME NEW m \in S PROVE m <= n
  <2>1. b - n <= b - m
    BY <1>2, <1>3
  <2> QED
    BY <2>1
<1> QED
  BY <1>4

-----------------------------------------------------------------------------
(* Sums.                                                                     *)

(* Of the subsets of a finite set that have a property, one has none below.  *)
LEMMA SmallestSubset ==
    ASSUME NEW S, IsFiniteSet(S), NEW bad \in SUBSET (SUBSET S), bad # {}
    PROVE  \E T \in bad : \A U \in bad : U \subseteq T => U = T
<1>1. IsWellFoundedOn(StrictSubsetOrdering(S), SUBSET S)
  BY FS_StrictSubsetOrderingWellFounded, FS_FiniteSubsetsOfFinite
<1>2. PICK T \in bad : \A U \in bad : <<U, T>> \notin StrictSubsetOrdering(S)
  BY <1>1, WFMin
<1>3. ASSUME NEW U \in bad, U \subseteq T PROVE U = T
  BY <1>2, <1>3 DEF StrictSubsetOrdering
<1> QED
  BY <1>3

(* The sums of all subsets of S at once: a first element is taken out.       *)
Pick(s) == CHOOSE x \in s : TRUE
SumsOf(f, S, g) ==
    g = [s \in SUBSET S |-> IF s = {} THEN 0 ELSE f[Pick(s)] + g[s \ {Pick(s)}]]
SumOver(f, S) == (CHOOSE g : SumsOf(f, S, g))[S]

(* What is picked from a set is in it.                                       *)
LEMMA PickIsIn == ASSUME NEW s, s # {} PROVE Pick(s) \in s
  BY DEF Pick

(* The sums of a subset are among those of the set.                          *)
LEMMA SumsRestrict ==
    ASSUME NEW f, NEW S, NEW g, SumsOf(f, S, g), NEW T \in SUBSET S
    PROVE  SumsOf(f, T, [s \in SUBSET T |-> g[s]])
<1> DEFINE h == [s \in SUBSET T |-> g[s]]
<1>1. ASSUME NEW s \in SUBSET T
      PROVE  h[s] = IF s = {} THEN 0 ELSE f[Pick(s)] + h[s \ {Pick(s)}]
  <2>1. g[s] = IF s = {} THEN 0 ELSE f[Pick(s)] + g[s \ {Pick(s)}]
    BY DEF SumsOf
  <2>2. s \ {Pick(s)} \in SUBSET T
    OBVIOUS
  <2> QED
    BY <2>1, <2>2
<1> QED
  BY <1>1 DEF SumsOf

(* There are no two ways to sum.                                             *)
LEMMA SumsUnique ==
    ASSUME NEW f, NEW S, IsFiniteSet(S), NEW g, NEW h, SumsOf(f, S, g), SumsOf(f, S, h)
    PROVE  g = h
<1> DEFINE bad == {s \in SUBSET S : g[s] # h[s]}
<1>1. ASSUME bad # {} PROVE FALSE
  <2>1. PICK s \in bad : \A u \in bad : u \subseteq s => u = s
    <3>1. bad \in SUBSET (SUBSET S)
      OBVIOUS
    <3> HIDE DEF bad
    <3> QED
      BY <1>1, <3>1, SmallestSubset
  <2>2. /\ g[s] = IF s = {} THEN 0 ELSE f[Pick(s)] + g[s \ {Pick(s)}]
        /\ h[s] = IF s = {} THEN 0 ELSE f[Pick(s)] + h[s \ {Pick(s)}]
    BY DEF SumsOf
  <2>3. s # {}
    BY <2>2
  <2>4. s \ {Pick(s)} \notin bad
    BY <2>1, <2>3, PickIsIn
  <2> QED
    BY <2>2, <2>4
<1>2. g = [s \in SUBSET S |-> g[s]] /\ h = [s \in SUBSET S |-> h[s]]
  BY DEF SumsOf
<1> QED
  BY <1>1, <1>2

(* There is a way to sum.                                                    *)
LEMMA SumsExist ==
    ASSUME NEW f, NEW S, IsFiniteSet(S)
    PROVE  \E g : SumsOf(f, S, g)
<1> DEFINE bad == {T \in SUBSET S : ~\E g : SumsOf(f, T, g)}
<1>1. SUFFICES ASSUME bad # {} PROVE FALSE
  OBVIOUS
<1>2. PICK T \in bad : \A U \in bad : U \subseteq T => U = T
  <2>1. bad \in SUBSET (SUBSET S)
    OBVIOUS
  <2> HIDE DEF bad
  <2> QED
    BY <1>1, <2>1, SmallestSubset
<1> DEFINE val(s) == (CHOOSE g : SumsOf(f, s, g))[s]
           G == [s \in SUBSET T |-> IF s = {} THEN 0
                                    ELSE IF s = T THEN f[Pick(T)] + val(T \ {Pick(T)}) ELSE val(s)]
<1>3. ASSUME NEW s \in SUBSET T, s # T PROVE SumsOf(f, s, CHOOSE g : SumsOf(f, s, g))
  BY <1>2, <1>3
<1>4. ASSUME NEW s \in SUBSET T, s # T PROVE val(s) = IF s = {} THEN 0 ELSE f[Pick(s)] + val(s \ {Pick(s)})
  <2> DEFINE g == CHOOSE g : SumsOf(f, s, g)
             r == s \ {Pick(s)}
             h == CHOOSE h : SumsOf(f, r, h)
  <2>1. SumsOf(f, s, g)
    BY <1>3, <1>4
  <2>2. g[s] = IF s = {} THEN 0 ELSE f[Pick(s)] + g[r]
    <3> HIDE DEF g
    <3> QED
      BY <2>1 DEF SumsOf
  <2>3. CASE s # {}
    <3>1. r \in SUBSET T /\ r # T /\ r \in SUBSET s /\ IsFiniteSet(r)
      <4>1. r \in SUBSET T /\ r # T /\ r \in SUBSET s
        BY <1>4, <2>3, PickIsIn
      <4>2. T \in SUBSET S
        OBVIOUS
      <4> QED
        BY <4>1, <4>2, FS_Subset
    <3>2. SumsOf(f, r, h)
      BY <1>3, <3>1
    <3>3. SumsOf(f, r, [u \in SUBSET r |-> g[u]])
      <4> HIDE DEF g, r
      <4> QED
        BY <2>1, <3>1, SumsRestrict
    <3>4. h = [u \in SUBSET r |-> g[u]]
      <4> HIDE DEF g, h, r
      <4> QED
        BY <3>1, <3>2, <3>3, SumsUnique
    <3>5. h[r] = g[r]
      <4> HIDE DEF g, h, r
      <4> QED
        BY <3>4
    <3> QED
      BY <2>2, <2>3, <3>5
  <2> QED
    BY <2>2, <2>3
<1>5. ASSUME NEW s \in SUBSET T, s # {}
      PROVE  /\ s \ {Pick(s)} \in SUBSET T /\ s \ {Pick(s)} # T
             /\ G[s \ {Pick(s)}] = val(s \ {Pick(s)})
  <2>1. s \ {Pick(s)} \in SUBSET T /\ s \ {Pick(s)} # T
    BY <1>5, PickIsIn
  <2> DEFINE r == s \ {Pick(s)}
  <2>2. val(r) = IF r = {} THEN 0 ELSE f[Pick(r)] + val(r \ {Pick(r)})
    <3> HIDE DEF r, val
    <3> QED
      BY <1>4, <2>1 DEF r
  <2>3. G[r] = val(r)
    <3> HIDE DEF r, val
    <3> QED
      BY <2>1, <2>2 DEF r
  <2> QED
    BY <2>1, <2>3
<1>6. ASSUME NEW s \in SUBSET T
      PROVE  G[s] = IF s = {} THEN 0 ELSE f[Pick(s)] + G[s \ {Pick(s)}]
  <2>1. CASE s = T
    <3> HIDE DEF val
    <3> QED
      BY <1>5, <2>1
  <2>2. CASE s # T
    <3>1. val(s) = IF s = {} THEN 0 ELSE f[Pick(s)] + val(s \ {Pick(s)})
      BY <1>4, <2>2
    <3> HIDE DEF val
    <3> QED
      BY <1>5, <2>2, <3>1
  <2> QED
    BY <2>1, <2>2
<1>7. SumsOf(f, T, G)
  <2> HIDE DEF val
  <2>1. G = [s \in SUBSET T |-> G[s]]
    OBVIOUS
  <2> HIDE DEF G
  <2> QED
    BY <1>6, <2>1 DEF SumsOf
<1> QED
  BY <1>2, <1>7

(* A sum is the number picked first and the sum of the rest.                 *)
LEMMA SumStep ==
    ASSUME NEW f, NEW S, IsFiniteSet(S)
    PROVE  SumOver(f, S) = IF S = {} THEN 0 ELSE f[Pick(S)] + SumOver(f, S \ {Pick(S)})
<1> DEFINE T == S \ {Pick(S)}
           g == CHOOSE g : SumsOf(f, S, g)
           h == CHOOSE h : SumsOf(f, T, h)
<1>1. SumsOf(f, S, g)
  BY SumsExist
<1>2. T \in SUBSET S /\ IsFiniteSet(T)
  BY FS_Subset
<1>3. SumsOf(f, T, h)
  <2> HIDE DEF T
  <2> QED
    BY <1>2, SumsExist
<1>4. SumsOf(f, T, [s \in SUBSET T |-> g[s]])
  <2> HIDE DEF T, g
  <2> QED
    BY <1>1, <1>2, SumsRestrict
<1>5. h[T] = g[T]
  <2> HIDE DEF T, g, h
  <2>1. h = [s \in SUBSET T |-> g[s]]
    BY <1>2, <1>3, <1>4, SumsUnique
  <2> QED
    BY <2>1
<1>6. g[S] = IF S = {} THEN 0 ELSE f[Pick(S)] + g[T]
  <2> HIDE DEF g
  <2> QED
    BY <1>1 DEF SumsOf
<1>7. SumOver(f, S) = g[S] /\ SumOver(f, T) = h[T]
  BY DEF SumOver
<1> QED
  <2> HIDE DEF g, h
  <2> QED
    BY <1>5, <1>6, <1>7

(* Whoever sums up all subsets in this way has the sum.                      *)
LEMMA SumsAreIt ==
    ASSUME NEW f, NEW S, IsFiniteSet(S), NEW g, SumsOf(f, S, g)
    PROVE  g[S] = SumOver(f, S)
<1> DEFINE h == CHOOSE h : SumsOf(f, S, h)
<1>1. SumsOf(f, S, h)
  BY SumsExist
<1>2. h = g
  <2> HIDE DEF h
  <2> QED
    BY <1>1, SumsUnique
<1> QED
  BY <1>2 DEF SumOver

(* The sum of nothing.                                                       *)
LEMMA SumEmpty == ASSUME NEW f PROVE SumOver(f, {}) = 0
  BY SumStep, FS_EmptySet

(* Numbers that are equal have equal sums.                                   *)
LEMMA SumSame ==
    ASSUME NEW S, IsFiniteSet(S), NEW f, NEW g, \A x \in S : f[x] = g[x]
    PROVE  SumOver(f, S) = SumOver(g, S)
<1> DEFINE bad == {T \in SUBSET S : SumOver(f, T) # SumOver(g, T)}
<1>1. ASSUME bad # {} PROVE FALSE
  <2>1. bad \in SUBSET (SUBSET S)
    OBVIOUS
  <2>2. PICK T \in bad : \A U \in bad : U \subseteq T => U = T
    <3> HIDE DEF bad
    <3> QED
      BY <1>1, <2>1, SmallestSubset
  <2>3. IsFiniteSet(T)
    BY FS_Subset
  <2>4. T # {}
    BY SumEmpty
  <2>5. Pick(T) \in T /\ f[Pick(T)] = g[Pick(T)]
    BY <2>4, PickIsIn
  <2>6. SumOver(f, T \ {Pick(T)}) = SumOver(g, T \ {Pick(T)})
    BY <2>2, <2>5
  <2> QED
    BY <2>3, <2>4, <2>5, <2>6, SumStep
<1> QED
  BY <1>1

(* A sum of integers is an integer.                                          *)
LEMMA SumIsInt ==
    ASSUME NEW S, IsFiniteSet(S), NEW f, \A x \in S : f[x] \in Int
    PROVE  SumOver(f, S) \in Int
<1> DEFINE bad == {T \in SUBSET S : SumOver(f, T) \notin Int}
<1>1. ASSUME bad # {} PROVE FALSE
  <2>1. bad \in SUBSET (SUBSET S)
    OBVIOUS
  <2>2. PICK T \in bad : \A U \in bad : U \subseteq T => U = T
    <3> HIDE DEF bad
    <3> QED
      BY <1>1, <2>1, SmallestSubset
  <2>3. IsFiniteSet(T)
    BY FS_Subset
  <2>4. T # {}
    BY SumEmpty
  <2>5. Pick(T) \in T /\ f[Pick(T)] \in Int
    BY <2>4, PickIsIn
  <2>6. SumOver(f, T \ {Pick(T)}) \in Int
    BY <2>2, <2>5
  <2> QED
    BY <2>3, <2>4, <2>5, <2>6, SumStep
<1> QED
  BY <1>1

(* It does not matter who is taken out first.                                *)
LEMMA SumRemove ==
    ASSUME NEW S, IsFiniteSet(S), NEW f, \A x \in S : f[x] \in Int, NEW x \in S
    PROVE  SumOver(f, S) = f[x] + SumOver(f, S \ {x})
<1> DEFINE bad == {T \in SUBSET S : \E y \in T : SumOver(f, T) # f[y] + SumOver(f, T \ {y})}
<1>1. ASSUME bad # {} PROVE FALSE
  <2>1. bad \in SUBSET (SUBSET S)
    OBVIOUS
  <2>2. PICK T \in bad : \A U \in bad : U \subseteq T => U = T
    <3> HIDE DEF bad
    <3> QED
      BY <1>1, <2>1, SmallestSubset
  <2>3. PICK y \in T : SumOver(f, T) # f[y] + SumOver(f, T \ {y})
    BY <2>2
  <2> DEFINE p == Pick(T)
             A == T \ {p}
             B == T \ {y}
             C == (T \ {p}) \ {y}
  <2>4. T \in SUBSET S /\ p \in T /\ p \in S /\ y \in S /\ y \in T
    BY <2>3, PickIsIn
  <2>5. IsFiniteSet(T) /\ IsFiniteSet(A) /\ IsFiniteSet(B) /\ IsFiniteSet(C)
    BY <2>4, FS_Subset
  <2>6. SumOver(f, T) = f[p] + SumOver(f, A)
    BY <2>4, <2>5, SumStep
  <2>7. y # p
    BY <2>3, <2>6
  <2>8. A \notin bad /\ B \notin bad
    BY <2>2, <2>4
  <2>9. A \in SUBSET S /\ B \in SUBSET S /\ y \in A /\ p \in B /\ B \ {p} = C /\ A \ {y} = C
    BY <2>4, <2>7
  <2>10. SumOver(f, A) = f[y] + SumOver(f, C) /\ SumOver(f, B) = f[p] + SumOver(f, C)
    <3>1. SumOver(f, A) = f[y] + SumOver(f, A \ {y}) /\ SumOver(f, B) = f[p] + SumOver(f, B \ {p})
      BY <2>8, <2>9
    <3> QED
      BY <3>1, <2>9
  <2>11. f[p] \in Int /\ f[y] \in Int /\ SumOver(f, C) \in Int
    <3>1. f[p] \in Int /\ f[y] \in Int
      BY <2>4
    <3>2. \A z \in C : f[z] \in Int
      BY <2>9
    <3> QED
      BY <3>1, <3>2, <2>5, SumIsInt
  <2> HIDE DEF p, A, B, C
  <2> QED
    BY <2>3, <2>6, <2>10, <2>11 DEF B
<1> QED
  BY <1>1

(* What is in neither of two sets twice is summed once.                      *)
LEMMA SumUnion ==
    ASSUME NEW S, IsFiniteSet(S), NEW R, IsFiniteSet(R), S \cap R = {},
           NEW f, \A x \in S \cup R : f[x] \in Int
    PROVE  SumOver(f, S \cup R) = SumOver(f, S) + SumOver(f, R)
<1> DEFINE bad == {T \in SUBSET S : SumOver(f, T \cup R) # SumOver(f, T) + SumOver(f, R)}
<1>1. ASSUME bad # {} PROVE FALSE
  <2>1. bad \in SUBSET (SUBSET S)
    OBVIOUS
  <2>2. PICK T \in bad : \A U \in bad : U \subseteq T => U = T
    <3> HIDE DEF bad
    <3> QED
      BY <1>1, <2>1, SmallestSubset
  <2>3. IsFiniteSet(T) /\ IsFiniteSet(T \cup R)
    BY FS_Subset, FS_Union
  <2>4. SumOver(f, R) \in Int
    BY SumIsInt
  <2>5. T # {}
    <3>1. ASSUME T = {} PROVE FALSE
      <4>1. T \cup R = R
        BY <3>1
      <4>2. SumOver(f, T) = 0
        BY <3>1, SumEmpty
      <4>3. SumOver(f, T \cup R) = SumOver(f, R)
        BY <4>1
      <4>4. SumOver(f, T \cup R) # SumOver(f, T) + SumOver(f, R)
        OBVIOUS
      <4> QED
        BY <2>4, <4>2, <4>3, <4>4
    <3> QED
      BY <3>1
  <2>6. PICK x \in T : TRUE
    BY <2>5
  <2>7. x \in S /\ x \notin R /\ f[x] \in Int
    OBVIOUS
  <2>8. SumOver(f, T) = f[x] + SumOver(f, T \ {x})
    BY <2>3, SumRemove
  <2>9. SumOver(f, T \cup R) = f[x] + SumOver(f, (T \ {x}) \cup R)
    <3>1. (T \cup R) \ {x} = (T \ {x}) \cup R
      BY <2>7
    <3>2. \A y \in T \cup R : f[y] \in Int
      OBVIOUS
    <3> QED
      BY <2>3, <3>1, <3>2, SumRemove
  <2>10. SumOver(f, (T \ {x}) \cup R) = SumOver(f, T \ {x}) + SumOver(f, R)
    BY <2>2
  <2>11. SumOver(f, T \ {x}) \in Int
    <3>1. IsFiniteSet(T \ {x}) /\ \A y \in T \ {x} : f[y] \in Int
      BY <2>3, FS_Subset
    <3> QED
      BY <3>1, SumIsInt
  <2> QED
    BY <2>4, <2>7, <2>8, <2>9, <2>10, <2>11
<1>2. S \notin bad
  BY <1>1
<1> QED
  BY <1>2

(* Rows that correspond one to one, with the same number in them, have the   *)
(* same sum.                                                                 *)
LEMMA SumAcross ==
    ASSUME NEW S, IsFiniteSet(S), NEW f, NEW g, NEW h,
           \A x \in S : f[x] \in Int /\ g[h[x]] = f[x],
           \A x, y \in S : h[x] = h[y] => x = y
    PROVE  SumOver(g, {h[x] : x \in S}) = SumOver(f, S)
<1> DEFINE image(T) == {h[x] : x \in T}
           bad == {T \in SUBSET S : SumOver(g, image(T)) # SumOver(f, T)}
<1>1. ASSUME bad # {} PROVE FALSE
  <2>1. bad \in SUBSET (SUBSET S)
    OBVIOUS
  <2>2. PICK T \in bad : \A U \in bad : U \subseteq T => U = T
    <3> HIDE DEF bad
    <3> QED
      BY <1>1, <2>1, SmallestSubset
  <2>3. IsFiniteSet(T) /\ IsFiniteSet(image(T))
    <3>1. IsFiniteSet(T)
      BY FS_Subset
    <3>2. [x \in T |-> h[x]] \in Surjection(T, image(T))
      BY DEF Surjection
    <3> QED
      BY <3>1, <3>2, FS_Surjection
  <2>4. T # {}
    <3>1. ASSUME T = {} PROVE FALSE
      <4>1. image(T) = {}
        BY <3>1
      <4>2. SumOver(f, T) = 0 /\ SumOver(g, image(T)) = 0
        BY <3>1, <4>1, SumEmpty
      <4> QED
        BY <4>2
    <3> QED
      BY <3>1
  <2>5. PICK x \in T : TRUE
    BY <2>4
  <2>6. SumOver(f, T) = f[x] + SumOver(f, T \ {x})
    BY <2>3, SumRemove
  <2>7. SumOver(g, image(T)) = g[h[x]] + SumOver(g, image(T) \ {h[x]})
    <3>1. \A y \in image(T) : g[y] \in Int
      OBVIOUS
    <3>2. h[x] \in image(T)
      OBVIOUS
    <3> HIDE DEF image
    <3> QED
      BY <2>3, <3>1, <3>2, SumRemove
  <2>8. image(T) \ {h[x]} = image(T \ {x})
    OBVIOUS
  <2>9. SumOver(g, image(T \ {x})) = SumOver(f, T \ {x})
    BY <2>2
  <2> QED
    BY <2>6, <2>7, <2>8, <2>9
<1>2. S \notin bad
  BY <1>1
<1> QED
  BY <1>2

(* Sizes of sets that share nothing add up to the size of their union.       *)
LEMMA SumOfSizes ==
    ASSUME NEW S, IsFiniteSet(S), NEW G, NEW f,
           \A x \in S : IsFiniteSet(G[x]) /\ f[x] = Cardinality(G[x]),
           \A x, y \in S : x # y => G[x] \cap G[y] = {}
    PROVE  /\ IsFiniteSet(UNION {G[x] : x \in S})
           /\ SumOver(f, S) = Cardinality(UNION {G[x] : x \in S})
<1> DEFINE all(T) == UNION {G[x] : x \in T}
           bad == {T \in SUBSET S : ~(IsFiniteSet(all(T)) /\ SumOver(f, T) = Cardinality(all(T)))}
<1>1. ASSUME bad # {} PROVE FALSE
  <2>1. bad \in SUBSET (SUBSET S)
    OBVIOUS
  <2>2. PICK T \in bad : \A U \in bad : U \subseteq T => U = T
    <3> HIDE DEF bad
    <3> QED
      BY <1>1, <2>1, SmallestSubset
  <2>3. IsFiniteSet(T) /\ T \subseteq S
    BY FS_Subset
  <2>4. T # {}
    <3>1. ASSUME T = {} PROVE FALSE
      <4>1. all(T) = {}
        BY <3>1
      <4>2. SumOver(f, T) = 0 /\ IsFiniteSet(all(T)) /\ Cardinality(all(T)) = 0
        BY <3>1, <4>1, SumEmpty, FS_EmptySet
      <4> QED
        BY <4>2
    <3> QED
      BY <3>1
  <2>5. PICK x \in T : TRUE
    BY <2>4
  <2>6. \A y \in T : f[y] \in Int
    BY <2>3, FS_CardinalityType
  <2>7. SumOver(f, T) = f[x] + SumOver(f, T \ {x})
    BY <2>3, <2>6, SumRemove
  <2>8. all(T) = G[x] \cup all(T \ {x}) /\ G[x] \cap all(T \ {x}) = {}
    BY <2>3
  <2>9. IsFiniteSet(all(T \ {x})) /\ SumOver(f, T \ {x}) = Cardinality(all(T \ {x}))
    BY <2>2
  <2>10. IsFiniteSet(G[x]) /\ f[x] = Cardinality(G[x])
    BY <2>3
  <2>11. /\ IsFiniteSet(G[x] \cup all(T \ {x}))
         /\ Cardinality(G[x] \cup all(T \ {x})) = Cardinality(G[x]) + Cardinality(all(T \ {x}))
    <3> HIDE DEF all
    <3>1. Cardinality(G[x] \cap all(T \ {x})) = 0
      BY <2>8, FS_EmptySet
    <3>2. Cardinality(G[x]) \in Nat /\ Cardinality(all(T \ {x})) \in Nat
      BY <2>9, <2>10, FS_CardinalityType
    <3>3. IsFiniteSet(G[x]) /\ IsFiniteSet(all(T \ {x}))
      BY <2>9, <2>10
    <3>4. /\ IsFiniteSet(G[x] \cup all(T \ {x}))
          /\ Cardinality(G[x] \cup all(T \ {x})) =
                Cardinality(G[x]) + Cardinality(all(T \ {x})) - Cardinality(G[x] \cap all(T \ {x}))
      BY <3>3, FS_Union
    <3> QED
      BY <3>1, <3>2, <3>4
  <2> QED
    BY <2>7, <2>8, <2>9, <2>10, <2>11
<1>2. S \notin bad
  BY <1>1
<1> QED
  BY <1>2

(* A set parted into finitely many groups, each with its size.               *)
Parted(all, S, G, f) ==
    /\ IsFiniteSet(S) /\ all = UNION {G[x] : x \in S}
    /\ \A x \in S : IsFiniteSet(G[x]) /\ f[x] = Cardinality(G[x])
    /\ \A x, y \in S : x # y => G[x] \cap G[y] = {}

(* Its size is the sum of theirs.                                            *)
LEMMA SizesAddUp ==
    ASSUME NEW all, NEW S, NEW G, NEW f, Parted(all, S, G, f)
    PROVE  IsFiniteSet(all) /\ SumOver(f, S) = Cardinality(all)
<1>1. /\ IsFiniteSet(UNION {G[x] : x \in S})
      /\ SumOver(f, S) = Cardinality(UNION {G[x] : x \in S})
  BY SumOfSizes, SMTT(60) DEF Parted
<1> QED
  BY <1>1 DEF Parted

(* Sums of integers may be taken the other way round.                        *)
LEMMA SumBackwards ==
    ASSUME NEW S, IsFiniteSet(S), NEW f, \A x \in S : f[x] \in Int
    PROVE  /\ \E g : g = [s \in SUBSET S |-> IF s = {} THEN 0 ELSE g[s \ {Pick(s)}] + f[Pick(s)]]
           /\ \A g : g = [s \in SUBSET S |-> IF s = {} THEN 0 ELSE g[s \ {Pick(s)}] + f[Pick(s)]]
                        => g[S] = SumOver(f, S)
<1> DEFINE G == [s \in SUBSET S |-> SumOver(f, s)]
<1>1. ASSUME NEW s \in SUBSET S
      PROVE  /\ G[s] \in Int
             /\ G[s] = IF s = {} THEN 0 ELSE G[s \ {Pick(s)}] + f[Pick(s)]
  <2>1. IsFiniteSet(s) /\ \A x \in s : f[x] \in Int
    BY FS_Subset
  <2>2. SumOver(f, s) \in Int
    BY <2>1, SumIsInt
  <2>3. CASE s # {}
    <3>1. Pick(s) \in s /\ s \ {Pick(s)} \in SUBSET S
      BY <2>3, PickIsIn
    <3>2. SumOver(f, s) = f[Pick(s)] + SumOver(f, s \ {Pick(s)})
      BY <2>1, <2>3, SumStep
    <3>3. SumOver(f, s \ {Pick(s)}) \in Int
      <4>1. IsFiniteSet(s \ {Pick(s)}) /\ \A x \in s \ {Pick(s)} : f[x] \in Int
        BY <2>1, FS_Subset
      <4> QED
        BY <4>1, SumIsInt
    <3> QED
      BY <2>1, <2>2, <2>3, <3>1, <3>2, <3>3
  <2>4. CASE s = {}
    BY <2>2, <2>4, SumEmpty
  <2> QED
    BY <2>3, <2>4
<1>2. G = [s \in SUBSET S |-> IF s = {} THEN 0 ELSE G[s \ {Pick(s)}] + f[Pick(s)]]
  <2>1. G = [s \in SUBSET S |-> G[s]]
    OBVIOUS
  <2> HIDE DEF G
  <2> QED
    BY <1>1, <2>1
<1>3. ASSUME NEW g, g = [s \in SUBSET S |-> IF s = {} THEN 0 ELSE g[s \ {Pick(s)}] + f[Pick(s)]]
      PROVE  g[S] = SumOver(f, S)
  <2> DEFINE bad == {s \in SUBSET S : g[s] # G[s]}
  <2>1. ASSUME bad # {} PROVE FALSE
    <3>1. bad \in SUBSET (SUBSET S)
      OBVIOUS
    <3>2. PICK s \in bad : \A u \in bad : u \subseteq s => u = s
      <4> HIDE DEF bad
      <4> QED
        BY <2>1, <3>1, SmallestSubset
    <3>3. g[s] = IF s = {} THEN 0 ELSE g[s \ {Pick(s)}] + f[Pick(s)]
      BY <1>3
    <3>4. G[s] = IF s = {} THEN 0 ELSE G[s \ {Pick(s)}] + f[Pick(s)]
      BY <1>1
    <3>5. s # {} => s \ {Pick(s)} \notin bad /\ s \ {Pick(s)} \in SUBSET S
      BY <3>2, PickIsIn
    <3> QED
      BY <3>2, <3>3, <3>4, <3>5
  <2> QED
    BY <2>1
<1> QED
  BY <1>2, <1>3

-----------------------------------------------------------------------------
(* Counting.                                                                 *)

(* Of finitely many things with a number each, one has a greatest number.    *)
LEMMA FiniteHasGreatest ==
    ASSUME NEW S, IsFiniteSet(S), S # {}, NEW f, \A x \in S : f[x] \in Int
    PROVE  \E x \in S : \A y \in S : f[y] <= f[x]
<1> DEFINE bad == {T \in SUBSET S : T # {} /\ ~(\E x \in T : \A y \in T : f[y] <= f[x])}
<1>1. ASSUME bad # {} PROVE FALSE
  <2>1. bad \in SUBSET (SUBSET S)
    OBVIOUS
  <2>2. PICK T \in bad : \A U \in bad : U \subseteq T => U = T
    <3> HIDE DEF bad
    <3> QED
      BY <1>1, <2>1, SmallestSubset
  <2>3. PICK t \in T : TRUE
    OBVIOUS
  <2>4. f[t] \in Int /\ \A x \in T : f[x] \in Int
    BY <2>3
  <2>5. T \ {t} # {}
    BY <2>3, <2>4
  <2>6. T \ {t} \notin bad
    BY <2>2, <2>3
  <2>7. PICK x \in T \ {t} : \A y \in T \ {t} : f[y] <= f[x]
    BY <2>5, <2>6
  <2>8. \E z \in T : \A y \in T : f[y] <= f[z]
    <3>1. CASE f[t] <= f[x]
      BY <2>7, <3>1
    <3>2. CASE ~(f[t] <= f[x])
      <4>1. \A y \in T \ {t} : f[y] <= f[t]
        BY <2>4, <2>7, <3>2
      <4> QED
        BY <2>3, <2>4, <4>1
    <3> QED
      BY <3>1, <3>2
  <2> QED
    BY <2>8
<1>2. S \notin bad
  BY <1>1
<1> QED
  BY <1>2

(* Places in a list, each with the number of those before it, are numbered   *)
(* without a gap and without a repetition.                                   *)
LEMMA RanksGrow ==
    ASSUME NEW R \in SUBSET Nat, IsFiniteSet(R), NEW i \in R, NEW j \in Nat, i < j
    PROVE  /\ Cardinality({k \in R : k < i}) \in Nat
           /\ Cardinality({k \in R : k < j}) \in Nat
           /\ Cardinality({k \in R : k < i}) < Cardinality({k \in R : k < j})
           /\ Cardinality({k \in R : k < j}) <= Cardinality(R)
<1> DEFINE A == {k \in R : k < i}
           B == {k \in R : k < j}
<1>1. A \in SUBSET B /\ i \in B /\ i \notin A /\ B \in SUBSET R
  <2>1. i \in Nat /\ \A k \in R : k \in Nat
    OBVIOUS
  <2>2. \A k \in R : k < i => k < j
    BY <2>1
  <2>3. A \subseteq B
    BY <2>2
  <2>4. i \in B /\ i \notin A
    BY <2>1
  <2> QED
    BY <2>3, <2>4
<1>2. IsFiniteSet(B) /\ Cardinality(B) <= Cardinality(R)
  <2> HIDE DEF B
  <2> QED
    BY <1>1, FS_Subset
<1>3. IsFiniteSet(A) /\ Cardinality(A) <= Cardinality(B) /\ Cardinality(A) # Cardinality(B)
  <2> HIDE DEF A, B
  <2> QED
    BY <1>1, <1>2, FS_Subset
<1>4. Cardinality(A) \in Nat /\ Cardinality(B) \in Nat
  <2> HIDE DEF A, B
  <2> QED
    BY <1>2, <1>3, FS_CardinalityType
<1> QED
  <2> HIDE DEF A, B
  <2>1. Cardinality(A) < Cardinality(B)
    BY <1>3, <1>4
  <2> QED
    BY <1>2, <1>4, <2>1 DEF A, B

LEMMA RanksAreInjective ==
    ASSUME NEW R \in SUBSET Nat, IsFiniteSet(R), NEW i \in R, NEW j \in R,
           Cardinality({k \in R : k < i}) = Cardinality({k \in R : k < j})
    PROVE  i = j
<1>1. i \in Nat /\ j \in Nat
  OBVIOUS
<1>2. ~(i < j)
  BY <1>1, RanksGrow
<1>3. ~(j < i)
  BY <1>1, RanksGrow
<1> QED
  BY <1>1, <1>2, <1>3

LEMMA RanksFillUp ==
    ASSUME NEW R \in SUBSET Nat, IsFiniteSet(R)
    PROVE  /\ Cardinality(R) \in Nat
           /\ {Cardinality({k \in R : k < i}) : i \in R} = 0..(Cardinality(R) - 1)
<1> DEFINE rank == [i \in R |-> Cardinality({k \in R : k < i})]
           I == {Cardinality({k \in R : k < i}) : i \in R}
           n == Cardinality(R)
<1>1. n \in Nat
  BY FS_CardinalityType
<1>2. \A i \in R : rank[i] \in Nat /\ rank[i] < n
  <2> SUFFICES ASSUME NEW i \in R PROVE rank[i] \in Nat /\ rank[i] < n
    OBVIOUS
  <2>1. i \in Nat /\ i + 1 \in Nat /\ i < i + 1
    OBVIOUS
  <2>2. /\ Cardinality({k \in R : k < i}) \in Nat
        /\ Cardinality({k \in R : k < i + 1}) \in Nat
        /\ Cardinality({k \in R : k < i}) < Cardinality({k \in R : k < i + 1})
        /\ Cardinality({k \in R : k < i + 1}) <= Cardinality(R)
    BY <2>1, RanksGrow
  <2>3. rank[i] = Cardinality({k \in R : k < i})
    OBVIOUS
  <2> HIDE DEF rank
  <2> QED
    BY <1>1, <2>2, <2>3
<1>3. I \in SUBSET (0..(n - 1))
  <2>1. I = {rank[i] : i \in R}
    OBVIOUS
  <2> HIDE DEF rank, I, n
  <2> QED
    BY <1>1, <1>2, <2>1
<1>4. rank \in Surjection(R, I)
  BY DEF Surjection
<1>5. rank \in Injection(R, I)
  <2>1. rank \in [R -> I]
    OBVIOUS
  <2>2. \A i, j \in R : rank[i] = rank[j] => i = j
    BY RanksAreInjective
  <2> HIDE DEF rank, I
  <2> QED
    BY <2>1, <2>2 DEF Injection, IsInjective
<1>6. IsFiniteSet(I) /\ Cardinality(I) = n
  <2> HIDE DEF rank, I
  <2> QED
    BY <1>4, <1>5, FS_Surjection DEF n
<1>7. IsFiniteSet(0..(n - 1)) /\ Cardinality(0..(n - 1)) = n
  <2>1. 0 \in Int /\ n - 1 \in Int
    BY <1>1
  <2> HIDE DEF n
  <2>2. /\ IsFiniteSet(0..(n - 1))
        /\ Cardinality(0..(n - 1)) = IF 0 > n - 1 THEN 0 ELSE (n - 1) - 0 + 1
    BY <2>1, FS_Interval
  <2> QED
    BY <1>1, <2>2
<1>8. 0..(n - 1) = I
  <2> HIDE DEF I, n
  <2> QED
    BY <1>3, <1>6, <1>7, FS_Subset
<1> QED
  BY <1>1, <1>8

(* The things a list of things is turned into are no more than they were, and *)
(* as many if no two are turned into one.                                    *)
LEMMA SizeAcross ==
    ASSUME NEW S, IsFiniteSet(S), NEW h
    PROVE  /\ IsFiniteSet({h[x] : x \in S})
           /\ Cardinality({h[x] : x \in S}) \in Nat /\ Cardinality(S) \in Nat
           /\ Cardinality({h[x] : x \in S}) <= Cardinality(S)
           /\ (\A x, y \in S : h[x] = h[y] => x = y) => Cardinality({h[x] : x \in S}) = Cardinality(S)
<1> DEFINE T == {h[x] : x \in S}
           e == [x \in S |-> h[x]]
<1>1. e \in Surjection(S, T)
  BY DEF Surjection
<1>2. (\A x, y \in S : h[x] = h[y] => x = y) => e \in Injection(S, T)
  <2>1. e \in [S -> T] /\ \A x \in S : e[x] = h[x]
    OBVIOUS
  <2> HIDE DEF e, T
  <2> QED
    BY <2>1 DEF Injection, IsInjective
<1> HIDE DEF e, T
<1>3. /\ IsFiniteSet(T) /\ Cardinality(T) <= Cardinality(S)
      /\ e \in Injection(S, T) => Cardinality(T) = Cardinality(S)
  BY <1>1, FS_Surjection
<1>4. Cardinality(T) \in Nat /\ Cardinality(S) \in Nat
  BY <1>3, FS_CardinalityType
<1> QED
  BY <1>2, <1>3, <1>4 DEF T
=============================================================================
