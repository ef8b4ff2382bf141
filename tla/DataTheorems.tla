----------------------------- MODULE DataTheorems -----------------------------
(***************************************************************************)
(* Facts about sets of numbers and sums over sets, for every set.          *)
(* Induction over data is done on the set of what has been shown so far:   *)
(* a least exception would have a predecessor that is none.                *)
(***************************************************************************)
EXTENDS Integers, FiniteSets, Functions, Pages, FiniteSetTheorems, WellFoundedInduction, TLAPS

LEMMA SmallestOf ==
  ASSUME NEW S \in SUBSET Nat, S # {}
  PROVE  \E m \in S : \A k \in S : m <= k
PROOF
  <1>1. PICK m \in S : \A k \in S : ~ (<<k, m>> \in OpToRel(<, Nat))
    BY NatLessThanWellFounded, WFMin
  <1>2. \A k \in S : ~ (k < m)
    BY <1>1 DEF OpToRel
  <1> QED BY <1>2

LEMMA GreatestOf ==
  ASSUME NEW n \in Nat, NEW S \in SUBSET (0..n), S # {}
  PROVE  \E m \in S : \A k \in S : k <= m
PROOF
  <1> DEFINE T == {d \in Nat : n - d \in S}
  <1>1. PICK k \in S : TRUE
    OBVIOUS
  <1>2. k \in Int /\ 0 <= k /\ k <= n /\ n - k \in Nat /\ n - (n - k) = k
    BY <1>1
  <1>3. T \in SUBSET Nat /\ T # {}
    BY <1>1, <1>2
  <1>4. PICK d \in T : \A e \in T : d <= e
    BY <1>3, SmallestOf
  <1>5. ASSUME NEW j \in S PROVE j <= n - d
    <2>1. j \in 0..n
      OBVIOUS
    <2>2. n - j \in Nat /\ n - (n - j) = j
      BY <2>1
    <2>3. n - j \in T
      BY <2>2
    <2>4. d <= n - j /\ d \in Nat
      BY <1>4, <2>3
    <2> HIDE DEF T
    <2> QED BY <2>1, <2>2, <2>4
  <1> QED BY <1>4, <1>5

\* A set with 0 and with the successor of each of its numbers has every number.
LEMMA NumberInduction ==
  ASSUME NEW P, 0 \in P, \A n \in Nat : n \in P => n + 1 \in P
  PROVE  Nat \subseteq P
PROOF
  <1> DEFINE Q == {n \in Nat : n \notin P}
  <1>1. SUFFICES ASSUME Q # {} PROVE FALSE
    OBVIOUS
  <1>2. PICK m \in Q : \A k \in Q : m <= k
    BY <1>1, SmallestOf
  <1>3. m \in Nat /\ m \notin P /\ m # 0
    BY <1>2
  <1>4. m - 1 \in Nat /\ ~ (m <= m - 1) /\ (m - 1) + 1 = m
    BY <1>3
  <1>5. m - 1 \in P
    BY <1>2, <1>4
  <1> QED BY <1>3, <1>4, <1>5

\* The same for the subsets of a finite set, which grow by one element.
LEMMA SubsetInduction ==
  ASSUME NEW S, IsFiniteSet(S), NEW P, {} \in P,
         \A T \in SUBSET S, x \in S : T \in P /\ x \notin T => T \cup {x} \in P
  PROVE  S \in P
PROOF
  <1> DEFINE Q == {n \in Nat : \E T \in SUBSET S : T \in P /\ Cardinality(S \ T) = n}
  <1>1. Q \in SUBSET Nat /\ Q # {}
    <2>1. Cardinality(S) \in Nat /\ S \ {} = S
      BY FS_CardinalityType
    <2>2. Cardinality(S) \in Q
      BY <2>1
    <2> QED BY <2>2
  <1>2. PICK m \in Q : \A k \in Q : m <= k
    BY <1>1, SmallestOf
  <1>3. PICK T \in SUBSET S : T \in P /\ Cardinality(S \ T) = m
    BY <1>2
  <1>4. IsFiniteSet(S \ T) /\ m \in Nat
    BY <1>2, FS_Difference
  <1>5. CASE S \ T = {}
    <2>1. T = S
      BY <1>5
    <2> QED BY <1>3, <2>1
  <1>6. CASE S \ T # {}
    <2>1. PICK x \in S \ T : TRUE
      BY <1>6
    <2>2. T \cup {x} \in P /\ T \cup {x} \in SUBSET S
      BY <1>3, <2>1
    <2>3. S \ (T \cup {x}) = (S \ T) \ {x}
      OBVIOUS
    <2>4. /\ IsFiniteSet((S \ T) \ {x})
          /\ Cardinality((S \ T) \ {x}) = IF x \in S \ T THEN Cardinality(S \ T) - 1 ELSE Cardinality(S \ T)
      BY <1>4, FS_RemoveElement
    <2>5. Cardinality((S \ T) \ {x}) = m - 1 /\ Cardinality((S \ T) \ {x}) \in Nat
      BY <1>3, <2>1, <2>4, FS_CardinalityType
    <2>6. m - 1 \in Q
      BY <2>2, <2>3, <2>5
    <2> HIDE DEF Q
    <2> QED BY <1>2, <1>4, <2>6
  <1> QED BY <1>5, <1>6
-----------------------------------------------------------------------------
(* Sums over finite sets.                                                   *)

Some(s) == CHOOSE x \in s : TRUE

\* g gives the sums over the sets of dom, as SumFunctionOnSet computes them.
SumsTo(fun, dom, g) ==
  g = [s \in dom |-> IF s = {} THEN 0 ELSE fun[Some(s)] + g[s \ {Some(s)}]]

LEMMA SumIs ==
  ASSUME NEW fun, NEW S
  PROVE  SumFunctionOnSet(fun, S) = (CHOOSE g : SumsTo(fun, SUBSET S, g))[S]
PROOF
  BY DEF SumFunctionOnSet, FoldFunctionOnSet, MapThenFoldSet, SumsTo, Some

\* There are such sums: those of sets of n + 1 elements come from those of n.
LEMMA SumExists ==
  ASSUME NEW fun, NEW S, IsFiniteSet(S)
  PROVE  \E g : SumsTo(fun, SUBSET S, g)
PROOF
  <1> DEFINE D(n) == {s \in SUBSET S : Cardinality(s) <= n}
             P == {n \in Nat : \E g : SumsTo(fun, D(n), g)}
  <1>1. \A s \in SUBSET S : IsFiniteSet(s) /\ Cardinality(s) \in Nat /\ Cardinality(s) <= Cardinality(S)
    BY FS_Subset, FS_CardinalityType
  <1>2. \A s \in SUBSET S : s # {} =>
          /\ Some(s) \in s /\ s \ {Some(s)} \in SUBSET S
          /\ Cardinality(s \ {Some(s)}) = Cardinality(s) - 1
    BY <1>1, FS_RemoveElement DEF Some
  <1>3. \A s \in SUBSET S : Cardinality(s) = 0 => s = {}
    BY <1>1, FS_EmptySet
  <1>4. 0 \in P
    <2> DEFINE g == [s \in D(0) |-> 0]
    <2>1. \A s \in D(0) : s = {}
      BY <1>1, <1>3
    <2>2. g = [s \in D(0) |-> IF s = {} THEN 0 ELSE fun[Some(s)] + g[s \ {Some(s)}]]
      BY <2>1
    <2>3. SumsTo(fun, D(0), g)
      BY <2>2 DEF SumsTo
    <2> QED BY <2>3
  <1>5. ASSUME NEW n \in Nat, n \in P PROVE n + 1 \in P
    <2>1. PICK f : SumsTo(fun, D(n), f)
      BY <1>5
    <2> DEFINE g == [s \in D(n + 1) |-> IF s = {} THEN 0 ELSE fun[Some(s)] + f[s \ {Some(s)}]]
    <2>2. f = [s \in D(n) |-> IF s = {} THEN 0 ELSE fun[Some(s)] + f[s \ {Some(s)}]]
      BY <2>1 DEF SumsTo
    <2>3. \A s \in D(n) : s \in D(n + 1)
      BY <1>1
    <2>4. \A s \in D(n) : f[s] = g[s]
      BY <2>2, <2>3
    <2>5. \A s \in D(n + 1) : s # {} => s \ {Some(s)} \in D(n)
      BY <1>1, <1>2
    <2>6. \A s \in D(n + 1) : g[s] = IF s = {} THEN 0 ELSE fun[Some(s)] + g[s \ {Some(s)}]
      BY <2>4, <2>5
    <2>7. g = [s \in D(n + 1) |-> IF s = {} THEN 0 ELSE fun[Some(s)] + g[s \ {Some(s)}]]
      BY <2>6
    <2>8. SumsTo(fun, D(n + 1), g)
      BY <2>7 DEF SumsTo
    <2> HIDE DEF g, D
    <2>9. \E h : SumsTo(fun, D(n + 1), h)
      BY <2>8
    <2> QED BY <2>9
  <1>6. Nat \subseteq P
    <2> HIDE DEF P
    <2> QED BY <1>4, <1>5, NumberInduction
  <1>7. Cardinality(S) \in P
    <2> HIDE DEF P
    <2> QED BY <1>1, <1>6
  <1>8. D(Cardinality(S)) = SUBSET S
    BY <1>1
  <1> QED BY <1>7, <1>8

\* All who compute sums agree on the sets they have in common.
LEMMA SumsAgree ==
  ASSUME NEW fun, NEW S, IsFiniteSet(S), NEW T \in SUBSET S, NEW f, NEW g,
         SumsTo(fun, SUBSET S, f), SumsTo(fun, SUBSET T, g)
  PROVE  f[T] = g[T]
PROOF
  <1> DEFINE P == {n \in Nat : \A s \in SUBSET T : Cardinality(s) = n => f[s] = g[s]}
  <1>1. \A s \in SUBSET S : IsFiniteSet(s) /\ Cardinality(s) \in Nat
    BY FS_Subset, FS_CardinalityType
  <1>2. \A s \in SUBSET T : s \in SUBSET S
    OBVIOUS
  <1>3. /\ f = [s \in SUBSET S |-> IF s = {} THEN 0 ELSE fun[Some(s)] + f[s \ {Some(s)}]]
        /\ g = [s \in SUBSET T |-> IF s = {} THEN 0 ELSE fun[Some(s)] + g[s \ {Some(s)}]]
    BY DEF SumsTo
  <1>4. \A s \in SUBSET T :
          /\ f[s] = IF s = {} THEN 0 ELSE fun[Some(s)] + f[s \ {Some(s)}]
          /\ g[s] = IF s = {} THEN 0 ELSE fun[Some(s)] + g[s \ {Some(s)}]
    BY <1>2, <1>3
  <1>5. 0 \in P
    BY <1>1, <1>2, <1>4, FS_EmptySet
  <1>6. ASSUME NEW n \in Nat, n \in P PROVE n + 1 \in P
    <2> SUFFICES ASSUME NEW s \in SUBSET T, Cardinality(s) = n + 1 PROVE f[s] = g[s]
      BY <1>6
    <2>1. s # {}
      <3> HIDE DEF P
      <3>1. Cardinality({}) = 0
        BY FS_EmptySet
      <3>2. n + 1 # 0
        OBVIOUS
      <3> QED BY <3>1, <3>2
    <2>2. Some(s) \in s /\ IsFiniteSet(s)
      BY <1>1, <1>2, <2>1 DEF Some
    <2>3. Cardinality(s \ {Some(s)}) = n
      <3>1. Cardinality(s \ {Some(s)}) = IF Some(s) \in s THEN Cardinality(s) - 1 ELSE Cardinality(s)
        BY <2>2, FS_RemoveElement
      <3> QED BY <2>2, <3>1
    <2>4. s \ {Some(s)} \in SUBSET T
      OBVIOUS
    <2>5. f[s \ {Some(s)}] = g[s \ {Some(s)}]
      BY <1>6, <2>3, <2>4
    <2> QED BY <1>4, <2>1, <2>5
  <1>7. Nat \subseteq P
    <2> HIDE DEF P
    <2> QED BY <1>5, <1>6, NumberInduction
  <1>8. Cardinality(T) \in P
    <2> HIDE DEF P
    <2> QED BY <1>1, <1>7
  <1> QED BY <1>8

LEMMA SumPicked ==
  ASSUME NEW fun, NEW S, IsFiniteSet(S)
  PROVE  \E g : SumsTo(fun, SUBSET S, g) /\ SumFunctionOnSet(fun, S) = g[S]
PROOF
  <1> DEFINE g == CHOOSE h : SumsTo(fun, SUBSET S, h)
  <1>1. SumsTo(fun, SUBSET S, g)
    BY SumExists
  <1>2. SumFunctionOnSet(fun, S) = g[S]
    BY SumIs
  <1> HIDE DEF g
  <1> QED BY <1>1, <1>2

LEMMA SumSteps ==
  ASSUME NEW fun, NEW S, IsFiniteSet(S)
  PROVE  /\ S = {} => SumFunctionOnSet(fun, S) = 0
         /\ S # {} => SumFunctionOnSet(fun, S) = fun[Some(S)] + SumFunctionOnSet(fun, S \ {Some(S)})
PROOF
  <1>1. PICK T : T = S \ {Some(S)}
    OBVIOUS
  <1>2. IsFiniteSet(T) /\ T \in SUBSET S
    BY <1>1, FS_Subset
  <1>3. PICK g : SumsTo(fun, SUBSET S, g) /\ SumFunctionOnSet(fun, S) = g[S]
    BY SumPicked
  <1>4. PICK k : SumsTo(fun, SUBSET T, k) /\ SumFunctionOnSet(fun, T) = k[T]
    BY <1>2, SumPicked
  <1>5. g[T] = k[T]
    BY <1>2, <1>3, <1>4, SumsAgree
  <1>6. g[S] = IF S = {} THEN 0 ELSE fun[Some(S)] + g[T]
    <2>1. g = [s \in SUBSET S |-> IF s = {} THEN 0 ELSE fun[Some(s)] + g[s \ {Some(s)}]]
      BY <1>3 DEF SumsTo
    <2>2. S \in SUBSET S
      OBVIOUS
    <2> QED BY <1>1, <2>1, <2>2
  <1> QED BY <1>1, <1>3, <1>4, <1>5, <1>6

LEMMA SumEmpty == ASSUME NEW fun PROVE SumFunctionOnSet(fun, {}) = 0
PROOF
  BY SumSteps, FS_EmptySet

\* A sum of integers is one.
LEMMA SumInt ==
  ASSUME NEW S, IsFiniteSet(S), NEW fun, \A x \in S : fun[x] \in Int
  PROVE  SumFunctionOnSet(fun, S) \in Int
PROOF
  <1> DEFINE P == {n \in Nat : \A T \in SUBSET S : Cardinality(T) = n => SumFunctionOnSet(fun, T) \in Int}
  <1>1. \A T \in SUBSET S : IsFiniteSet(T) /\ Cardinality(T) \in Nat
    BY FS_Subset, FS_CardinalityType
  <1>2. Cardinality({}) = 0
    BY FS_EmptySet
  <1>3. 0 \in P
    <2> SUFFICES ASSUME NEW T \in SUBSET S, Cardinality(T) = 0 PROVE SumFunctionOnSet(fun, T) \in Int
      OBVIOUS
    <2>1. T = {}
      BY <1>1, FS_EmptySet
    <2> QED BY <2>1, SumEmpty
  <1>4. ASSUME NEW n \in Nat, n \in P PROVE n + 1 \in P
    <2> SUFFICES ASSUME NEW T \in SUBSET S, Cardinality(T) = n + 1 PROVE SumFunctionOnSet(fun, T) \in Int
      BY <1>4
    <2>1. T # {} /\ IsFiniteSet(T)
      BY <1>1, <1>2
    <2>2. PICK x : x = Some(T) /\ x \in T
      BY <2>1 DEF Some
    <2>3. SumFunctionOnSet(fun, T) = fun[x] + SumFunctionOnSet(fun, T \ {x})
      BY <2>1, <2>2, SumSteps
    <2>4. Cardinality(T \ {x}) = IF x \in T THEN Cardinality(T) - 1 ELSE Cardinality(T)
      BY <2>1, FS_RemoveElement
    <2>5. Cardinality(T \ {x}) = n
      BY <2>2, <2>4
    <2>6. SumFunctionOnSet(fun, T \ {x}) \in Int
      BY <1>4, <2>5
    <2> QED BY <2>2, <2>3, <2>6
  <1>5. Nat \subseteq P
    <2> HIDE DEF P
    <2> QED BY <1>3, <1>4, NumberInduction
  <1>6. Cardinality(S) \in P
    <2> HIDE DEF P
    <2> QED BY <1>1, <1>5
  <1> QED BY <1>6

\* The elements may be taken in any order: one is added to the sum of the rest.
LEMMA SumRemove ==
  ASSUME NEW S, IsFiniteSet(S), NEW fun, \A y \in S : fun[y] \in Int, NEW x \in S
  PROVE  SumFunctionOnSet(fun, S) = fun[x] + SumFunctionOnSet(fun, S \ {x})
PROOF
  <1> DEFINE Sum(T) == SumFunctionOnSet(fun, T)
             P == {n \in Nat : \A T \in SUBSET S : Cardinality(T) = n => \A z \in T : Sum(T) = fun[z] + Sum(T \ {z})}
  <1>1. \A T \in SUBSET S : IsFiniteSet(T) /\ Cardinality(T) \in Nat /\ Sum(T) \in Int
    BY FS_Subset, FS_CardinalityType, SumInt
  <1>2. \A T \in SUBSET S : \A z \in T : Cardinality(T \ {z}) = Cardinality(T) - 1
    BY <1>1, FS_RemoveElement
  <1>3. \A T \in SUBSET S : T # {} => Some(T) \in T /\ Sum(T) = fun[Some(T)] + Sum(T \ {Some(T)})
    BY <1>1, SumSteps DEF Some
  <1> HIDE DEF Sum
  <1>4. 0 \in P
    <2>1. \A T \in SUBSET S : Cardinality(T) = 0 => T = {}
      BY <1>1, FS_EmptySet
    <2> QED BY <2>1
  <1>5. ASSUME NEW n \in Nat, n \in P PROVE n + 1 \in P
    <2> SUFFICES ASSUME NEW T \in SUBSET S, Cardinality(T) = n + 1, NEW z \in T
                 PROVE  Sum(T) = fun[z] + Sum(T \ {z})
      BY <1>5
    <2>1. PICK c : c = Some(T) /\ c \in T /\ Sum(T) = fun[c] + Sum(T \ {c})
      BY <1>3
    <2>2. CASE c = z
      BY <2>1, <2>2
    <2>3. CASE c # z
      <3>1. Cardinality(T \ {c}) = n /\ Cardinality(T \ {z}) = n
        BY <1>2, <2>1
      <3>2. Sum(T \ {c}) = fun[z] + Sum((T \ {c}) \ {z})
        BY <1>5, <2>3, <3>1
      <3>3. Sum(T \ {z}) = fun[c] + Sum((T \ {z}) \ {c})
        BY <1>5, <2>1, <2>3, <3>1
      <3>4. (T \ {c}) \ {z} = (T \ {z}) \ {c}
        OBVIOUS
      <3>5. PICK a, b, d \in Int : a = fun[c] /\ b = fun[z] /\ d = Sum((T \ {z}) \ {c})
        BY <1>1, <2>1
      <3>6. Sum(T) = a + (b + d) /\ Sum(T \ {z}) = a + d
        BY <2>1, <3>2, <3>3, <3>4, <3>5
      <3>7. a + (b + d) = b + (a + d)
        OBVIOUS
      <3> QED BY <3>5, <3>6, <3>7
    <2> QED BY <2>2, <2>3
  <1>6. Nat \subseteq P
    <2> HIDE DEF P
    <2> QED BY <1>4, <1>5, NumberInduction
  <1>7. Cardinality(S) \in P
    <2> HIDE DEF P
    <2> QED BY <1>1, <1>6
  <1> QED BY <1>7 DEF Sum

LEMMA SumAdd ==
  ASSUME NEW S, IsFiniteSet(S), NEW fun, NEW x, x \notin S, \A y \in S \cup {x} : fun[y] \in Int
  PROVE  SumFunctionOnSet(fun, S \cup {x}) = fun[x] + SumFunctionOnSet(fun, S)
PROOF
  <1>1. IsFiniteSet(S \cup {x})
    BY FS_AddElement
  <1>2. (S \cup {x}) \ {x} = S
    OBVIOUS
  <1>3. PICK T : T = S \cup {x}
    OBVIOUS
  <1>4. SumFunctionOnSet(fun, T) = fun[x] + SumFunctionOnSet(fun, T \ {x})
    BY <1>1, <1>3, SumRemove
  <1> QED BY <1>2, <1>3, <1>4

\* Sums over disjoint sets add up to the sum over their union.
LEMMA SumDisjoint ==
  ASSUME NEW S, IsFiniteSet(S), NEW T, IsFiniteSet(T), S \cap T = {},
         NEW fun, \A y \in S \cup T : fun[y] \in Int
  PROVE  SumFunctionOnSet(fun, S \cup T) = SumFunctionOnSet(fun, S) + SumFunctionOnSet(fun, T)
PROOF
  <1> DEFINE Sum(R) == SumFunctionOnSet(fun, R)
             P == {R \in SUBSET T : Sum(S \cup R) = Sum(S) + Sum(R)}
  <1>1. \A R \in SUBSET T : IsFiniteSet(R) /\ IsFiniteSet(S \cup R) /\ Sum(R) \in Int /\ Sum(S \cup R) \in Int
    <2> SUFFICES ASSUME NEW R \in SUBSET T
                 PROVE  IsFiniteSet(R) /\ IsFiniteSet(S \cup R) /\ Sum(R) \in Int /\ Sum(S \cup R) \in Int
      OBVIOUS
    <2>1. IsFiniteSet(R) /\ IsFiniteSet(S \cup R)
      BY FS_Subset, FS_Union
    <2>2. PICK U : U = S \cup R
      OBVIOUS
    <2>3. Sum(U) \in Int
      BY <2>1, <2>2, SumInt
    <2>4. Sum(R) \in Int
      BY <2>1, SumInt
    <2> QED BY <2>1, <2>2, <2>3, <2>4
  <1>2. Sum(S) \in Int
    BY SumInt
  <1>3. {} \in P
    <2>1. S \cup {} = S /\ Sum({}) = 0
      BY SumEmpty
    <2> QED BY <1>2, <2>1
  <1>4. ASSUME NEW R \in SUBSET T, NEW x \in T, R \in P, x \notin R PROVE R \cup {x} \in P
    <2>1. Sum(R \cup {x}) = fun[x] + Sum(R)
      <3>1. IsFiniteSet(R) /\ \A y \in R \cup {x} : fun[y] \in Int
        BY <1>1
      <3> QED BY <1>4, <3>1, SumAdd
    <2>2. PICK U : U = S \cup R
      OBVIOUS
    <2>3. S \cup (R \cup {x}) = U \cup {x} /\ x \notin U /\ IsFiniteSet(U) /\ \A y \in U \cup {x} : fun[y] \in Int
      BY <1>1, <1>4, <2>2
    <2>4. Sum(U \cup {x}) = fun[x] + Sum(U)
      BY <2>3, SumAdd
    <2>5. PICK a, b, d \in Int : a = fun[x] /\ b = Sum(S) /\ d = Sum(R)
      BY <1>1, <1>2
    <2>6. Sum(U) = b + d
      BY <1>4, <2>2, <2>5
    <2>7. a + (b + d) = b + (a + d)
      OBVIOUS
    <2>8. Sum(S \cup (R \cup {x})) = Sum(S) + Sum(R \cup {x})
      BY <2>1, <2>3, <2>4, <2>5, <2>6, <2>7
    <2> HIDE DEF Sum
    <2> QED BY <2>8
  <1>5. T \in P
    <2> HIDE DEF P
    <2> QED BY <1>3, <1>4, SubsetInduction
  <1> QED BY <1>5

\* A sum of naturals is one, and no less than the sum over a part.
LEMMA SumNat ==
  ASSUME NEW S, IsFiniteSet(S), NEW fun, \A y \in S : fun[y] \in Nat
  PROVE  SumFunctionOnSet(fun, S) \in Nat
PROOF
  <1> DEFINE P == {R \in SUBSET S : SumFunctionOnSet(fun, R) \in Nat}
  <1>1. {} \in P
    BY SumEmpty
  <1>2. ASSUME NEW R \in SUBSET S, NEW x \in S, R \in P, x \notin R PROVE R \cup {x} \in P
    <2>1. IsFiniteSet(R) /\ \A y \in R \cup {x} : fun[y] \in Int
      BY FS_Subset
    <2>2. SumFunctionOnSet(fun, R \cup {x}) = fun[x] + SumFunctionOnSet(fun, R)
      BY <1>2, <2>1, SumAdd
    <2>3. fun[x] \in Nat /\ SumFunctionOnSet(fun, R) \in Nat
      BY <1>2
    <2>4. SumFunctionOnSet(fun, R \cup {x}) \in Nat
      BY <2>2, <2>3
    <2> QED BY <2>4
  <1>3. S \in P
    <2> HIDE DEF P
    <2> QED BY <1>1, <1>2, SubsetInduction
  <1> QED BY <1>3

LEMMA SumMonotone ==
  ASSUME NEW S, IsFiniteSet(S), NEW T \in SUBSET S, NEW fun, \A y \in S : fun[y] \in Nat
  PROVE  SumFunctionOnSet(fun, T) <= SumFunctionOnSet(fun, S)
PROOF
  <1>1. PICK R : R = S \ T
    OBVIOUS
  <1>2. IsFiniteSet(T) /\ IsFiniteSet(R) /\ T \cap R = {} /\ T \cup R = S
    BY <1>1, FS_Subset
  <1>3. SumFunctionOnSet(fun, T) \in Nat /\ SumFunctionOnSet(fun, R) \in Nat
    BY <1>1, <1>2, SumNat
  <1>4. SumFunctionOnSet(fun, T \cup R) = SumFunctionOnSet(fun, T) + SumFunctionOnSet(fun, R)
    <2>1. \A y \in T \cup R : fun[y] \in Int
      BY <1>1
    <2> QED BY <1>2, <2>1, SumDisjoint
  <1>5. SumFunctionOnSet(fun, S) = SumFunctionOnSet(fun, T) + SumFunctionOnSet(fun, R)
    BY <1>2, <1>4
  <1> QED BY <1>3, <1>5

\* Sums of two functions over one set, element by element.
LEMMA SumEqual ==
  ASSUME NEW S, IsFiniteSet(S), NEW f, NEW g, \A y \in S : f[y] \in Int /\ f[y] = g[y]
  PROVE  SumFunctionOnSet(f, S) = SumFunctionOnSet(g, S)
PROOF
  <1> DEFINE P == {R \in SUBSET S : SumFunctionOnSet(f, R) = SumFunctionOnSet(g, R)}
  <1>1. {} \in P
    BY SumEmpty
  <1>2. ASSUME NEW R \in SUBSET S, NEW x \in S, R \in P, x \notin R PROVE R \cup {x} \in P
    <2>1. IsFiniteSet(R) /\ (\A y \in R \cup {x} : f[y] \in Int) /\ (\A y \in R \cup {x} : g[y] \in Int)
      BY FS_Subset
    <2>2. SumFunctionOnSet(f, R \cup {x}) = f[x] + SumFunctionOnSet(f, R)
      BY <1>2, <2>1, SumAdd
    <2>3. SumFunctionOnSet(g, R \cup {x}) = g[x] + SumFunctionOnSet(g, R)
      BY <1>2, <2>1, SumAdd
    <2>4. SumFunctionOnSet(f, R) = SumFunctionOnSet(g, R)
      BY <1>2
    <2> QED BY <2>2, <2>3, <2>4
  <1>3. S \in P
    <2> HIDE DEF P
    <2> QED BY <1>1, <1>2, SubsetInduction
  <1> QED BY <1>3

LEMMA SumPlus ==
  ASSUME NEW S, IsFiniteSet(S), NEW f, NEW g, NEW h,
         \A y \in S : f[y] \in Int /\ g[y] \in Int /\ h[y] = f[y] + g[y]
  PROVE  SumFunctionOnSet(h, S) = SumFunctionOnSet(f, S) + SumFunctionOnSet(g, S)
PROOF
  <1> DEFINE P == {R \in SUBSET S : SumFunctionOnSet(h, R) = SumFunctionOnSet(f, R) + SumFunctionOnSet(g, R)}
  <1>1. {} \in P
    BY SumEmpty
  <1>2. ASSUME NEW R \in SUBSET S, NEW x \in S, R \in P, x \notin R PROVE R \cup {x} \in P
    <2>1. /\ IsFiniteSet(R)
          /\ \A y \in R \cup {x} : f[y] \in Int
          /\ \A y \in R \cup {x} : g[y] \in Int
          /\ \A y \in R \cup {x} : h[y] \in Int
      BY FS_Subset
    <2>2. SumFunctionOnSet(f, R \cup {x}) = f[x] + SumFunctionOnSet(f, R)
      BY <1>2, <2>1, SumAdd
    <2>3. SumFunctionOnSet(g, R \cup {x}) = g[x] + SumFunctionOnSet(g, R)
      BY <1>2, <2>1, SumAdd
    <2>4. SumFunctionOnSet(h, R \cup {x}) = h[x] + SumFunctionOnSet(h, R)
      BY <1>2, <2>1, SumAdd
    <2>5. PICK a, b, c, d \in Int : /\ a = f[x] /\ b = g[x]
                                    /\ c = SumFunctionOnSet(f, R) /\ d = SumFunctionOnSet(g, R)
      BY <2>1, SumInt
    <2>6. h[x] = a + b /\ SumFunctionOnSet(h, R) = c + d
      BY <1>2, <2>5
    <2>7. (a + b) + (c + d) = (a + c) + (b + d)
      OBVIOUS
    <2>8. SumFunctionOnSet(h, R \cup {x}) = SumFunctionOnSet(f, R \cup {x}) + SumFunctionOnSet(g, R \cup {x})
      BY <2>2, <2>3, <2>4, <2>5, <2>6, <2>7
    <2> QED BY <2>8
  <1>3. S \in P
    <2> HIDE DEF P
    <2> QED BY <1>1, <1>2, SubsetInduction
  <1> QED BY <1>3

\* A sum may be taken part by part.
LEMMA SumParts ==
  ASSUME NEW I, IsFiniteSet(I), NEW S, IsFiniteSet(S), NEW fun, \A y \in S : fun[y] \in Int,
         NEW portion, \A i \in I : portion[i] \in SUBSET S,
         \A i, j \in I : i # j => portion[i] \cap portion[j] = {},
         NEW sums, \A i \in I : sums[i] = SumFunctionOnSet(fun, portion[i])
  PROVE  SumFunctionOnSet(sums, I) = SumFunctionOnSet(fun, UNION {portion[i] : i \in I})
PROOF
  <1> DEFINE All(J) == UNION {portion[i] : i \in J}
             P == {J \in SUBSET I : SumFunctionOnSet(sums, J) = SumFunctionOnSet(fun, All(J))}
  <1>1. {} \in P
    <2>1. All({}) = {}
      OBVIOUS
    <2> QED BY <2>1, SumEmpty
  <1>2. \A i \in I : IsFiniteSet(portion[i]) /\ sums[i] \in Int
    <2> SUFFICES ASSUME NEW i \in I PROVE IsFiniteSet(portion[i]) /\ sums[i] \in Int
      OBVIOUS
    <2>1. PICK T : T = portion[i]
      OBVIOUS
    <2>2. T \in SUBSET S /\ IsFiniteSet(T) /\ \A y \in T : fun[y] \in Int
      BY <2>1, FS_Subset
    <2>3. SumFunctionOnSet(fun, T) \in Int
      BY <2>2, SumInt
    <2> QED BY <2>1, <2>2, <2>3
  <1>3. ASSUME NEW J \in SUBSET I, NEW i \in I, J \in P, i \notin J PROVE J \cup {i} \in P
    <2>1. PICK T, U : T = portion[i] /\ U = All(J)
      OBVIOUS
    <2>2. IsFiniteSet(T) /\ U \in SUBSET S /\ T \in SUBSET S
      BY <1>2, <2>1
    <2>3. IsFiniteSet(U) /\ \A y \in U \cup T : fun[y] \in Int
      BY <2>2, FS_Subset
    <2>4. U \cap T = {}
      <3> SUFFICES ASSUME NEW y \in U, y \in T PROVE FALSE
        OBVIOUS
      <3>1. PICK j \in J : y \in portion[j]
        BY <2>1
      <3>2. j # i
        BY <1>3
      <3>3. portion[i] \cap portion[j] = {}
        BY <3>2
      <3> QED BY <2>1, <3>1, <3>3
    <2>5. SumFunctionOnSet(fun, U \cup T) = SumFunctionOnSet(fun, U) + SumFunctionOnSet(fun, T)
      BY <2>2, <2>3, <2>4, SumDisjoint
    <2>6. All(J \cup {i}) = U \cup T
      BY <2>1
    <2>7. IsFiniteSet(J) /\ \A k \in J \cup {i} : sums[k] \in Int
      BY <1>2, FS_Subset
    <2>8. SumFunctionOnSet(sums, J \cup {i}) = sums[i] + SumFunctionOnSet(sums, J)
      BY <1>3, <2>7, SumAdd
    <2>9. SumFunctionOnSet(sums, J) = SumFunctionOnSet(fun, U)
      BY <1>3, <2>1
    <2>10. sums[i] = SumFunctionOnSet(fun, T)
      BY <2>1
    <2>11. PICK a, b \in Int : a = SumFunctionOnSet(fun, U) /\ b = SumFunctionOnSet(fun, T)
      BY <2>2, <2>3, SumInt
    <2>12. a + b = b + a
      OBVIOUS
    <2>13. SumFunctionOnSet(sums, J \cup {i}) = SumFunctionOnSet(fun, All(J \cup {i}))
      BY <2>5, <2>6, <2>8, <2>9, <2>10, <2>11, <2>12
    <2> QED BY <2>13
  <1>4. I \in P
    <2> HIDE DEF P
    <2> QED BY <1>1, <1>3, SubsetInduction
  <1> QED BY <1>4

\* To count is to sum ones.
LEMMA SumOnes ==
  ASSUME NEW S, IsFiniteSet(S), NEW ones, \A y \in S : ones[y] = 1
  PROVE  SumFunctionOnSet(ones, S) = Cardinality(S)
PROOF
  <1> DEFINE P == {R \in SUBSET S : SumFunctionOnSet(ones, R) = Cardinality(R)}
  <1>1. {} \in P
    BY SumEmpty, FS_EmptySet
  <1>2. ASSUME NEW R \in SUBSET S, NEW x \in S, R \in P, x \notin R PROVE R \cup {x} \in P
    <2>1. IsFiniteSet(R) /\ \A y \in R \cup {x} : ones[y] \in Int
      BY FS_Subset
    <2>2. SumFunctionOnSet(ones, R \cup {x}) = ones[x] + SumFunctionOnSet(ones, R)
      BY <1>2, <2>1, SumAdd
    <2>3. Cardinality(R \cup {x}) = IF x \in R THEN Cardinality(R) ELSE Cardinality(R) + 1
      BY <2>1, FS_AddElement
    <2>4. Cardinality(R) \in Nat
      BY <2>1, FS_CardinalityType
    <2>5. SumFunctionOnSet(ones, R \cup {x}) = 1 + Cardinality(R)
      BY <1>2, <2>2
    <2>6. SumFunctionOnSet(ones, R \cup {x}) = Cardinality(R \cup {x})
      BY <1>2, <2>3, <2>4, <2>5
    <2> QED BY <2>6
  <1>3. S \in P
    <2> HIDE DEF P
    <2> QED BY <1>1, <1>2, SubsetInduction
  <1> QED BY <1>3
-----------------------------------------------------------------------------
(* Pages of a list that is ordered by id, latest first.                     *)

LEMMA NumbersBelow ==
  ASSUME NEW n \in Nat, NEW S \in SUBSET (0..n)
  PROVE  /\ S \subseteq Int /\ S \subseteq Nat /\ IsFiniteSet(S) /\ Cardinality(S) \in Nat
         /\ \A i : /\ IsFiniteSet(Before(S, i)) /\ Before(S, i) \subseteq S
                  /\ Cardinality(Before(S, i)) \in Nat
PROOF
  <1>1. IsFiniteSet(0..n)
    BY FS_Interval
  <1>2. IsFiniteSet(S)
    BY <1>1, FS_Subset
  <1>3. ASSUME NEW i PROVE Before(S, i) \subseteq S /\ IsFiniteSet(Before(S, i))
    <2>1. Before(S, i) \subseteq S
      BY DEF Before
    <2> QED BY <1>2, <2>1, FS_Subset
  <1> QED BY <1>2, <1>3, FS_CardinalityType

\* A page has the latest ids: what is not on it is earlier than all on it; it is
\* empty only if there are none or no room; it has them all unless there are too
\* many, and then it is full.
LEMMA LatestRows ==
  ASSUME NEW n \in Nat, NEW S \in SUBSET (0..n), NEW limit \in Nat
  PROVE  /\ LatestOf(S, limit) \subseteq S /\ IsFiniteSet(S)
         /\ \A i \in S \ LatestOf(S, limit), j \in LatestOf(S, limit) : i < j
         /\ limit # 0 => \A i \in S : \E j \in LatestOf(S, limit) : i <= j
         /\ Cardinality(S) <= limit => LatestOf(S, limit) = S
         /\ Cardinality(LatestOf(S, limit)) \in Nat
         /\ Cardinality(LatestOf(S, limit)) <= limit
         /\ LatestOf(S, limit) # S => Cardinality(LatestOf(S, limit)) >= limit
PROOF
  <1> DEFINE L == LatestOf(S, limit)
  <1>1. S \subseteq Nat /\ IsFiniteSet(S)
    BY NumbersBelow
  <1>2. \A i \in S : IsFiniteSet(Before(S, i)) /\ Before(S, i) \subseteq S /\ Cardinality(Before(S, i)) \in Nat
    BY NumbersBelow
  <1>3. ASSUME NEW i \in S \ L, NEW j \in L PROVE i < j
    <2>1. j \in S /\ ~ (Cardinality(Before(S, i)) < limit) /\ Cardinality(Before(S, j)) < limit
      BY DEF LatestOf
    <2>2. SUFFICES ASSUME j <= i PROVE FALSE
      BY <1>1, <2>1
    <2>3. Before(S, i) \subseteq Before(S, j)
      <3>1. i \in Nat /\ j \in Nat
        BY <1>1, <2>1
      <3>2. ASSUME NEW k \in S, k > i PROVE k > j
        BY <1>1, <2>2, <3>1, <3>2
      <3> QED BY <3>2 DEF Before
    <2>4. Cardinality(Before(S, i)) <= Cardinality(Before(S, j))
      BY <1>2, <2>1, <2>3, FS_Subset
    <2> QED BY <1>2, <2>1, <2>4
  <1>4. ASSUME limit # 0, NEW i \in S PROVE \E j \in L : i <= j
    <2>1. PICK j \in S : \A k \in S : k <= j
      BY GreatestOf
    <2>2. Before(S, j) = {}
      <3>1. \A k \in S : ~ (k > j)
        BY <1>1, <2>1
      <3> QED BY <3>1 DEF Before
    <2>3. j \in L
      BY <1>4, <2>2, FS_EmptySet DEF LatestOf
    <2> QED BY <2>1, <2>3
  <1>5. ASSUME Cardinality(S) <= limit, NEW i \in S PROVE i \in L
    <2>1. Before(S, i) \subseteq S /\ Before(S, i) # S
      BY <1>1 DEF Before
    <2>2. Cardinality(Before(S, i)) < Cardinality(S)
      BY <1>1, <2>1, FS_Subset, FS_CardinalityType
    <2> QED BY <1>1, <1>2, <1>5, <2>2, FS_CardinalityType DEF LatestOf
  <1>6. L \subseteq S
    BY DEF LatestOf
  <1>7. IsFiniteSet(L) /\ Cardinality(L) \in Nat
    BY <1>1, <1>6, FS_Subset, FS_CardinalityType
  <1>8. Cardinality(L) <= limit
    <2>1. CASE L = {}
      BY <2>1, FS_EmptySet
    <2>2. CASE L # {}
      <3>1. L \in SUBSET Nat
        BY <1>1, <1>6
      <3>2. PICK j \in L : \A k \in L : j <= k
        BY <2>2, <3>1, SmallestOf
      <3>3. L \ {j} \subseteq Before(S, j)
        <4>1. ASSUME NEW k \in L \ {j} PROVE k \in S /\ k > j
          <5>1. k \in S /\ j \in S /\ j <= k /\ k # j
            BY <1>6, <3>2
          <5> QED BY <1>1, <5>1
        <4> QED BY <4>1 DEF Before
      <3>4. Cardinality(L \ {j}) = Cardinality(L) - 1
        <4>1. Cardinality(L \ {j}) = IF j \in L THEN Cardinality(L) - 1 ELSE Cardinality(L)
          BY <1>7, FS_RemoveElement
        <4> QED BY <4>1
      <3>5. Cardinality(L \ {j}) <= Cardinality(Before(S, j))
        BY <1>2, <1>6, <3>3, FS_Subset
      <3>6. Cardinality(Before(S, j)) < limit /\ Cardinality(Before(S, j)) \in Nat
        BY <1>2, <1>6 DEF LatestOf
      <3> QED BY <1>7, <3>4, <3>5, <3>6
    <2> QED BY <2>1, <2>2
  <1>9. ASSUME L # S PROVE Cardinality(L) >= limit
    <2>1. S \ L # {} /\ S \ L \in SUBSET (0..n)
      BY <1>6, <1>9
    <2>2. PICK i \in S \ L : \A k \in S \ L : k <= i
      BY <2>1, GreatestOf
    <2>3. Before(S, i) \subseteq L
      <3>1. ASSUME NEW k \in S, k > i, k \notin L PROVE FALSE
        BY <1>1, <2>2, <3>1
      <3> QED BY <3>1 DEF Before
    <2>4. Cardinality(Before(S, i)) <= Cardinality(L)
      BY <1>7, <2>3, FS_Subset
    <2>5. ~ (Cardinality(Before(S, i)) < limit) /\ Cardinality(Before(S, i)) \in Nat
      BY <1>2, <2>2 DEF LatestOf
    <2> QED BY <1>7, <2>4, <2>5
  <1> QED BY <1>1, <1>3, <1>4, <1>5, <1>6, <1>7, <1>8, <1>9

\* Who comes later in the list has more before him.
LEMMA RanksDiffer ==
  ASSUME NEW n \in Nat, NEW S \in SUBSET (0..n), NEW i \in S, NEW j \in S, i < j
  PROVE  Cardinality(Before(S, j)) < Cardinality(Before(S, i))
PROOF
  <1>1. S \subseteq Nat /\ IsFiniteSet(S)
    BY NumbersBelow
  <1>2. Before(S, j) \subseteq Before(S, i) /\ j \in Before(S, i) /\ j \notin Before(S, j)
    <2>1. \A k \in S : k > j => k > i
      BY <1>1
    <2>2. j > i /\ ~ (j > j)
      BY <1>1
    <2> QED BY <2>1, <2>2 DEF Before
  <1>3. IsFiniteSet(Before(S, i))
    BY <1>1, FS_Subset DEF Before
  <1> QED BY <1>2, <1>3, FS_Subset, FS_CardinalityType

\* When a row goes, at most one moves up to the pages before, and none if it was
\* behind them; when rows come, none does.
LEMMA LatestWithout ==
  ASSUME NEW n \in Nat, NEW S \in SUBSET (0..n), NEW limit \in Nat, NEW id
  PROVE  /\ \E x : LatestOf(S \ {id}, limit) \subseteq (LatestOf(S, limit) \ {id}) \cup {x}
         /\ id \notin LatestOf(S, limit) => LatestOf(S \ {id}, limit) \subseteq LatestOf(S, limit)
PROOF
  <1> DEFINE L == LatestOf(S, limit)
             K == LatestOf(S \ {id}, limit)
  <1>1. S \subseteq Nat /\ IsFiniteSet(S)
    BY NumbersBelow
  <1>2. \A i \in S : IsFiniteSet(Before(S, i)) /\ Cardinality(Before(S, i)) \in Nat
    BY NumbersBelow
  <1>3. ASSUME NEW i \in K \ L
        PROVE  i \in S /\ id \in Before(S, i) /\ Cardinality(Before(S, i)) = limit
    <2>1. i \in S /\ Cardinality(Before(S \ {id}, i)) < limit /\ ~ (Cardinality(Before(S, i)) < limit)
      BY DEF LatestOf
    <2>2. Before(S \ {id}, i) = Before(S, i) \ {id}
      BY DEF Before
    <2>3. Cardinality(Before(S, i) \ {id}) =
            IF id \in Before(S, i) THEN Cardinality(Before(S, i)) - 1 ELSE Cardinality(Before(S, i))
      BY <1>2, <2>1, FS_RemoveElement
    <2> QED BY <1>2, <2>1, <2>2, <2>3
  <1>4. ASSUME NEW i \in K \ L, NEW j \in K \ L PROVE i = j
    <2>1. /\ i \in S /\ Cardinality(Before(S, i)) = limit
          /\ j \in S /\ Cardinality(Before(S, j)) = limit
      BY <1>3
    <2>2. ~ (limit < limit) /\ i \in Nat /\ j \in Nat
      BY <1>1, <2>1
    <2>3. ~ (i < j) /\ ~ (j < i)
      BY <2>1, <2>2, RanksDiffer
    <2> QED BY <2>2, <2>3
  <1>5. K \subseteq S \ {id}
    BY DEF LatestOf
  <1>6. \E x : K \subseteq (L \ {id}) \cup {x}
    <2>1. CASE K \subseteq L
      BY <1>5, <2>1
    <2>2. CASE ~ (K \subseteq L)
      <3>1. PICK x \in K \ L : TRUE
        BY <2>2
      <3>2. K \subseteq (L \ {id}) \cup {x}
        BY <1>4, <1>5, <3>1
      <3> QED BY <3>2
    <2> QED BY <2>1, <2>2
  <1>7. ASSUME id \notin L, NEW i \in K PROVE i \in L
    <2> SUFFICES ASSUME i \notin L PROVE FALSE
      OBVIOUS
    <2>1. i \in S /\ id \in Before(S, i) /\ Cardinality(Before(S, i)) = limit
      BY <1>3
    <2>2. id \in S /\ i < id
      BY <1>1, <2>1 DEF Before
    <2>3. Cardinality(Before(S, id)) < limit
      BY <2>1, <2>2, RanksDiffer
    <2> QED BY <1>7, <2>2, <2>3 DEF LatestOf
  <1> QED BY <1>6, <1>7

LEMMA LatestAmongMore ==
  ASSUME NEW n \in Nat, NEW S \in SUBSET (0..n), NEW T \in SUBSET S, NEW limit \in Nat
  PROVE  LatestOf(S, limit) \cap T \subseteq LatestOf(T, limit)
PROOF
  <1>1. S \subseteq Nat /\ IsFiniteSet(S)
    BY NumbersBelow
  <1>2. ASSUME NEW i \in T, Cardinality(Before(S, i)) < limit
        PROVE  Cardinality(Before(T, i)) < limit
    <2>1. IsFiniteSet(Before(S, i)) /\ Before(T, i) \subseteq Before(S, i)
      BY <1>1, FS_Subset DEF Before
    <2>2. Cardinality(Before(T, i)) <= Cardinality(Before(S, i)) /\ IsFiniteSet(Before(T, i))
      BY <2>1, FS_Subset
    <2> QED BY <1>2, <2>1, <2>2, FS_CardinalityType
  <1> QED BY <1>2 DEF LatestOf

\* Pages that grow in size take in what the shorter ones have.
LEMMA LatestLonger ==
  ASSUME NEW n \in Nat, NEW S \in SUBSET (0..n), NEW k \in Nat, NEW l \in Nat, k <= l
  PROVE  LatestOf(S, k) \subseteq LatestOf(S, l)
PROOF
  <1>1. S \subseteq Nat /\ IsFiniteSet(S)
    BY NumbersBelow
  <1>2. \A i \in S : Cardinality(Before(S, i)) \in Nat
    BY NumbersBelow
  <1>3. ASSUME NEW i \in S, Cardinality(Before(S, i)) < k PROVE Cardinality(Before(S, i)) < l
    BY <1>2, <1>3
  <1> QED BY <1>3 DEF LatestOf

\* One more element counts one more at most.
LEMMA CountOneMore ==
  ASSUME NEW S, IsFiniteSet(S), NEW T, NEW x, T \subseteq S \cup {x}
  PROVE  /\ IsFiniteSet(T) /\ Cardinality(T) \in Nat /\ Cardinality(S) \in Nat
         /\ Cardinality(T) <= Cardinality(S) + 1
PROOF
  <1>1. IsFiniteSet(S \cup {x})
        /\ Cardinality(S \cup {x}) = IF x \in S THEN Cardinality(S) ELSE Cardinality(S) + 1
    BY FS_AddElement
  <1>2. Cardinality(S) \in Nat /\ IsFiniteSet(T) /\ Cardinality(T) <= Cardinality(S \cup {x})
    BY <1>1, FS_Subset, FS_CardinalityType
  <1> QED BY <1>1, <1>2, FS_CardinalityType
=============================================================================
