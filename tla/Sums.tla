-------------------------------- MODULE Sums ---------------------------------
(***************************************************************************)
(* Sums of finitely many numbers and the largest of them, as folds and     *)
(* choices of the community modules: what the proofs about counted seconds *)
(* and about queues rest on.                                               *)
(***************************************************************************)
EXTENDS FiniteSetsExt, FiniteSetTheorems, WellFoundedInduction, TLAPS

\* Numbers have a least one.  It stands in for induction: a statement about all
\* finite sets holds if there is no least size of a counterexample.
LEMMA LeastNumber ==
    ASSUME NEW T, T \subseteq Nat, T # {}
    PROVE  \E x \in T : \A y \in T : x <= y
<1> DEFINE R == OpToRel(<, Nat)
<1>1. IsWellFoundedOn(R, Nat)
  BY NatLessThanWellFounded
<1>2. R = {p \in Nat \X Nat : p[1] < p[2]}
  BY DEF OpToRel
<1> HIDE DEF R
<1>3. PICK x \in T : \A y \in T : ~ (<<y, x>> \in R)
  BY <1>1, WFMin
<1>4. \A y \in T : ~(y < x)
  BY <1>2, <1>3
<1> QED BY <1>4

\* Places in a sequence, if any, have a last one.
LEMMA LastOf ==
    ASSUME NEW n \in Nat, NEW T \in SUBSET (1 .. n), T # {}
    PROVE  Max(T) \in T /\ \A i \in T : i <= Max(T)
<1> DEFINE B == {n - i : i \in T}
<1>0. \A i \in T : i \in Nat /\ i <= n
  OBVIOUS
<1>1. B \in SUBSET Nat /\ B # {}
  <2>1. \A i \in T : n - i \in Nat
    BY <1>0
  <2>2. \A b \in B : b \in Nat
    BY <2>1
  <2> QED BY <2>2
<1>2. PICK b \in B : \A y \in B : b <= y
  BY <1>1, LeastNumber
<1>3. PICK m \in T : b = n - m
  BY <1>2
<1>4. \A i \in T : m >= i
  <2> SUFFICES ASSUME NEW i \in T PROVE m >= i
    OBVIOUS
  <2>1. n - i \in B
    OBVIOUS
  <2>2. b <= n - i
    BY <1>2, <2>1
  <2> QED BY <1>0, <1>3, <2>2
<1>5. Max(T) \in T /\ \A i \in T : Max(T) >= i
  BY <1>3, <1>4 DEF Max
<1> QED BY <1>0, <1>5

-----------------------------------------------------------------------------

\* The fold takes the elements of a set in the order of CHOOSE.
Chosen(T) == CHOOSE x \in T : TRUE

\* G has the partial sums of f.
PartialSums(G, f, S) ==
    /\ G \in [SUBSET S -> Int]
    /\ G[{}] = 0
    /\ \A T \in SUBSET S : T # {} => G[T] = f[Chosen(T)] + G[T \ {Chosen(T)}]

\* The element chosen is one of the set.
LEMMA ChosenIsIn == \A T : T # {} => Chosen(T) \in T
BY DEF Chosen

\* A finite set without its chosen element is smaller.
LEMMA WithoutChosen ==
    ASSUME NEW S, IsFiniteSet(S), NEW T \in SUBSET S, T # {}
    PROVE  /\ T \ {Chosen(T)} \in SUBSET S
           /\ Cardinality(T) \in Nat /\ Cardinality(T \ {Chosen(T)}) \in Nat
           /\ Cardinality(T \ {Chosen(T)}) = Cardinality(T) - 1
<1>1. IsFiniteSet(T)
  BY FS_Subset
<1>2. IsFiniteSet(T \ {Chosen(T)})
  BY <1>1, FS_RemoveElement
<1> QED BY <1>1, <1>2, FS_RemoveElement, FS_CardinalityType, ChosenIsIn

\* What adds up like the sum is the sum.
LEMMA SumIs ==
    ASSUME NEW S, IsFiniteSet(S), NEW f \in [S -> Int], NEW G, PartialSums(G, f, S)
    PROVE  SumFunction(f) = G[S]
<1> DEFINE Body(g) == [T \in SUBSET S |-> IF T = {} THEN 0
                                          ELSE f[CHOOSE x \in T : TRUE] + g[T \ {CHOOSE x \in T : TRUE}]]
           iter == CHOOSE g : g = Body(g)
<1>1. G = Body(G)
  BY DEF PartialSums, Chosen
<1>2. iter = Body(iter)
  BY <1>1
<1>3. SumFunction(f) = iter[S]
  BY DEF SumFunction, SumFunctionOnSet, FoldFunctionOnSet, MapThenFoldSet
<1>4. \A T \in SUBSET S : iter[T] = IF T = {} THEN 0
                                    ELSE f[Chosen(T)] + iter[T \ {Chosen(T)}]
  BY <1>2 DEF Chosen
<1> HIDE DEF iter
<1> DEFINE Bad == {n \in Nat : \E T \in SUBSET S : Cardinality(T) = n /\ iter[T] # G[T]}
<1>5. Bad = {}
  <2> SUFFICES ASSUME Bad # {} PROVE FALSE
    OBVIOUS
  <2>1. PICK n \in Bad : \A m \in Bad : n <= m
    BY LeastNumber
  <2>2. PICK T \in SUBSET S : Cardinality(T) = n /\ iter[T] # G[T]
    BY <2>1
  <2>3. T # {}
    BY <1>4, <2>2 DEF PartialSums
  <2>4. iter[T \ {Chosen(T)}] = G[T \ {Chosen(T)}]
    BY <2>1, <2>2, <2>3, WithoutChosen
  <2> QED BY <1>4, <2>2, <2>3, <2>4 DEF PartialSums
<1>6. Cardinality(S) \in Nat
  BY FS_CardinalityType
<1> QED BY <1>3, <1>5, <1>6

\* There are partial sums of every function.
LEMMA SumExists ==
    ASSUME NEW S, IsFiniteSet(S), NEW f \in [S -> Int]
    PROVE  \E G : PartialSums(G, f, S)
<1> DEFINE Upto(G, n) == /\ G \in [SUBSET S -> Int]
                         /\ G[{}] = 0
                         /\ \A T \in SUBSET S : T # {} /\ Cardinality(T) <= n =>
                               G[T] = f[Chosen(T)] + G[T \ {Chosen(T)}]
           Bad == {n \in Nat : ~ \E G : Upto(G, n)}
<1>1. Bad = {}
  <2> SUFFICES ASSUME Bad # {} PROVE FALSE
    OBVIOUS
  <2>1. PICK n \in Bad : \A m \in Bad : n <= m
    BY LeastNumber
  <2>2. n # 0
    <3> DEFINE Z == [T \in SUBSET S |-> 0]
    <3>1. ASSUME NEW T \in SUBSET S, T # {}
          PROVE  ~(Cardinality(T) <= 0)
      <4>1. /\ Cardinality(T) \in Nat /\ Cardinality(T \ {Chosen(T)}) \in Nat
            /\ Cardinality(T \ {Chosen(T)}) = Cardinality(T) - 1
        BY <3>1, WithoutChosen
      <4> QED BY <4>1
    <3>2. Upto(Z, 0)
      BY <3>1
    <3>3. \E G : Upto(G, 0)
      BY <3>2
    <3> QED BY <3>3
  <2>3. n - 1 \in Nat /\ n - 1 \notin Bad
    <3> HIDE DEF Bad
    <3>1. n \in Nat
      BY DEF Bad
    <3> QED BY <2>1, <2>2, <3>1
  <2>4. PICK G : Upto(G, n - 1)
    BY <2>3
  <2> DEFINE H == [T \in SUBSET S |-> IF T = {} THEN 0 ELSE f[Chosen(T)] + G[T \ {Chosen(T)}]]
  <2>5. H \in [SUBSET S -> Int] /\ H[{}] = 0
    BY <2>4, ChosenIsIn
  <2>6. ASSUME NEW T \in SUBSET S, T # {}, Cardinality(T) <= n
        PROVE  H[T] = f[Chosen(T)] + H[T \ {Chosen(T)}]
    <3> DEFINE U == T \ {Chosen(T)}
    <3>1. U \in SUBSET S /\ (U # {} => Cardinality(U) <= n - 1)
      BY <2>6, WithoutChosen
    <3>2. H[U] = G[U]
      BY <2>4, <3>1
    <3> QED BY <2>6, <3>2
  <2>7. Upto(H, n)
    BY <2>5, <2>6
  <2> QED BY <2>1, <2>7
<1>2. Cardinality(S) \in Nat /\ \A T \in SUBSET S : Cardinality(T) <= Cardinality(S)
  BY FS_CardinalityType, FS_Subset
<1>3. PICK G : Upto(G, Cardinality(S))
  BY <1>1, <1>2
<1>4. PartialSums(G, f, S)
  BY <1>2, <1>3 DEF PartialSums
<1> QED BY <1>4

\* The sum of integers is an integer, and there are partial sums that lead to it.
LEMMA SumHasPartialSums ==
    ASSUME NEW S, IsFiniteSet(S), NEW f \in [S -> Int]
    PROVE  \E G : PartialSums(G, f, S) /\ SumFunction(f) = G[S] /\ G[S] \in Int
<1>1. PICK G : PartialSums(G, f, S)
  BY SumExists
<1>2. SumFunction(f) = G[S]
  BY <1>1, SumIs
<1>3. G[S] \in Int
  BY <1>1 DEF PartialSums
<1> QED BY <1>1, <1>2, <1>3

\* Sums add.
LEMMA SumOfTwo ==
    ASSUME NEW S, IsFiniteSet(S), NEW f \in [S -> Int], NEW d \in [S -> Int]
    PROVE  SumFunction([x \in S |-> f[x] + d[x]]) = SumFunction(f) + SumFunction(d)
<1>1. PICK G : PartialSums(G, f, S) /\ SumFunction(f) = G[S]
  BY SumHasPartialSums
<1>2. PICK D : PartialSums(D, d, S) /\ SumFunction(d) = D[S]
  BY SumHasPartialSums
<1> DEFINE H == [T \in SUBSET S |-> G[T] + D[T]]
           e == [x \in S |-> f[x] + d[x]]
<1>3. e \in [S -> Int] /\ H \in [SUBSET S -> Int] /\ H[{}] = 0
  BY <1>1, <1>2 DEF PartialSums
<1>4. ASSUME NEW T \in SUBSET S, T # {}
      PROVE  H[T] = e[Chosen(T)] + H[T \ {Chosen(T)}]
  <2>1. Chosen(T) \in S /\ T \ {Chosen(T)} \in SUBSET S
    BY <1>4, ChosenIsIn
  <2>2. /\ G[T] = f[Chosen(T)] + G[T \ {Chosen(T)}]
        /\ D[T] = d[Chosen(T)] + D[T \ {Chosen(T)}]
    BY <1>1, <1>2, <1>4 DEF PartialSums
  <2>3. /\ f[Chosen(T)] \in Int /\ d[Chosen(T)] \in Int
        /\ G[T \ {Chosen(T)}] \in Int /\ D[T \ {Chosen(T)}] \in Int
    BY <1>1, <1>2, <2>1 DEF PartialSums
  <2> QED BY <2>1, <2>2, <2>3
<1>5. PartialSums(H, e, S)
  BY <1>3, <1>4 DEF PartialSums
<1>6. SumFunction(e) = H[S]
  BY <1>3, <1>5, SumIs
<1> QED BY <1>1, <1>2, <1>6

\* The sum of a function that is zero except at h is what it is at h.
LEMMA SumOfOne ==
    ASSUME NEW S, IsFiniteSet(S), NEW f \in [S -> Int], NEW h \in S,
           \A x \in S : x # h => f[x] = 0
    PROVE  SumFunction(f) = f[h]
<1> DEFINE H == [T \in SUBSET S |-> IF h \in T THEN f[h] ELSE 0]
<1>1. H \in [SUBSET S -> Int] /\ H[{}] = 0
  OBVIOUS
<1>2. ASSUME NEW T \in SUBSET S, T # {}
      PROVE  H[T] = f[Chosen(T)] + H[T \ {Chosen(T)}]
  <2>1. Chosen(T) \in T /\ T \ {Chosen(T)} \in SUBSET S
    BY <1>2, ChosenIsIn
  <2>2. CASE Chosen(T) = h
    <3>1. H[T] = f[h] /\ H[T \ {Chosen(T)}] = 0
      BY <2>1, <2>2
    <3> QED BY <2>2, <3>1
  <2>3. CASE Chosen(T) # h
    <3>1. H[T] = H[T \ {Chosen(T)}] /\ H[T] \in Int
      BY <2>1, <2>3
    <3>2. f[Chosen(T)] = 0
      BY <2>1, <2>3
    <3> QED BY <3>1, <3>2
  <2> QED BY <2>2, <2>3
<1>3. PartialSums(H, f, S)
  BY <1>1, <1>2 DEF PartialSums
<1> QED BY <1>3, SumIs

\* The image of a finite set is finite.
LEMMA ImageIsFinite ==
    ASSUME NEW T, IsFiniteSet(T), NEW F
    PROVE  IsFiniteSet({F[x] : x \in T})
<1> DEFINE V == {F[x] : x \in T}
           g == [x \in T |-> F[x]]
<1>1. \A x \in T : g[x] = F[x] /\ F[x] \in V
  OBVIOUS
<1>2. g \in [T -> V]
  OBVIOUS
<1>3. ASSUME NEW y \in V PROVE \E x \in T : g[x] = y
  <2>1. PICK x \in T : y = F[x]
    BY <1>3
  <2> QED BY <1>1, <2>1
<1> HIDE DEF g, V
<1>4. g \in Surjection(T, V)
  BY <1>2, <1>3 DEF Surjection
<1>5. IsFiniteSet(V)
  BY <1>4, FS_Surjection
<1> QED BY <1>5 DEF V

\* Finite sets that have nothing in common hold together as many elements as
\* one after the other.
LEMMA SumOfCardinalities ==
    ASSUME NEW S, IsFiniteSet(S), NEW F, NEW f \in [S -> Nat], NEW U,
           \A x \in S : IsFiniteSet(F[x]) /\ f[x] = Cardinality(F[x]),
           \A x, y \in S : x # y => F[x] \cap F[y] = {},
           U = UNION {F[x] : x \in S}
    PROVE  IsFiniteSet(U) /\ SumFunction(f) = Cardinality(U)
<1> DEFINE Of(T) == UNION {F[x] : x \in T}
           H == [T \in SUBSET S |-> Cardinality(Of(T))]
<1>1. ASSUME NEW T \in SUBSET S
      PROVE  IsFiniteSet(Of(T))
  <2>1. IsFiniteSet(T)
    BY FS_Subset
  <2>2. IsFiniteSet({F[x] : x \in T})
    BY <2>1, ImageIsFinite
  <2>3. \A y \in {F[x] : x \in T} : IsFiniteSet(y)
    OBVIOUS
  <2> QED BY <2>2, <2>3, FS_UNION
<1>2. f \in [S -> Int] /\ H \in [SUBSET S -> Int]
  BY <1>1, FS_CardinalityType
<1>3. H[{}] = 0
  <2>1. Of({}) = {}
    OBVIOUS
  <2>2. H[{}] = Cardinality({})
    BY <2>1
  <2> QED BY <2>2, FS_EmptySet
<1>4. ASSUME NEW T \in SUBSET S, T # {}
      PROVE  H[T] = f[Chosen(T)] + H[T \ {Chosen(T)}]
  <2>1. Chosen(T) \in T /\ T \ {Chosen(T)} \in SUBSET S
    BY <1>4, ChosenIsIn
  <2>2. /\ Of(T) = F[Chosen(T)] \cup Of(T \ {Chosen(T)})
        /\ F[Chosen(T)] \cap Of(T \ {Chosen(T)}) = {}
    BY <2>1
  <2>3. IsFiniteSet(F[Chosen(T)]) /\ IsFiniteSet(Of(T \ {Chosen(T)}))
    BY <1>1, <2>1
  <2>4. Cardinality(Of(T)) = Cardinality(F[Chosen(T)]) + Cardinality(Of(T \ {Chosen(T)}))
    <3> HIDE DEF Of
    <3>1. Cardinality(Of(T)) = Cardinality(F[Chosen(T)]) + Cardinality(Of(T \ {Chosen(T)}))
                               - Cardinality(F[Chosen(T)] \cap Of(T \ {Chosen(T)}))
      BY <2>2, <2>3, FS_Union
    <3>2. Cardinality(F[Chosen(T)]) \in Nat /\ Cardinality(Of(T \ {Chosen(T)})) \in Nat
      BY <2>3, FS_CardinalityType
    <3>3. Cardinality(F[Chosen(T)] \cap Of(T \ {Chosen(T)})) = 0
      BY <2>2, FS_EmptySet
    <3> QED BY <3>1, <3>2, <3>3
  <2>5. H[T] = Cardinality(Of(T)) /\ f[Chosen(T)] = Cardinality(F[Chosen(T)])
        /\ H[T \ {Chosen(T)}] = Cardinality(Of(T \ {Chosen(T)}))
    BY <2>1
  <2> HIDE DEF Of, H
  <2> QED BY <2>4, <2>5
<1>5. PartialSums(H, f, S)
  BY <1>2, <1>3, <1>4 DEF PartialSums
<1>6. SumFunction(f) = H[S]
  BY <1>2, <1>5, SumIs
<1> QED BY <1>1, <1>6

\* What the elements of a set have can be counted together, each with its own.
LEMMA SumOfPairs ==
    ASSUME NEW S, IsFiniteSet(S), NEW F, NEW f \in [S -> Nat], NEW U,
           \A x \in S : IsFiniteSet(F[x]) /\ f[x] = Cardinality(F[x]),
           U = UNION {{x} \X F[x] : x \in S}
    PROVE  IsFiniteSet(U) /\ SumFunction(f) = Cardinality(U)
<1> DEFINE P == [x \in S |-> {x} \X F[x]]
<1>1. ASSUME NEW x \in S PROVE IsFiniteSet(P[x]) /\ f[x] = Cardinality(P[x])
  <2>1. IsFiniteSet({x}) /\ Cardinality({x}) = 1
    BY FS_Singleton
  <2>2. IsFiniteSet(F[x]) /\ f[x] = Cardinality(F[x]) /\ f[x] \in Nat
    OBVIOUS
  <2>3. IsFiniteSet({x} \X F[x]) /\ Cardinality({x} \X F[x]) = 1 * Cardinality(F[x])
    BY <2>1, <2>2, FS_Product
  <2>4. 1 * Cardinality(F[x]) = f[x]
    BY <2>2
  <2> QED BY <2>3, <2>4
<1>2. \A x, y \in S : x # y => P[x] \cap P[y] = {}
  OBVIOUS
<1>3. U = UNION {P[x] : x \in S}
  OBVIOUS
<1> HIDE DEF P
<1> QED BY <1>1, <1>2, <1>3, SumOfCardinalities

\* The sum of a group: those that K takes to k.
SumOfGroup(f, S, K, k) == SumFunction([x \in {y \in S : K[y] = k} |-> f[x]])

\* The sum of a group is a number.
LEMMA SumOfGroupIsInt ==
    ASSUME NEW S, IsFiniteSet(S), NEW f \in [S -> Nat], NEW K, NEW k
    PROVE  SumOfGroup(f, S, K, k) \in Int
<1> DEFINE T == {y \in S : K[y] = k}
           g == [x \in T |-> f[x]]
<1>1. IsFiniteSet(T) /\ g \in [T -> Int]
  BY FS_Subset
<1>2. SumOfGroup(f, S, K, k) = SumFunction(g)
  BY DEF SumOfGroup
<1> HIDE DEF T, g
<1> QED BY <1>1, <1>2, SumHasPartialSums

\* A sum is the sum of the sums of its groups.
LEMMA SumByGroups ==
    ASSUME NEW S, IsFiniteSet(S), NEW F, NEW f \in [S -> Nat], NEW K, NEW D, NEW c \in [D -> Int],
           \A x \in S : IsFiniteSet(F[x]) /\ f[x] = Cardinality(F[x]),
           D = {K[x] : x \in S},
           \A k \in D : c[k] = SumOfGroup(f, S, K, k)
    PROVE  SumFunction(c) = Cardinality(UNION {{x} \X F[x] : x \in S})
<1> DEFINE Of(k) == {y \in S : K[y] = k}
           G == [k \in D |-> UNION {{x} \X F[x] : x \in Of(k)}]
           U == UNION {{x} \X F[x] : x \in S}
<1>1. IsFiniteSet(D)
  BY ImageIsFinite
<1>2. ASSUME NEW k \in D
      PROVE  IsFiniteSet(G[k]) /\ c[k] = Cardinality(G[k])
  <2> DEFINE g == [x \in Of(k) |-> f[x]]
  <2>1. IsFiniteSet(Of(k)) /\ g \in [Of(k) -> Nat]
    BY FS_Subset
  <2>2. \A x \in Of(k) : IsFiniteSet(F[x]) /\ g[x] = Cardinality(F[x])
    OBVIOUS
  <2>3. c[k] = SumFunction(g)
    BY DEF SumOfGroup
  <2>4. G[k] = UNION {{x} \X F[x] : x \in Of(k)}
    OBVIOUS
  <2> HIDE DEF g, Of, G
  <2> QED BY <2>1, <2>2, <2>3, <2>4, SumOfPairs
<1>3. \A k, l \in D : k # l => G[k] \cap G[l] = {}
  <2> SUFFICES ASSUME NEW k \in D, NEW l \in D, NEW p \in G[k], p \in G[l] PROVE k = l
    OBVIOUS
  <2>1. PICK x \in Of(k) : p \in {x} \X F[x]
    OBVIOUS
  <2>2. PICK y \in Of(l) : p \in {y} \X F[y]
    OBVIOUS
  <2> QED BY <2>1, <2>2
<1>4. U = UNION {G[k] : k \in D}
  <2>1. ASSUME NEW p \in U PROVE p \in UNION {G[k] : k \in D}
    <3>1. PICK x \in S : p \in {x} \X F[x]
      OBVIOUS
    <3>2. K[x] \in D /\ x \in Of(K[x])
      OBVIOUS
    <3>3. p \in G[K[x]]
      BY <3>1, <3>2
    <3> QED BY <3>2, <3>3
  <2>2. ASSUME NEW k \in D, NEW p \in G[k] PROVE p \in U
    OBVIOUS
  <2> HIDE DEF G, U
  <2> QED BY <2>1, <2>2
<1> HIDE DEF G, U
<1>5. c \in [D -> Nat]
  <2>1. \A k \in D : c[k] \in Nat
    BY <1>2, FS_CardinalityType
  <2> QED BY <2>1
<1>6. \A k \in D : IsFiniteSet(G[k]) /\ c[k] = Cardinality(G[k])
  BY <1>2
<1>7. SumFunction(c) = Cardinality(U)
  BY <1>1, <1>3, <1>4, <1>5, <1>6, SumOfCardinalities
<1> QED BY <1>7 DEF U

\* As many numbers from a up to b as b is more than a.
LEMMA UpTo ==
    ASSUME NEW a \in Nat, NEW b \in Nat, a <= b
    PROVE  IsFiniteSet(a .. b - 1) /\ Cardinality(a .. b - 1) = b - a
<1>1. a \in Int /\ b - 1 \in Int
  OBVIOUS
<1>2. /\ IsFiniteSet(a .. b - 1)
      /\ Cardinality(a .. b - 1) = IF a > b - 1 THEN 0 ELSE (b - 1) - a + 1
  BY <1>1, FS_Interval
<1> QED BY <1>2

\* A common factor.
LEMMA SumScaled ==
    ASSUME NEW S, IsFiniteSet(S), NEW f \in [S -> Int], NEW k \in Int
    PROVE  SumFunction([x \in S |-> k * f[x]]) = k * SumFunction(f)
<1>1. PICK G : PartialSums(G, f, S) /\ SumFunction(f) = G[S]
  BY SumHasPartialSums
<1> DEFINE H == [T \in SUBSET S |-> k * G[T]]
           g == [x \in S |-> k * f[x]]
<1>2. G \in [SUBSET S -> Int] /\ G[{}] = 0
  BY <1>1 DEF PartialSums
<1>3. g \in [S -> Int] /\ H \in [SUBSET S -> Int] /\ H[{}] = 0
  BY <1>2
<1>4. ASSUME NEW T \in SUBSET S, T # {}
      PROVE  H[T] = g[Chosen(T)] + H[T \ {Chosen(T)}]
  <2>1. Chosen(T) \in S /\ T \ {Chosen(T)} \in SUBSET S
    BY <1>4, ChosenIsIn
  <2>2. G[T] = f[Chosen(T)] + G[T \ {Chosen(T)}]
    BY <1>1, <1>4 DEF PartialSums
  <2>3. f[Chosen(T)] \in Int /\ G[T \ {Chosen(T)}] \in Int
    BY <1>2, <2>1
  <2>4. \A a, b \in Int : k * (a + b) = k * a + k * b
    OBVIOUS
  <2> QED BY <2>1, <2>2, <2>3, <2>4
<1>5. PartialSums(H, g, S)
  BY <1>3, <1>4 DEF PartialSums
<1>6. H[S] = k * G[S]
  OBVIOUS
<1> HIDE DEF H, g
<1>7. SumFunction(g) = H[S]
  BY <1>3, <1>5, SumIs
<1> QED BY <1>1, <1>6, <1>7 DEF g

\* Larger numbers have a larger sum.
LEMMA SumAtMost ==
    ASSUME NEW S, IsFiniteSet(S), NEW f \in [S -> Int], NEW g \in [S -> Int],
           \A x \in S : f[x] <= g[x]
    PROVE  SumFunction(f) <= SumFunction(g)
<1> DEFINE d == [x \in S |-> g[x] - f[x]]
           F == [x \in S |-> 0 .. d[x] - 1]
           U == UNION {{x} \X F[x] : x \in S}
<1>1. d \in [S -> Nat]
  OBVIOUS
<1>2. g = [x \in S |-> f[x] + d[x]]
  <2>1. \A x \in S : g[x] = f[x] + d[x]
    OBVIOUS
  <2> HIDE DEF d
  <2> QED BY <2>1
<1>3. \A x \in S : IsFiniteSet(F[x]) /\ d[x] = Cardinality(F[x])
  <2> SUFFICES ASSUME NEW x \in S PROVE IsFiniteSet(F[x]) /\ d[x] = Cardinality(F[x])
    OBVIOUS
  <2> HIDE DEF d
  <2>1. d[x] \in Nat /\ 0 <= d[x]
    BY <1>1
  <2>2. IsFiniteSet(0 .. d[x] - 1) /\ Cardinality(0 .. d[x] - 1) = d[x] - 0
    BY <2>1, UpTo
  <2> QED BY <2>1, <2>2
<1> HIDE DEF d, F
<1>4. IsFiniteSet(U) /\ SumFunction(d) = Cardinality(U)
  BY <1>1, <1>3, SumOfPairs
<1> HIDE DEF U
<1>5. SumFunction(d) \in Nat
  BY <1>4, FS_CardinalityType
<1>6. SumFunction(g) = SumFunction(f) + SumFunction(d)
  <2>1. d \in [S -> Int]
    BY <1>1
  <2> QED BY <1>2, <2>1, SumOfTwo
<1>7. SumFunction(f) \in Int
  BY SumHasPartialSums
<1> QED BY <1>5, <1>6, <1>7

\* A bound on f by t and c.
Bounds(S, f, t, c, i, j, k) == \A x \in S : i * f[x] <= j * t[x] + k * c[x]

\* What holds of the numbers holds of their sums.
LEMMA SumWithin ==
    ASSUME NEW S, IsFiniteSet(S), NEW f \in [S -> Int], NEW t \in [S -> Int], NEW c \in [S -> Int],
           NEW i \in Int, NEW j \in Int, NEW k \in Int,
           Bounds(S, f, t, c, i, j, k)
    PROVE  i * SumFunction(f) <= j * SumFunction(t) + k * SumFunction(c)
<1> DEFINE a == [x \in S |-> i * f[x]]
           b == [x \in S |-> j * t[x]]
           d == [x \in S |-> k * c[x]]
           e == [x \in S |-> b[x] + d[x]]
<1>1. a \in [S -> Int] /\ b \in [S -> Int] /\ d \in [S -> Int] /\ e \in [S -> Int]
  OBVIOUS
<1>2. \A x \in S : a[x] <= e[x]
  BY DEF Bounds
<1>3. /\ SumFunction(a) = i * SumFunction(f) /\ SumFunction(b) = j * SumFunction(t)
      /\ SumFunction(d) = k * SumFunction(c)
  BY SumScaled
<1> HIDE DEF a, b, d
<1>4. SumFunction(e) = SumFunction(b) + SumFunction(d)
  BY <1>1, SumOfTwo
<1> HIDE DEF e
<1>5. SumFunction(a) <= SumFunction(e)
  BY <1>1, <1>2, SumAtMost
<1> QED BY <1>3, <1>4, <1>5

\* A sum is the sum of the sums of its groups: as numbers.
LEMMA SumRegrouped ==
    ASSUME NEW S, IsFiniteSet(S), NEW f \in [S -> Nat], NEW K, NEW D, NEW c \in [D -> Int],
           D = {K[x] : x \in S},
           \A k \in D : c[k] = SumOfGroup(f, S, K, k)
    PROVE  SumFunction(c) = SumFunction(f)
<1> DEFINE F == [x \in S |-> 0 .. f[x] - 1]
           U == UNION {{x} \X F[x] : x \in S}
<1>1. \A x \in S : IsFiniteSet(F[x]) /\ f[x] = Cardinality(F[x])
  <2> SUFFICES ASSUME NEW x \in S PROVE IsFiniteSet(F[x]) /\ f[x] = Cardinality(F[x])
    OBVIOUS
  <2>1. f[x] \in Nat /\ 0 <= f[x]
    OBVIOUS
  <2>2. IsFiniteSet(0 .. f[x] - 1) /\ Cardinality(0 .. f[x] - 1) = f[x] - 0
    BY <2>1, UpTo
  <2> QED BY <2>1, <2>2
<1> HIDE DEF F
<1>2. SumFunction(f) = Cardinality(U)
  BY <1>1, SumOfPairs
<1>3. SumFunction(c) = Cardinality(U)
  BY <1>1, SumByGroups
<1> QED BY <1>2, <1>3

\* A set has as many elements as ones.
LEMMA SumOfOnes ==
    ASSUME NEW S, IsFiniteSet(S)
    PROVE  SumFunction([x \in S |-> 1]) = Cardinality(S)
<1> DEFINE f == [x \in S |-> 1]
           F == [x \in S |-> {x}]
<1>1. f \in [S -> Nat]
  OBVIOUS
<1>2. \A x \in S : IsFiniteSet(F[x]) /\ f[x] = Cardinality(F[x])
  BY FS_Singleton
<1>3. \A x, y \in S : x # y => F[x] \cap F[y] = {}
  OBVIOUS
<1>4. S = UNION {F[x] : x \in S}
  OBVIOUS
<1> HIDE DEF f, F
<1>5. SumFunction(f) = Cardinality(S)
  BY <1>1, <1>2, <1>3, <1>4, SumOfCardinalities
<1> QED BY <1>5 DEF f
=============================================================================
