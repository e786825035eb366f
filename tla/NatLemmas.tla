------------------------------- MODULE NatLemmas -------------------------------
(***************************************************************************)
(* Induction over natural numbers and over finite sets, stated of sets, so *)
(* that it can be applied to any set that is given by a formula; and the   *)
(* sums of finite functions, which the ledgers are stated with.            *)
(***************************************************************************)
EXTENDS Integers, FiniteSetTheorems, WellFoundedInduction, TLAPS

(* The least-number principle, for sets of naturals: the intervals 0..n    *)
(* with n in S have a minimal one under strict inclusion.                  *)
LEMMA LeastElement ==
  ASSUME NEW S \in SUBSET Nat, S # {}
  PROVE  \E m \in S : \A k \in S : m <= k
<1> DEFINE T == {0 .. n : n \in S}
           R == StrictSubsetOrdering(Nat)
<1>1. T \subseteq FiniteSubsetsOf(Nat)
  <2> SUFFICES ASSUME NEW n \in S
               PROVE  0 .. n \in FiniteSubsetsOf(Nat)
    OBVIOUS
  <2> QED BY FS_Interval DEF FiniteSubsetsOf
<1>2. IsWellFoundedOn(R, FiniteSubsetsOf(Nat))
  BY FS_StrictSubsetOrderingWellFounded
<1>3. PICK x \in T : \A y \in T : ~ (<<y, x>> \in R)
  <2>1. T # {}
    OBVIOUS
  <2> HIDE DEF T, R
  <2> QED BY <1>1, <1>2, <2>1, WFMin
<1>4. PICK m \in S : x = 0 .. m
  OBVIOUS
<1>5. ASSUME NEW k \in S, k < m
      PROVE  FALSE
  <2>1. 0 .. k \subseteq 0 .. m /\ 0 .. k # 0 .. m
    BY <1>5
  <2>2. <<0 .. k, 0 .. m>> \in R
    BY <2>1 DEF StrictSubsetOrdering
  <2> QED BY <1>3, <1>4, <2>2
<1> QED BY <1>5

(* A bounded set of naturals has a greatest element.                       *)
LEMMA GreatestElement ==
  ASSUME NEW n \in Nat, NEW S \in SUBSET (0 .. n), S # {}
  PROVE  \E m \in S : \A k \in S : m >= k
<1> DEFINE T == {n - k : k \in S}
<1>1. T \in SUBSET Nat /\ T # {}
  <2>1. \A k \in S : n - k \in Nat
    OBVIOUS
  <2> QED BY <2>1
<1> HIDE DEF T
<1>2. PICK d \in T : \A e \in T : d <= e
  BY <1>1, LeastElement
<1>3. PICK m \in S : d = n - m
  BY DEF T
<1>4. ASSUME NEW k \in S
      PROVE  m >= k
  <2>1. n - m <= n - k
    BY <1>2, <1>3 DEF T
  <2> QED BY <2>1
<1> QED BY <1>4

(* Induction over the natural numbers, as a statement about a set.         *)
LEMMA NatSetInduction ==
  ASSUME NEW T \in SUBSET Nat, 0 \in T, \A n \in T : n + 1 \in T
  PROVE  T = Nat
<1> SUFFICES ASSUME T # Nat PROVE FALSE
  OBVIOUS
<1>1. Nat \ T # {} /\ Nat \ T \in SUBSET Nat
  OBVIOUS
<1>2. PICK m \in Nat \ T : \A k \in Nat \ T : m <= k
  BY <1>1, LeastElement
<1>3. m - 1 \in Nat /\ m - 1 \in T
  BY <1>2
<1>4. (m - 1) + 1 \in T
  BY <1>3
<1> QED BY <1>2, <1>4

(* Induction over the subsets of a finite set.                             *)
LEMMA SubsetInduction ==
  ASSUME NEW S, IsFiniteSet(S), NEW T \in SUBSET (SUBSET S), {} \in T,
         \A s \in SUBSET S : s # {} /\ (\A x \in s : s \ {x} \in T) => s \in T
  PROVE  T = SUBSET S
<1> DEFINE R == StrictSubsetOrdering(S)
           Bad == (SUBSET S) \ T
<1> SUFFICES ASSUME Bad # {} PROVE FALSE
  OBVIOUS
<1>1. Bad \subseteq FiniteSubsetsOf(S)
  BY FS_Subset DEF FiniteSubsetsOf
<1>2. IsWellFoundedOn(R, FiniteSubsetsOf(S))
  BY FS_StrictSubsetOrderingWellFounded
<1>3. PICK s \in Bad : \A u \in Bad : ~ (<<u, s>> \in R)
  <2> HIDE DEF Bad, R
  <2> QED BY <1>1, <1>2, WFMin
<1>4. ASSUME NEW x \in s PROVE s \ {x} \in T
  <2>1. <<s \ {x}, s>> \in R
    BY DEF StrictSubsetOrdering
  <2> QED BY <1>3, <2>1
<1>5. s # {}
  OBVIOUS
<1> QED BY <1>4, <1>5

(* A recursive function over the subsets of a finite set exists: each      *)
(* subset gives up the element pick chooses.                               *)
Unfolds(it, s, base, G, pick) ==
  it[s] = IF s = {} THEN base ELSE G[<<pick[s], it[s \ {pick[s]}]>>]

LEMMA FoldExists ==
  ASSUME NEW S, IsFiniteSet(S), NEW B, NEW base \in B, NEW G \in [S \X B -> B],
         NEW pick, \A s \in SUBSET S : s # {} => pick[s] \in s
  PROVE  \E it \in [SUBSET S -> B] : \A s \in SUBSET S : Unfolds(it, s, base, G, pick)
<1> DEFINE Good(it, n) ==
             \A s \in SUBSET S : Cardinality(s) <= n => Unfolds(it, s, base, G, pick)
           T == {n \in Nat : \E it \in [SUBSET S -> B] : Good(it, n)}
<1>0. \A s \in SUBSET S : IsFiniteSet(s) /\ Cardinality(s) \in Nat /\ Cardinality(s) <= Cardinality(S)
                          /\ (Cardinality(s) = 0 <=> s = {})
  BY FS_Subset, FS_CardinalityType, FS_EmptySet
<1>1. 0 \in T
  <2> DEFINE it == [s \in SUBSET S |-> base]
  <2>1. it \in [SUBSET S -> B]
    OBVIOUS
  <2>2. Good(it, 0)
    BY <1>0 DEF Unfolds
  <2> QED BY <2>1, <2>2
<1>2. ASSUME NEW n \in T PROVE n + 1 \in T
  <2>1. PICK it \in [SUBSET S -> B] : Good(it, n)
    OBVIOUS
  <2> DEFINE new == [s \in SUBSET S |->
                       IF Cardinality(s) <= n THEN it[s]
                       ELSE IF s = {} THEN base ELSE G[<<pick[s], it[s \ {pick[s]}]>>]]
  <2>2. new \in [SUBSET S -> B]
    <3> SUFFICES ASSUME NEW s \in SUBSET S, s # {} 
                 PROVE G[<<pick[s], it[s \ {pick[s]}]>>] \in B
      OBVIOUS
    <3>1. pick[s] \in S /\ s \ {pick[s]} \in SUBSET S
      OBVIOUS
    <3> QED BY <3>1
  <2>3. ASSUME NEW s \in SUBSET S, Cardinality(s) <= n + 1
        PROVE  Unfolds(new, s, base, G, pick)
    <3> DEFINE left == s \ {pick[s]}
    <3>1. CASE s = {}
      BY <3>1, <1>0, <2>1 DEF Unfolds
    <3>2. CASE s # {}
      <4>1. left \in SUBSET S /\ Cardinality(left) = Cardinality(s) - 1
        BY <1>0, <3>2, FS_RemoveElement
      <4>2. Cardinality(left) <= n
        BY <1>0, <2>3, <4>1
      <4>3. new[left] = it[left]
        BY <4>1, <4>2
      <4>4. new[s] = G[<<pick[s], it[left]>>]
        BY <2>1, <3>2 DEF Unfolds
      <4> QED BY <3>2, <4>3, <4>4 DEF Unfolds
    <3> QED BY <3>1, <3>2
  <2>4. Good(new, n + 1)
    BY <2>3
  <2> HIDE DEF new, Good
  <2> QED BY <2>2, <2>4
<1>3. Cardinality(S) \in T
  <2> HIDE DEF T
  <2>1. T \in SUBSET Nat
    BY DEF T
  <2>2. T = Nat
    BY <1>1, <1>2, <2>1, NatSetInduction
  <2> QED BY <2>2, <1>0
<1> QED BY <1>0, <1>3

(* The sums of f over all subsets of its domain, as the library finds them. *)
IsSums(f, D, it) ==
  it = [s \in SUBSET D |-> IF s = {} THEN 0
                           ELSE f[CHOOSE x \in s : TRUE] + it[s \ {CHOOSE x \in s : TRUE}]]

SumsOf(f, D) == CHOOSE it : IsSums(f, D, it)

LEMMA SumUnfolded ==
  ASSUME NEW f
  PROVE  SumFunction(f) = SumsOf(f, DOMAIN f)[DOMAIN f]
BY DEF SumFunction, SumFunctionOnSet, FoldFunctionOnSet, MapThenFoldSet, IsSums, SumsOf

LEMMA SumsExist ==
  ASSUME NEW D, IsFiniteSet(D), NEW f \in [D -> Int]
  PROVE  /\ SumsOf(f, D)[{}] = 0
         /\ \A s \in SUBSET D :
              s # {} => \E x \in s : SumsOf(f, D)[s] = f[x] + SumsOf(f, D)[s \ {x}]
<1> DEFINE G == [p \in D \X Int |-> f[p[1]] + p[2]]
           pick == [s \in SUBSET D |-> CHOOSE x \in s : TRUE]
<1>1. \A s \in SUBSET D : s # {} => pick[s] \in s
  OBVIOUS
<1>2. G \in [D \X Int -> Int]
  OBVIOUS
<1>3. PICK it \in [SUBSET D -> Int] : \A s \in SUBSET D : Unfolds(it, s, 0, G, pick)
  <2> HIDE DEF G, pick
  <2>1. 0 \in Int
    OBVIOUS
  <2> QED BY <1>1, <1>2, <2>1, FoldExists
<1>4. ASSUME NEW s \in SUBSET D, s # {}
      PROVE  it[s] = f[pick[s]] + it[s \ {pick[s]}]
  <2> DEFINE p == pick[s]
             left == it[s \ {pick[s]}]
  <2>1. p \in D /\ left \in Int
    <3>1. p \in s
      BY <1>1, <1>4
    <3> HIDE DEF p
    <3> QED BY <3>1
  <2>2. it[s] = G[<<p, left>>]
    BY <1>3, <1>4 DEF Unfolds
  <2> HIDE DEF p, left
  <2>3. G[<<p, left>>] = f[p] + left
    BY <2>1
  <2> QED BY <2>2, <2>3 DEF p, left
<1>5. it[{}] = 0
  BY <1>3 DEF Unfolds
<1>6. it = [s \in SUBSET D |-> IF s = {} THEN 0 ELSE f[pick[s]] + it[s \ {pick[s]}]]
  <2> HIDE DEF pick
  <2> QED BY <1>3, <1>4, <1>5
<1>7. IsSums(f, D, it)
  <2>1. \A s \in SUBSET D : pick[s] = (CHOOSE x \in s : TRUE)
    OBVIOUS
  <2> HIDE DEF pick
  <2> QED BY <1>6, <2>1 DEF IsSums
<1>8. IsSums(f, D, SumsOf(f, D))
  BY <1>7 DEF SumsOf
<1>9. SumsOf(f, D)[{}] = 0
  BY <1>8 DEF IsSums
<1>10. ASSUME NEW s \in SUBSET D, s # {}
       PROVE  \E x \in s : SumsOf(f, D)[s] = f[x] + SumsOf(f, D)[s \ {x}]
  <2> DEFINE y == CHOOSE x \in s : TRUE
  <2>1. y \in s
    BY <1>10
  <2>2. SumsOf(f, D)[s] = f[y] + SumsOf(f, D)[s \ {y}]
    BY <1>8, <1>10 DEF IsSums
  <2> QED BY <2>1, <2>2
<1> QED BY <1>9, <1>10

LEMMA SumsType ==
  ASSUME NEW D, IsFiniteSet(D), NEW f \in [D -> Int]
  PROVE  \A s \in SUBSET D : SumsOf(f, D)[s] \in Int
<1> DEFINE it == SumsOf(f, D)
           T == {s \in SUBSET D : it[s] \in Int}
<1>1. it[{}] = 0 /\ \A s \in SUBSET D : s # {} => \E x \in s : it[s] = f[x] + it[s \ {x}]
  BY SumsExist
<1> HIDE DEF it
<1>2. {} \in T
  BY <1>1
<1>3. ASSUME NEW s \in SUBSET D, s # {}, \A x \in s : s \ {x} \in T
      PROVE  s \in T
  <2>1. PICK x \in s : it[s] = f[x] + it[s \ {x}]
    BY <1>1, <1>3
  <2>2. it[s \ {x}] \in Int /\ f[x] \in Int
    BY <1>3
  <2>3. it[s] \in Int
    BY <2>1, <2>2
  <2> QED BY <2>3
<1>4. T = SUBSET D
  <2>1. T \in SUBSET (SUBSET D)
    OBVIOUS
  <2> HIDE DEF T
  <2> QED BY <1>2, <1>3, <2>1, SubsetInduction
<1> QED BY <1>4 DEF it

(* Any element may be taken out first.                                     *)
LEMMA SumsAnyOrder ==
  ASSUME NEW D, IsFiniteSet(D), NEW f \in [D -> Int]
  PROVE  \A s \in SUBSET D : \A x \in s : SumsOf(f, D)[s] = f[x] + SumsOf(f, D)[s \ {x}]
<1> DEFINE it == SumsOf(f, D)
           T == {s \in SUBSET D : \A x \in s : it[s] = f[x] + it[s \ {x}]}
<1>1. \A s \in SUBSET D : it[s] \in Int
  BY SumsType
<1>2. \A s \in SUBSET D : s # {} => \E x \in s : it[s] = f[x] + it[s \ {x}]
  BY SumsExist
<1> HIDE DEF it
<1>3. ASSUME NEW s \in SUBSET D, s # {}, \A x \in s : s \ {x} \in T
      PROVE  s \in T
  <2>1. PICK y \in s : it[s] = f[y] + it[s \ {y}]
    BY <1>2, <1>3
  <2>2. ASSUME NEW x \in s, x # y
        PROVE  it[s] = f[x] + it[s \ {x}]
    <3> DEFINE rest == it[(s \ {y}) \ {x}]
    <3>1. it[s \ {y}] = f[x] + rest
      BY <1>3, <2>2
    <3>2. (s \ {x}) \ {y} = (s \ {y}) \ {x}
      OBVIOUS
    <3>3. it[s \ {x}] = f[y] + rest
      BY <1>3, <2>2, <3>2
    <3>4. f[x] \in Int /\ f[y] \in Int /\ rest \in Int
      BY <1>1
    <3> HIDE DEF rest
    <3>5. f[y] + (f[x] + rest) = f[x] + (f[y] + rest)
      BY <3>4
    <3> QED BY <2>1, <3>1, <3>3, <3>5
  <2> QED BY <2>1, <2>2
<1>4. T = SUBSET D
  <2>1. T \in SUBSET (SUBSET D) /\ {} \in T
    OBVIOUS
  <2> HIDE DEF T
  <2> QED BY <1>3, <2>1, SubsetInduction
<1> QED BY <1>4 DEF it

LEMMA SumsAgree ==
  ASSUME NEW D, IsFiniteSet(D), NEW f \in [D -> Int],
         NEW E, IsFiniteSet(E), NEW g \in [E -> Int],
         NEW S, S \subseteq D, S \subseteq E, \A x \in S : f[x] = g[x]
  PROVE  SumsOf(f, D)[S] = SumsOf(g, E)[S]
<1> DEFINE ft == SumsOf(f, D)
           gt == SumsOf(g, E)
           T == {s \in SUBSET S : ft[s] = gt[s]}
<1>1. \A s \in SUBSET D : \A x \in s : ft[s] = f[x] + ft[s \ {x}]
  BY SumsAnyOrder
<1>2. \A s \in SUBSET E : \A x \in s : gt[s] = g[x] + gt[s \ {x}]
  BY SumsAnyOrder
<1>3. ft[{}] = 0 /\ gt[{}] = 0
  BY SumsExist
<1>4. IsFiniteSet(S)
  BY FS_Subset
<1> HIDE DEF ft, gt
<1>5. ASSUME NEW s \in SUBSET S, s # {}, \A x \in s : s \ {x} \in T
      PROVE  s \in T
  <2>1. PICK x \in s : TRUE
    BY <1>5
  <2>2. ft[s] = f[x] + ft[s \ {x}] /\ gt[s] = g[x] + gt[s \ {x}]
    <3>1. s \in SUBSET D /\ s \in SUBSET E
      OBVIOUS
    <3> QED BY <1>1, <1>2, <3>1
  <2> QED BY <1>5, <2>2
<1>6. T = SUBSET S
  <2>1. T \in SUBSET (SUBSET S) /\ {} \in T
    BY <1>3
  <2> HIDE DEF T
  <2> QED BY <1>4, <1>5, <2>1, SubsetInduction
<1> QED BY <1>6 DEF ft, gt

-------------------------------------------------------------------------------
(* What is used of sums: they are integers, that of no summands is 0, and  *)
(* they follow what is added to the domain or changed in a value.          *)

LEMMA SumType ==
  ASSUME NEW D, IsFiniteSet(D), NEW f \in [D -> Int]
  PROVE  SumFunction(f) \in Int
<1>1. DOMAIN f = D
  OBVIOUS
<1> QED BY <1>1, SumUnfolded, SumsType

LEMMA SumOfNone ==
  ASSUME NEW f, DOMAIN f = {}
  PROVE  SumFunction(f) = 0
<1>1. f \in [{} -> Int]
  OBVIOUS
<1>2. SumsOf(f, {})[{}] = 0
  BY <1>1, SumsExist, FS_EmptySet
<1> QED BY <1>2, SumUnfolded

LEMMA SumExtended ==
  ASSUME NEW D, IsFiniteSet(D), NEW f \in [D -> Int],
         NEW x, x \notin D, NEW E, E = D \cup {x}, NEW g \in [E -> Int],
         \A d \in D : f[d] = g[d]
  PROVE  SumFunction(g) = SumFunction(f) + g[x]
<1>1. DOMAIN f = D /\ DOMAIN g = E /\ IsFiniteSet(E)
  BY FS_AddElement
<1>2. SumsOf(g, E)[E] = g[x] + SumsOf(g, E)[E \ {x}]
  BY <1>1, SumsAnyOrder
<1>3. SumsOf(g, E)[E \ {x}] = SumsOf(g, E)[D]
  <2>1. E \ {x} = D
    OBVIOUS
  <2> QED BY <2>1
<1>4. SumsOf(g, E)[D] = SumsOf(f, D)[D]
  BY <1>1, SumsAgree
<1>5. SumsOf(f, D)[D] \in Int
  BY SumsType
<1>6. g[x] \in Int
  OBVIOUS
<1>7. SumFunction(g) = SumsOf(g, E)[E] /\ SumFunction(f) = SumsOf(f, D)[D]
  BY <1>1, SumUnfolded
<1> QED BY <1>2, <1>3, <1>4, <1>5, <1>6, <1>7

LEMMA SumChanged ==
  ASSUME NEW D, IsFiniteSet(D), NEW f \in [D -> Int], NEW g \in [D -> Int],
         NEW x \in D, \A d \in D \ {x} : f[d] = g[d]
  PROVE  SumFunction(g) = SumFunction(f) - f[x] + g[x]
<1> DEFINE C == D \ {x}
           h == [d \in C |-> f[d]]
<1>1. IsFiniteSet(C) /\ x \notin C /\ C \cup {x} = D /\ h \in [C -> Int]
  BY FS_Subset
<1>2. (\A d \in C : h[d] = f[d]) /\ (\A d \in C : h[d] = g[d])
  OBVIOUS
<1> HIDE DEF C, h
<1>3. SumFunction(f) = SumFunction(h) + f[x] /\ SumFunction(g) = SumFunction(h) + g[x]
  BY <1>1, <1>2, SumExtended
<1>4. SumFunction(h) \in Int /\ f[x] \in Int /\ g[x] \in Int
  BY <1>1, SumType
<1> QED BY <1>3, <1>4

LEMMA SumOfZeros ==
  ASSUME NEW D, IsFiniteSet(D), NEW f \in [D -> Int], \A d \in D : f[d] = 0
  PROVE  SumFunction(f) = 0
<1> DEFINE it == SumsOf(f, D)
           T == {s \in SUBSET D : it[s] = 0}
<1>1. it[{}] = 0 /\ \A s \in SUBSET D : s # {} => \E x \in s : it[s] = f[x] + it[s \ {x}]
  BY SumsExist
<1> HIDE DEF it
<1>2. {} \in T /\ T \in SUBSET (SUBSET D)
  BY <1>1
<1>3. ASSUME NEW s \in SUBSET D, s # {}, \A x \in s : s \ {x} \in T
      PROVE  s \in T
  <2>1. PICK x \in s : it[s] = f[x] + it[s \ {x}]
    BY <1>1, <1>3
  <2>2. f[x] = 0 /\ it[s \ {x}] = 0
    BY <1>3
  <2> QED BY <2>1, <2>2
<1>4. T = SUBSET D
  <2> HIDE DEF T
  <2> QED BY <1>2, <1>3, SubsetInduction
<1>5. it[D] = 0 /\ DOMAIN f = D
  BY <1>4
<1> QED BY <1>5, SumUnfolded DEF it

(* A sequence of numbers, by its length.                                   *)
LEMMA SumAppended ==
  ASSUME NEW n \in Nat, NEW f, NEW g, f \in [1 .. n -> Int], g \in [1 .. n + 1 -> Int],
         \A i \in 1 .. n : f[i] = g[i]
  PROVE  SumFunction(g) = SumFunction(f) + g[n + 1]
<1>1. ASSUME NEW D, NEW E, NEW x, IsFiniteSet(D), f \in [D -> Int], g \in [E -> Int],
             x \notin D, E = D \cup {x}, \A d \in D : f[d] = g[d]
      PROVE  SumFunction(g) = SumFunction(f) + g[x]
  BY ONLY <1>1, SumExtended
<1>2. IsFiniteSet(1 .. n)
  BY FS_Interval
<1>3. 1 .. n + 1 = (1 .. n) \cup {n + 1} /\ n + 1 \notin 1 .. n
  OBVIOUS
<1> QED BY <1>1, <1>2, <1>3, Zenon

(* A sequence of numbers, without its first.                               *)
LEMMA SumOfTail ==
  ASSUME NEW n \in Nat, NEW f \in [1 .. n + 1 -> Int], NEW g \in [1 .. n -> Int],
         \A i \in 1 .. n : g[i] = f[i + 1]
  PROVE  SumFunction(f) = f[1] + SumFunction(g)
<1> DEFINE F(k) == [i \in 1 .. k + 1 |-> f[i]]
           G(k) == [i \in 1 .. k |-> g[i]]
           T == {k \in Nat : k <= n => SumFunction(F(k)) = f[1] + SumFunction(G(k))}
<1>1. \A k \in Nat : k <= n => F(k) \in [1 .. k + 1 -> Int] /\ G(k) \in [1 .. k -> Int]
  OBVIOUS
<1>2. 0 \in T
  <2> DEFINE none == [i \in 1 .. 0 |-> f[i]]
             one == F(0)
  <2>1. DOMAIN none = {} /\ DOMAIN G(0) = {}
    OBVIOUS
  <2>2. none \in [1 .. 0 -> Int] /\ one \in [1 .. 0 + 1 -> Int] /\ one[0 + 1] = f[1]
    OBVIOUS
  <2> HIDE DEF none, one
  <2>3. SumFunction(none) = 0 /\ SumFunction(G(0)) = 0
    BY <2>1, SumOfNone
  <2>4. SumFunction(one) = SumFunction(none) + one[0 + 1]
    <3>1. \A i \in 1 .. 0 : none[i] = one[i]
      OBVIOUS
    <3>2. 0 \in Nat
      OBVIOUS
    <3> QED BY ONLY <2>2, <3>1, <3>2, SumAppended, Zenon
  <2>5. f[1] \in Int
    OBVIOUS
  <2> QED BY <2>2, <2>3, <2>4, <2>5 DEF one
<1>3. ASSUME NEW k \in T PROVE k + 1 \in T
  <2> SUFFICES ASSUME k + 1 <= n PROVE SumFunction(F(k + 1)) = f[1] + SumFunction(G(k + 1))
    OBVIOUS
  <2> DEFINE fk == F(k)
             fl == F(k + 1)
             gk == G(k)
             gl == G(k + 1)
  <2>1. k \in Nat /\ k + 1 \in Nat /\ SumFunction(fk) = f[1] + SumFunction(gk)
    OBVIOUS
  <2>2. /\ fk \in [1 .. k + 1 -> Int] /\ fl \in [1 .. (k + 1) + 1 -> Int]
        /\ gk \in [1 .. k -> Int] /\ gl \in [1 .. k + 1 -> Int]
    BY <2>1
  <2>3. (\A i \in 1 .. k + 1 : fk[i] = fl[i]) /\ (\A i \in 1 .. k : gk[i] = gl[i])
    BY <2>1
  <2>4. fl[(k + 1) + 1] = f[(k + 1) + 1] /\ gl[k + 1] = g[k + 1] /\ g[k + 1] = f[(k + 1) + 1]
    BY <2>1
  <2> HIDE DEF T, fk, fl, gk, gl
  <2>5. SumFunction(fl) = SumFunction(fk) + fl[(k + 1) + 1]
    BY <2>1, <2>2, <2>3, SumAppended
  <2>6. SumFunction(gl) = SumFunction(gk) + gl[k + 1]
    BY <2>1, <2>2, <2>3, SumAppended
  <2>7. SumFunction(gk) \in Int /\ f[1] \in Int /\ gl[k + 1] \in Int
    <3>1. IsFiniteSet(1 .. k)
      BY <2>1, FS_Interval
    <3>2. SumFunction(gk) \in Int
      BY <2>2, <3>1, SumType
    <3>3. f[1] \in Int /\ gl[k + 1] \in Int
      BY <2>1, <2>2
    <3> QED BY <3>2, <3>3
  <2> QED BY <2>1, <2>4, <2>5, <2>6, <2>7 DEF fl, gl
<1>4. n \in T
  <2>1. T \in SUBSET Nat
    OBVIOUS
  <2> HIDE DEF T
  <2> QED BY <1>2, <1>3, <2>1, NatSetInduction
<1>5. F(n) = f /\ G(n) = g
  OBVIOUS
<1> QED BY <1>4, <1>5

===============================================================================
