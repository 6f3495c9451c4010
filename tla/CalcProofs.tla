----------------------------- MODULE CalcProofs -----------------------------
(***************************************************************************)
(* What the engine and the reports on it are built from, for every number  *)
(* of globals and amounts, every depth of formulas, every range of amounts *)
(* and all places that Decimals are rounded at:                            *)
(*                                                                         *)
(*   - sums of Decimals.  One rounds each partial sum to the digits it has *)
(*     left, so the same amounts in another order may come to another sum; *)
(*     it is off by at most half a last place per addition (RunNear,       *)
(*     GatheredNear, AccumulatedNear), and exact on whole kurus that fit   *)
(*     the digits at the kurus (KurusesStay, SumUpExact, SumUpByKey);      *)
(*   - the depth-first resolution of globals with its memo, against what   *)
(*     their formulas mean (CallsRight, ResolveRight).                     *)
(***************************************************************************)
EXTENDS Books, FiniteSetTheorems, WellFoundedInduction, TLAPS

----------------------------------------------------------------------------
(***************************************************************************)
(* Induction over sets, and exact sums: in any order, by key and of        *)
(* magnitudes.                                                             *)
(***************************************************************************)

\* Induction over Nat for a set, from the library's minimum of a non-empty subset
\* of a well-founded order: the form of it that takes no operator.
LEMMA SetInduction ==
  ASSUME NEW S, 0 \in S, \A n \in Nat : n \in S => n + 1 \in S
  PROVE  Nat \subseteq S
<1> DEFINE T == Nat \ S
           R == OpToRel(<, Nat)
<1>1. SUFFICES ASSUME T # {} PROVE FALSE
  OBVIOUS
<1>2. T \subseteq Nat
  OBVIOUS
<1>3. \A m, n \in Nat : m < n => <<m, n>> \in R
  BY DEF OpToRel
<1>4. IsWellFoundedOn(R, Nat)
  BY NatLessThanWellFounded
<1>5. PICK x \in T : \A y \in T : ~ (<<y, x>> \in R)
  <2> HIDE DEF T, R
  <2> QED BY <1>1, <1>2, <1>4, WFMin
<1>6. x \in Nat /\ x # 0 /\ x - 1 \in T /\ x - 1 < x
  OBVIOUS
<1> QED BY <1>3, <1>5, <1>6

\* Induction over the subsets of a finite set by their size.
LEMMA SizeInduction ==
  ASSUME NEW F, IsFiniteSet(F), NEW G,
         \A S \in SUBSET F : (\A T \in SUBSET S : T # S => T \in G) => S \in G
  PROVE  F \in G
<1> DEFINE N == {n \in Nat : \A S \in SUBSET F : Cardinality(S) < n => S \in G}
<1>1. \A S \in SUBSET F : IsFiniteSet(S) /\ Cardinality(S) \in Nat
  BY FS_Subset, FS_CardinalityType
<1>2. 0 \in N
  BY <1>1
<1>3. ASSUME NEW n \in Nat, n \in N PROVE n + 1 \in N
  <2>1. SUFFICES ASSUME NEW S \in SUBSET F, Cardinality(S) < n + 1 PROVE S \in G
    OBVIOUS
  <2>2. SUFFICES ASSUME NEW T \in SUBSET S, T # S PROVE T \in G
    BY <2>1
  <2>3. Cardinality(T) <= Cardinality(S) /\ Cardinality(T) # Cardinality(S)
    BY <1>1, <2>2, FS_Subset
  <2>4. T \in SUBSET F /\ Cardinality(T) < n
    BY <1>1, <2>1, <2>3
  <2> QED BY <1>3, <2>4
<1>4. Nat \subseteq N
  <2> HIDE DEF N
  <2> QED BY <1>2, <1>3, SetInduction
<1>5. Cardinality(F) + 1 \in N /\ Cardinality(F) < Cardinality(F) + 1
  BY <1>1, <1>4
<1> QED BY <1>5

\* Induction over the subsets of a finite set, one element at a time.
LEMMA FiniteInduction ==
  ASSUME NEW F, IsFiniteSet(F), NEW G, {} \in G,
         \A S \in SUBSET F : \A x \in F \ S : S \in G => S \union {x} \in G
  PROVE  F \in G
<1>1. SUFFICES ASSUME NEW S \in SUBSET F, \A T \in SUBSET S : T # S => T \in G PROVE S \in G
  BY SizeInduction
<1>2. CASE S = {}
  BY <1>2
<1>3. ASSUME NEW x \in S PROVE S \in G
  <2>1. S \ {x} \in SUBSET F /\ x \in F \ (S \ {x}) /\ (S \ {x}) \union {x} = S
    BY <1>3
  <2>2. S \ {x} \in SUBSET S /\ S \ {x} # S
    BY <1>3
  <2> QED BY <1>1, <2>1, <2>2
<1> QED BY <1>2, <1>3

----------------------------------------------------------------------------
\* A partial sum for each set of keys, as Gathered defines them.
Gathers(sum, f, cut) ==
  sum = [S \in SUBSET DOMAIN f |->
           IF S = {} THEN 0
           ELSE LET x == CHOOSE x \in S : TRUE IN cut[sum[S \ {x}] + f[x]]]

\* Partial sums are defined for every set of keys, by induction over sets.
LEMMA GathersExists ==
  ASSUME NEW f, NEW cut, IsFiniteSet(DOMAIN f)
  PROVE  \E sum : Gathers(sum, f, cut)
<1> DEFINE D == DOMAIN f
           Chosen(S) == CHOOSE x \in S : TRUE
           Upto(n) == {S \in SUBSET D : Cardinality(S) <= n}
           Step(g, S) == IF S = {} THEN 0 ELSE cut[g[S \ {Chosen(S)}] + f[Chosen(S)]]
           P(n, g) == g = [S \in Upto(n) |-> Step(g, S)]
           N == {n \in Nat : \E g : P(n, g)}
<1>1. \A S \in SUBSET D : /\ IsFiniteSet(S) /\ Cardinality(S) \in Nat
                          /\ Cardinality(S) = 0 <=> S = {}
  BY FS_Subset, FS_CardinalityType, FS_EmptySet
<1>2. \A S \in SUBSET D : S # {} => /\ Chosen(S) \in S
                                    /\ S \ {Chosen(S)} \in SUBSET D
                                    /\ Cardinality(S \ {Chosen(S)}) = Cardinality(S) - 1
  BY <1>1, FS_RemoveElement
<1>3. 0 \in N
  <2> DEFINE g == [S \in Upto(0) |-> 0]
  <2>1. \A S \in Upto(0) : S = {}
    BY <1>1
  <2>2. P(0, g)
    BY <2>1
  <2> QED BY <2>2
<1>4. ASSUME NEW n \in Nat, n \in N PROVE n + 1 \in N
  <2>1. PICK g : P(n, g)
    BY <1>4
  <2> DEFINE h == [S \in Upto(n + 1) |-> Step(g, S)]
  <2>2. ASSUME NEW S \in Upto(n + 1) PROVE Step(g, S) = Step(h, S)
    <3>1. CASE S = {}
      BY <3>1
    <3>2. CASE S # {}
      <4> DEFINE T == S \ {Chosen(S)}
      <4>1. T \in Upto(n) /\ T \in Upto(n + 1)
        BY <1>1, <1>2, <3>2
      <4>2. h[T] = g[T]
        BY <2>1, <4>1
      <4> QED BY <4>2
    <3> QED BY <3>1, <3>2
  <2>3. P(n + 1, h)
    <3> HIDE DEF Upto, Step
    <3> QED BY <2>2
  <2>4. n + 1 \in Nat
    OBVIOUS
  <2> HIDE DEF h, P
  <2> QED BY <2>3, <2>4
<1>5. Cardinality(D) \in N
  <2> HIDE DEF N
  <2> QED BY <1>1, <1>3, <1>4, SetInduction
<1>6. PICK g : P(Cardinality(D), g)
  BY <1>5
<1>7. Upto(Cardinality(D)) = SUBSET D
  BY FS_Subset
<1>8. Gathers(g, f, cut)
  BY <1>6, <1>7, Zenon DEF Gathers
<1> QED BY <1>8

\* A gathered sum is the partial sum of all keys.
LEMMA GathersIs ==
  ASSUME NEW f, NEW cut, IsFiniteSet(DOMAIN f)
  PROVE  \E sum : Gathers(sum, f, cut) /\ Gathered(f, cut) = sum[DOMAIN f]
<1> DEFINE sum == CHOOSE g : Gathers(g, f, cut)
<1>1. Gathers(sum, f, cut)
  <2> HIDE DEF Gathers
  <2> QED BY GathersExists
<1>2. Gathered(f, cut) = sum[DOMAIN f]
  BY DEF Gathered, Gathers
<1> HIDE DEF sum
<1> QED BY <1>1, <1>2

----------------------------------------------------------------------------
\* The sum of f over S, and when it is one.
Over(f, S) == Sum([x \in S |-> f[x]])
Summable(f, S) == IsFiniteSet(S) /\ \A x \in S : f[x] \in Int

\* Partial sums from which any element can be taken.
PartialSums(sum, f, S) ==
  /\ sum[{}] = 0
  /\ \A T \in SUBSET S : sum[T] \in Int /\ \A x \in T : sum[T] = sum[T \ {x}] + f[x]

\* In exact sums any key may be the one added last.
LEMMA GathersAnyOrder ==
  ASSUME NEW f, Summable(f, DOMAIN f), NEW sum, Gathers(sum, f, Exact)
  PROVE  PartialSums(sum, f, DOMAIN f)
<1> DEFINE D == DOMAIN f
           Chosen(S) == CHOOSE x \in S : TRUE
           Sums(T) == sum[T] \in Int /\ \A x \in T : sum[T] = sum[T \ {x}] + f[x]
           G == {S \in SUBSET D : \A T \in SUBSET S : Sums(T)}
<1>1. /\ \A x \in D : f[x] \in Int
      /\ IsFiniteSet(D)
  BY DEF Summable
<1>2. sum[{}] = 0
  BY DEF Gathers
<1>3. ASSUME NEW S \in SUBSET D, S # {}, sum[S \ {Chosen(S)}] \in Int
      PROVE  Chosen(S) \in S /\ sum[S] = sum[S \ {Chosen(S)}] + f[Chosen(S)]
  <2>1. sum[S] = Exact[sum[S \ {Chosen(S)}] + f[Chosen(S)]]
    BY <1>3 DEF Gathers
  <2>2. Chosen(S) \in S
    BY <1>3
  <2>3. f[Chosen(S)] \in Int
    BY <1>1, <2>2
  <2> QED BY <1>3, <2>1, <2>2, <2>3 DEF Exact
<1>4. ASSUME NEW S \in SUBSET D, \A T \in SUBSET S : T # S => T \in G PROVE S \in G
  <2>1. \A T \in SUBSET S : T # S => Sums(T)
    BY <1>4
  <2>2. SUFFICES Sums(S)
    BY <2>1
  <2>3. CASE S = {}
    BY <1>2, <2>3
  <2>4. CASE S # {}
    <3> DEFINE y == Chosen(S)
    <3>1. y \in S
      BY <2>4
    <3>2. sum[S \ {y}] \in Int
      <4>1. S \ {y} \in SUBSET S /\ S \ {y} # S
        BY <3>1
      <4> QED BY <2>1, <4>1
    <3>3. sum[S] = sum[S \ {y}] + f[y]
      BY <1>3, <2>4, <3>2
    <3> HIDE DEF y
    <3>4. f[y] \in Int
      BY <1>1, <3>1
    <3>5. ASSUME NEW x \in S, x # y PROVE sum[S] = sum[S \ {x}] + f[x]
      <4> DEFINE A == S \ {y}
                 B == S \ {x}
                 C == S \ {x, y}
      <4>1. /\ A \in SUBSET S /\ A # S /\ x \in A /\ A \ {x} = C
            /\ B \in SUBSET S /\ B # S /\ y \in B /\ B \ {y} = C
            /\ C \in SUBSET S /\ C # S
        BY <3>1, <3>5
      <4>2. /\ sum[A] = sum[C] + f[x]
            /\ sum[B] = sum[C] + f[y]
            /\ sum[C] \in Int
        BY <2>1, <4>1
      <4>3. f[x] \in Int
        BY <1>1, <3>5
      <4> QED BY <3>3, <3>4, <4>2, <4>3
    <3>6. sum[S] \in Int
      BY <3>2, <3>3, <3>4
    <3> QED BY <3>3, <3>5, <3>6
  <2> QED BY <2>3, <2>4
<1>5. D \in G
  <2> HIDE DEF G
  <2> QED BY <1>1, <1>4, SizeInduction
<1> QED BY <1>2, <1>5 DEF PartialSums

\* What a sum over S is, without the order it was taken in.
LEMMA PartialSumsExist ==
  ASSUME NEW f, NEW S, Summable(f, S)
  PROVE  \E sum : PartialSums(sum, f, S) /\ Over(f, S) = sum[S]
<1> DEFINE g == [x \in S |-> f[x]]
<1>1. DOMAIN g = S /\ Summable(g, DOMAIN g)
  BY DEF Summable
<1>2. PICK sum : Gathers(sum, g, Exact) /\ Over(f, S) = sum[S]
  BY <1>1, GathersIs DEF Over, Sum, Summable
<1>3. PartialSums(sum, g, S)
  BY <1>1, <1>2, GathersAnyOrder
<1>4. PartialSums(sum, f, S)
  BY <1>3 DEF PartialSums
<1> QED BY <1>2, <1>4

\* A partial sum depends on the keys in it alone.
LEMMA PartialSumsUnique ==
  ASSUME NEW f, NEW S, Summable(f, S), NEW T \in SUBSET S,
         NEW sum, PartialSums(sum, f, S), NEW other, PartialSums(other, f, T)
  PROVE  sum[T] = other[T]
<1> DEFINE G == {U \in SUBSET T : sum[U] = other[U]}
<1>1. IsFiniteSet(T)
  BY FS_Subset DEF Summable
<1>2. {} \in G
  BY DEF PartialSums
<1>3. ASSUME NEW U \in SUBSET T, NEW x \in T \ U, U \in G PROVE U \union {x} \in G
  <2> DEFINE V == U \union {x}
  <2>1. V \in SUBSET T /\ V \in SUBSET S /\ x \in V /\ V \ {x} = U
    BY <1>3
  <2> HIDE DEF V
  <2>2. sum[V] = sum[U] + f[x] /\ other[V] = other[U] + f[x]
    BY <2>1 DEF PartialSums
  <2>3. sum[V] = other[V]
    BY <1>3, <2>2
  <2> USE DEF V
  <2> QED BY <2>1, <2>3
<1>4. T \in G
  <2> HIDE DEF G
  <2> QED BY <1>1, <1>2, <1>3, FiniteInduction
<1> QED BY <1>4

\* Nothing adds up to zero.
LEMMA OverEmpty == ASSUME NEW f PROVE Over(f, {}) = 0
<1>1. Summable(f, {})
  BY FS_EmptySet DEF Summable
<1> QED BY <1>1, PartialSumsExist DEF PartialSums

\* A sum of integers is an integer.
LEMMA OverType == ASSUME NEW f, NEW S, Summable(f, S) PROVE Over(f, S) \in Int
<1>1. PICK sum : PartialSums(sum, f, S) /\ Over(f, S) = sum[S]
  BY PartialSumsExist
<1>2. S \in SUBSET S
  OBVIOUS
<1> QED BY <1>1, <1>2 DEF PartialSums

\* What can be summed over a set can be summed over its subsets.
LEMMA SubSummable ==
  ASSUME NEW f, NEW S, Summable(f, S), NEW T \in SUBSET S
  PROVE  Summable(f, T)
BY FS_Subset DEF Summable

\* A sum is that of all but one of the keys, and the one.
LEMMA OverRemove ==
  ASSUME NEW f, NEW S, Summable(f, S), NEW x \in S
  PROVE  /\ Summable(f, S \ {x})
         /\ Over(f, S \ {x}) \in Int /\ f[x] \in Int
         /\ Over(f, S) = Over(f, S \ {x}) + f[x]
<1>1. S \ {x} \in SUBSET S
  OBVIOUS
<1>2. Summable(f, S \ {x})
  BY <1>1, SubSummable
<1>3. PICK sum : PartialSums(sum, f, S) /\ Over(f, S) = sum[S]
  BY PartialSumsExist
<1>4. PICK other : PartialSums(other, f, S \ {x}) /\ Over(f, S \ {x}) = other[S \ {x}]
  BY <1>2, PartialSumsExist
<1>5. sum[S \ {x}] = other[S \ {x}]
  BY <1>1, <1>3, <1>4, PartialSumsUnique
<1>6. sum[S] = sum[S \ {x}] + f[x]
  BY <1>3 DEF PartialSums
<1>7. f[x] \in Int
  BY DEF Summable
<1>8. Over(f, S \ {x}) \in Int
  BY <1>2, OverType
<1> QED BY <1>2, <1>3, <1>4, <1>5, <1>6, <1>7, <1>8

\* A key more adds its value to the sum.
LEMMA OverAdd ==
  ASSUME NEW f, NEW S, Summable(f, S), NEW x, x \notin S, f[x] \in Int
  PROVE  /\ Summable(f, S \union {x})
         /\ Over(f, S) \in Int
         /\ Over(f, S \union {x}) = Over(f, S) + f[x]
<1>1. Summable(f, S \union {x})
  BY FS_AddElement DEF Summable
<1>2. (S \union {x}) \ {x} = S
  OBVIOUS
<1> QED BY <1>1, <1>2, OverRemove

\* A sum looks at the values on its keys alone.
LEMMA OverSame ==
  ASSUME NEW f, NEW g, NEW S, \A x \in S : f[x] = g[x]
  PROVE  Over(f, S) = Over(g, S)
<1>1. [x \in S |-> f[x]] = [x \in S |-> g[x]]
  OBVIOUS
<1> QED BY <1>1 DEF Over

\* The model's Sum of a table is its sum over all keys.
LEMMA SumOver == ASSUME NEW S, NEW f, f = [x \in S |-> f[x]] PROVE Sum(f) = Over(f, S)
BY DEF Over

\* The sum of sums is the sum of the parts.
LEMMA OverPlus ==
  ASSUME NEW f, NEW g, NEW h, NEW S, Summable(f, S), Summable(g, S),
         \A x \in S : h[x] = f[x] + g[x]
  PROVE  Over(h, S) = Over(f, S) + Over(g, S)
<1> DEFINE G == {T \in SUBSET S : Over(h, T) = Over(f, T) + Over(g, T)}
<1>1. IsFiniteSet(S)
  BY DEF Summable
<1>2. {} \in G
  BY OverEmpty
<1>3. ASSUME NEW T \in SUBSET S, NEW x \in S \ T, T \in G PROVE T \union {x} \in G
  <2>1. Summable(f, T) /\ Summable(g, T)
    BY SubSummable
  <2>2. f[x] \in Int /\ g[x] \in Int /\ h[x] = f[x] + g[x]
    BY DEF Summable
  <2>3. \A y \in T : h[y] \in Int
    BY DEF Summable
  <2>4. Summable(h, T)
    BY <2>1, <2>3 DEF Summable
  <2>5. h[x] \in Int
    BY <2>2
  <2>6. /\ Over(f, T \union {x}) = Over(f, T) + f[x] /\ Over(f, T) \in Int
        /\ Over(g, T \union {x}) = Over(g, T) + g[x] /\ Over(g, T) \in Int
        /\ Over(h, T \union {x}) = Over(h, T) + h[x] /\ Over(h, T) \in Int
    BY <2>1, <2>2, <2>4, <2>5, OverAdd
  <2>7. Over(h, T) = Over(f, T) + Over(g, T)
    BY <1>3
  <2>8. Over(h, T \union {x}) = Over(f, T \union {x}) + Over(g, T \union {x})
    BY <2>2, <2>6, <2>7
  <2> QED BY <2>8
<1>4. S \in G
  <2> HIDE DEF G
  <2> QED BY <1>1, <1>2, <1>3, FiniteInduction
<1> QED BY <1>4

\* Zeros add up to zero.
LEMMA OverZero ==
  ASSUME NEW f, NEW S, IsFiniteSet(S), \A x \in S : f[x] = 0
  PROVE  Summable(f, S) /\ Over(f, S) = 0
<1> DEFINE G == {T \in SUBSET S : Over(f, T) = 0}
<1>1. Summable(f, S)
  BY DEF Summable
<1>2. {} \in G
  BY OverEmpty
<1>3. ASSUME NEW T \in SUBSET S, NEW x \in S \ T, T \in G PROVE T \union {x} \in G
  <2>1. Summable(f, T)
    BY <1>1, SubSummable
  <2>2. f[x] = 0 /\ f[x] \in Int
    OBVIOUS
  <2>3. Over(f, T \union {x}) = Over(f, T) + f[x]
    BY <2>1, <2>2, OverAdd
  <2> QED BY <1>3, <2>2, <2>3
<1>4. S \in G
  <2> HIDE DEF G
  <2> QED BY <1>2, <1>3, FiniteInduction
<1> QED BY <1>1, <1>4

\* A sum over two disjoint sets is that of both.
LEMMA OverUnion ==
  ASSUME NEW f, NEW S, NEW T, Summable(f, S), Summable(f, T), S \intersect T = {}
  PROVE  /\ Summable(f, S \union T)
         /\ Over(f, S) \in Int /\ Over(f, T) \in Int
         /\ Over(f, S \union T) = Over(f, S) + Over(f, T)
<1> DEFINE G == {U \in SUBSET T : Over(f, S \union U) = Over(f, S) + Over(f, U)}
<1>1. Over(f, S) \in Int /\ Over(f, T) \in Int
  BY OverType
<1>2. Summable(f, S \union T)
  BY FS_Union DEF Summable
<1>3. {} \in G
  BY <1>1, OverEmpty
<1>4. ASSUME NEW U \in SUBSET T, NEW x \in T \ U, U \in G PROVE U \union {x} \in G
  <2>1. S \union U \in SUBSET (S \union T)
    OBVIOUS
  <2>2. Summable(f, U) /\ Summable(f, S \union U)
    BY <1>2, <2>1, SubSummable
  <2>3. f[x] \in Int
    BY DEF Summable
  <2>4. x \notin S \union U /\ S \union (U \union {x}) = (S \union U) \union {x}
    OBVIOUS
  <2>5. Over(f, U \union {x}) = Over(f, U) + f[x] /\ Over(f, U) \in Int
    BY <2>2, <2>3, OverAdd
  <2>6. Over(f, (S \union U) \union {x}) = Over(f, S \union U) + f[x]
    BY <2>2, <2>3, <2>4, OverAdd
  <2>7. Over(f, S \union U) = Over(f, S) + Over(f, U)
    BY <1>4
  <2>8. Over(f, (S \union U) \union {x}) = Over(f, S) + Over(f, U \union {x})
    BY <1>1, <2>3, <2>5, <2>6, <2>7
  <2> QED BY <2>4, <2>8
<1>5. T \in G
  <2>1. IsFiniteSet(T)
    BY DEF Summable
  <2> HIDE DEF G
  <2> QED BY <1>3, <1>4, <2>1, FiniteInduction
<1> QED BY <1>1, <1>2, <1>5

\* What is zero on the rest adds nothing.
LEMMA OverSupport ==
  ASSUME NEW f, NEW S, Summable(f, S), NEW T \in SUBSET S, \A x \in S \ T : f[x] = 0
  PROVE  Summable(f, T) /\ Over(f, S) = Over(f, T)
<1>1. S \ T \in SUBSET S /\ T \union (S \ T) = S /\ T \intersect (S \ T) = {}
  OBVIOUS
<1>2. Summable(f, T) /\ Summable(f, S \ T)
  BY <1>1, SubSummable
<1>3. Over(f, T \union (S \ T)) = Over(f, T) + Over(f, S \ T) /\ Over(f, T) \in Int
  BY <1>1, <1>2, OverUnion
<1>4. Over(f, S \ T) = 0
  BY <1>2, OverZero DEF Summable
<1>5. Over(f, S) = Over(f, T \union (S \ T))
  BY <1>1
<1>6. Over(f, S) = Over(f, T)
  BY <1>3, <1>4, <1>5
<1> QED BY <1>2, <1>6

\* Larger values have a larger sum.
LEMMA OverMonotone ==
  ASSUME NEW f, NEW g, NEW S, Summable(f, S), Summable(g, S), \A x \in S : f[x] <= g[x]
  PROVE  Over(f, S) <= Over(g, S)
<1> DEFINE G == {T \in SUBSET S : Over(f, T) <= Over(g, T)}
<1>1. IsFiniteSet(S)
  BY DEF Summable
<1>2. {} \in G
  BY OverEmpty
<1>3. ASSUME NEW T \in SUBSET S, NEW x \in S \ T, T \in G PROVE T \union {x} \in G
  <2>1. Summable(f, T) /\ Summable(g, T)
    BY SubSummable
  <2>2. f[x] \in Int /\ g[x] \in Int /\ f[x] <= g[x]
    BY DEF Summable
  <2>3. /\ Over(f, T \union {x}) = Over(f, T) + f[x] /\ Over(f, T) \in Int
        /\ Over(g, T \union {x}) = Over(g, T) + g[x] /\ Over(g, T) \in Int
    BY <2>1, <2>2, OverAdd
  <2>4. Over(f, T) <= Over(g, T)
    BY <1>3
  <2>5. Over(f, T \union {x}) <= Over(g, T \union {x})
    BY <2>2, <2>3, <2>4
  <2> QED BY <2>5
<1>4. S \in G
  <2> HIDE DEF G
  <2> QED BY <1>1, <1>2, <1>3, FiniteInduction
<1> QED BY <1>4

\* The same values under other keys.
LEMMA OverReindex ==
  ASSUME NEW f, NEW S, NEW T, NEW p, IsFiniteSet(S),
         \A x \in S : p[x] \in T /\ f[p[x]] \in Int,
         \A x, y \in S : p[x] = p[y] => x = y, \A z \in T : \E x \in S : p[x] = z
  PROVE  /\ Summable([x \in S |-> f[p[x]]], S) /\ Summable(f, T)
         /\ Over([x \in S |-> f[p[x]]], S) = Over(f, T)
<1> DEFINE h == [x \in S |-> f[p[x]]]
           G == {U \in SUBSET S : Over(h, U) = Over(f, {p[x] : x \in U})}
<1>1. Summable(h, S)
  BY DEF Summable
<1>2. IsFiniteSet(T)
  <2>1. [x \in S |-> p[x]] \in Surjection(S, T)
    BY DEF Surjection
  <2> QED BY <2>1, FS_Surjection
<1>3. Summable(f, T)
  BY <1>2 DEF Summable
<1>4. {} \in G
  <2>1. {p[x] : x \in {}} = {}
    OBVIOUS
  <2> QED BY <2>1, OverEmpty
<1>5. ASSUME NEW U \in SUBSET S, NEW x \in S \ U, U \in G PROVE U \union {x} \in G
  <2> DEFINE V == {p[y] : y \in U}
  <2>1. /\ {p[y] : y \in U \union {x}} = V \union {p[x]}
        /\ p[x] \notin V /\ V \in SUBSET T
    OBVIOUS
  <2>2. Summable(h, U) /\ Summable(f, V)
    BY <1>1, <1>3, <2>1, SubSummable
  <2>3. h[x] \in Int /\ f[p[x]] \in Int /\ h[x] = f[p[x]]
    OBVIOUS
  <2>4. Over(h, U) = Over(f, V)
    BY <1>5
  <2> HIDE DEF h, V
  <2>5. Over(h, U \union {x}) = Over(h, U) + h[x]
    BY <2>2, <2>3, OverAdd
  <2>6. Over(f, V \union {p[x]}) = Over(f, V) + f[p[x]]
    BY <2>1, <2>2, <2>3, OverAdd
  <2>7. Over(h, U \union {x}) = Over(f, {p[y] : y \in U \union {x}})
    BY <2>1, <2>3, <2>4, <2>5, <2>6
  <2> QED BY <2>7
<1>6. S \in G
  <2> HIDE DEF G
  <2> QED BY <1>4, <1>5, FiniteInduction
<1>7. {p[x] : x \in S} = T
  OBVIOUS
<1>8. Over(h, S) = Over(f, {p[x] : x \in S})
  BY <1>6
<1> QED BY <1>1, <1>3, <1>7, <1>8

\* The sum of the sums by key.
LEMMA OverByKey ==
  ASSUME NEW f, NEW S, Summable(f, S), NEW key, NEW K, IsFiniteSet(K),
         \A x \in S : key[x] \in K
  PROVE  /\ Summable([k \in K |-> Over(f, {x \in S : key[x] = k})], K)
         /\ Over([k \in K |-> Over(f, {x \in S : key[x] = k})], K) = Over(f, S)
<1> DEFINE Of(k) == {x \in S : key[x] = k}
           In(L) == {x \in S : key[x] \in L}
           h == [k \in K |-> Over(f, Of(k))]
           G == {L \in SUBSET K : Over(h, L) = Over(f, In(L))}
<1>1. \A k \in K : Summable(f, Of(k)) /\ Over(f, Of(k)) \in Int
  BY SubSummable, OverType
<1>2. Summable(h, K)
  BY <1>1 DEF Summable
<1>3. {} \in G
  <2>1. In({}) = {}
    OBVIOUS
  <2> QED BY <2>1, OverEmpty
<1>4. ASSUME NEW L \in SUBSET K, NEW k \in K \ L, L \in G PROVE L \union {k} \in G
  <2>1. In(L \union {k}) = In(L) \union Of(k) /\ In(L) \intersect Of(k) = {}
    OBVIOUS
  <2>2. Summable(h, L) /\ Summable(f, In(L)) /\ Summable(f, Of(k))
    BY <1>1, <1>2, SubSummable
  <2>3. h[k] = Over(f, Of(k)) /\ h[k] \in Int
    BY <1>1
  <2>4. Over(h, L) = Over(f, In(L))
    BY <1>4
  <2> HIDE DEF h, In, Of
  <2>5. Over(h, L \union {k}) = Over(h, L) + h[k]
    BY <2>2, <2>3, OverAdd
  <2>6. Over(f, In(L) \union Of(k)) = Over(f, In(L)) + Over(f, Of(k))
    BY <2>1, <2>2, OverUnion
  <2>7. Over(h, L \union {k}) = Over(f, In(L \union {k}))
    BY <2>1, <2>3, <2>4, <2>5, <2>6
  <2> QED BY <2>7
<1>5. K \in G
  <2> HIDE DEF G
  <2> QED BY <1>3, <1>4, FiniteInduction
<1>6. In(K) = S
  OBVIOUS
<1>7. Over(h, K) = Over(f, In(K))
  BY <1>5
<1> QED BY <1>2, <1>6, <1>7

----------------------------------------------------------------------------
\* The sum of the magnitudes of f over S.
Mass(f, S) == Over([x \in S |-> Abs(f[x])], S)

\* A magnitude bounds its number on both sides.
LEMMA AbsType == \A n \in Int : Abs(n) \in Nat /\ n <= Abs(n) /\ -n <= Abs(n)
BY DEF Abs

\* The magnitudes of f on a subset, as a sum over it.
LEMMA MassSame ==
  ASSUME NEW f, NEW S, NEW T \in SUBSET S
  PROVE  Mass(f, T) = Over([x \in S |-> Abs(f[x])], T)
<1>1. \A x \in T : [y \in T |-> Abs(f[y])][x] = [y \in S |-> Abs(f[y])][x]
  OBVIOUS
<1> QED BY <1>1, OverSame DEF Mass

\* Magnitudes can be summed where values can.
LEMMA MassSummable ==
  ASSUME NEW f, NEW S, Summable(f, S)
  PROVE  Summable([x \in S |-> Abs(f[x])], S)
<1>1. \A x \in S : Abs(f[x]) \in Int
  BY AbsType DEF Summable
<1> QED BY <1>1 DEF Summable

\* A sum is at most the magnitudes, which the triangle inequality gives.
LEMMA MassType ==
  ASSUME NEW f, NEW S, Summable(f, S)
  PROVE  /\ Mass(f, S) \in Nat
         /\ Abs(Over(f, S)) <= Mass(f, S)
<1> DEFINE g == [x \in S |-> Abs(f[x])]
           G == {T \in SUBSET S : Over(g, T) \in Nat /\ Abs(Over(f, T)) <= Over(g, T)}
<1>1. IsFiniteSet(S) /\ Summable(g, S)
  BY MassSummable DEF Summable
<1>2. {} \in G
  BY OverEmpty DEF Abs
<1>3. ASSUME NEW T \in SUBSET S, NEW x \in S \ T, T \in G PROVE T \union {x} \in G
  <2>1. Summable(f, T) /\ Summable(g, T)
    BY <1>1, SubSummable
  <2>2. f[x] \in Int
    BY DEF Summable
  <2>3. g[x] = Abs(f[x])
    OBVIOUS
  <2>4. g[x] \in Int
    BY <2>2, <2>3, AbsType
  <2>5. /\ Over(g, T) \in Nat /\ Abs(Over(f, T)) <= Over(g, T)
    BY <1>3
  <2> HIDE DEF g
  <2>6. /\ Over(f, T \union {x}) = Over(f, T) + f[x] /\ Over(f, T) \in Int
        /\ Over(g, T \union {x}) = Over(g, T) + g[x]
    BY <2>1, <2>2, <2>4, OverAdd
  <2>7. Over(g, T \union {x}) \in Nat /\ Abs(Over(f, T \union {x})) <= Over(g, T \union {x})
    BY <2>2, <2>3, <2>5, <2>6 DEF Abs
  <2> QED BY <2>7
<1>4. S \in G
  <2> HIDE DEF G
  <2> QED BY <1>1, <1>2, <1>3, FiniteInduction
<1> QED BY <1>4 DEF Mass

\* Parts have no more mass than the whole, and so no larger a sum.
LEMMA MassMonotone ==
  ASSUME NEW f, NEW S, Summable(f, S), NEW T \in SUBSET S
  PROVE  /\ Summable(f, T) /\ Over(f, T) \in Int
         /\ Mass(f, T) \in Nat /\ Mass(f, S) \in Nat
         /\ Mass(f, T) <= Mass(f, S)
         /\ Abs(Over(f, T)) <= Mass(f, S)
<1> DEFINE g == [x \in S |-> Abs(f[x])]
           R == S \ T
<1>1. R \in SUBSET S /\ T \union R = S /\ T \intersect R = {}
  OBVIOUS
<1>2. Summable(g, S) /\ Summable(f, T) /\ Summable(f, R)
  BY <1>1, MassSummable, SubSummable
<1>3. Summable(g, T) /\ Summable(g, R)
  BY <1>1, <1>2, SubSummable
<1>4. Mass(f, S) = Over(g, S) /\ Mass(f, T) = Over(g, T) /\ Mass(f, R) = Over(g, R)
  BY <1>1, MassSame
<1>5. Mass(f, R) \in Nat /\ Mass(f, T) \in Nat /\ Abs(Over(f, T)) <= Mass(f, T)
  BY <1>2, MassType
<1>6. Over(f, T) \in Int
  BY <1>2, OverType
<1> HIDE DEF g, R
<1>7. Over(g, T \union R) = Over(g, T) + Over(g, R)
  BY <1>1, <1>3, OverUnion
<1>8. Mass(f, S) = Mass(f, T) + Mass(f, R)
  BY <1>1, <1>4, <1>7
<1>9. Abs(Over(f, T)) \in Nat
  BY <1>6, AbsType
<1> QED BY <1>2, <1>5, <1>6, <1>8, <1>9

\* A value is at most the magnitudes.
LEMMA MassElement ==
  ASSUME NEW f, NEW S, Summable(f, S), NEW x \in S
  PROVE  f[x] \in Int /\ Abs(f[x]) \in Nat /\ Mass(f, S) \in Nat /\ Abs(f[x]) <= Mass(f, S)
<1>1. f[x] \in Int
  BY DEF Summable
<1>2. {} \union {x} = {x} /\ x \notin {} /\ Summable(f, {})
  BY FS_EmptySet DEF Summable
<1>3. Over(f, {} \union {x}) = Over(f, {}) + f[x]
  BY <1>1, <1>2, OverAdd
<1>4. Over(f, {x}) = f[x]
  BY <1>1, <1>2, <1>3, OverEmpty
<1>5. {x} \in SUBSET S
  OBVIOUS
<1>6. Abs(Over(f, {x})) <= Mass(f, S) /\ Mass(f, S) \in Nat
  BY <1>5, MassMonotone
<1> QED BY <1>1, <1>4, <1>6, AbsType

\* The least element of a set of numbers.
LEMMA Least ==
  ASSUME NEW S \in SUBSET Nat, S # {}
  PROVE  \E n \in S : \A m \in S : n <= m
<1> DEFINE R == OpToRel(<, Nat)
<1>1. IsWellFoundedOn(R, Nat)
  BY NatLessThanWellFounded
<1>2. \A m, n \in Nat : m < n => <<m, n>> \in R
  BY DEF OpToRel
<1>3. PICK x \in S : \A y \in S : ~ (<<y, x>> \in R)
  <2> HIDE DEF R
  <2> QED BY <1>1, WFMin
<1> HIDE DEF R
<1>4. \A m \in S : x <= m
  <2>1. ASSUME NEW m \in S, ~ (x <= m) PROVE FALSE
    <3>1. m \in Nat /\ x \in Nat /\ m < x
      BY <2>1
    <3> QED BY <1>2, <1>3, <3>1
  <2> QED BY <2>1
<1> QED BY <1>4

\* A bound on a magnitude is one on both sides.
LEMMA AbsWithin == \A n, k \in Int : Abs(n) <= k <=> n <= k /\ - n <= k
BY DEF Abs

\* A number that is so much off a sum, and a sum that is so much off another.
LEMMA AbsChain ==
  \A x, y, s, u, v, t, e \in Int :
    Abs(x - s - u) <= v /\ Abs(y - x - t) <= e => Abs(y - s - (u + t)) <= v + e
BY DEF Abs

LEMMA AbsRoom ==
  \A x, s, u, v, m, k, m1, m2, e1 \in Int, most \in Int :
    /\ Abs(x - s - u) <= v /\ Abs(u) <= m1 /\ m1 + m <= m2 /\ v + k <= e1
    /\ Abs(s) + m2 + e1 <= most
    => Abs(x) + m + k <= most
BY DEF Abs

\* Two sums whose terms are so much apart.
LEMMA OverApart ==
  ASSUME NEW f, NEW g, NEW e, NEW S, Summable(f, S), Summable(g, S), Summable(e, S),
         \A x \in S : Abs(f[x] - g[x]) <= e[x]
  PROVE  Abs(Over(f, S) - Over(g, S)) <= Over(e, S)
<1> DEFINE G == {T \in SUBSET S : Abs(Over(f, T) - Over(g, T)) <= Over(e, T)}
<1>1. IsFiniteSet(S)
  BY DEF Summable
<1>2. {} \in G
  BY OverEmpty DEF Abs
<1>3. ASSUME NEW T \in SUBSET S, NEW x \in S \ T, T \in G PROVE T \union {x} \in G
  <2>1. Summable(f, T) /\ Summable(g, T) /\ Summable(e, T)
    BY SubSummable
  <2>2. f[x] \in Int /\ g[x] \in Int /\ e[x] \in Int /\ Abs(f[x] - g[x]) <= e[x]
    BY DEF Summable
  <2>3. /\ Over(f, T \union {x}) = Over(f, T) + f[x] /\ Over(f, T) \in Int
        /\ Over(g, T \union {x}) = Over(g, T) + g[x] /\ Over(g, T) \in Int
        /\ Over(e, T \union {x}) = Over(e, T) + e[x] /\ Over(e, T) \in Int
    BY <2>1, <2>2, OverAdd
  <2>4. Abs(Over(f, T) - Over(g, T)) <= Over(e, T)
    BY <1>3
  <2>5. Abs(Over(f, T \union {x}) - Over(g, T \union {x})) <= Over(e, T \union {x})
    BY <2>2, <2>3, <2>4 DEF Abs
  <2> QED BY <2>5
<1>4. S \in G
  <2> HIDE DEF G
  <2> QED BY <1>1, <1>2, <1>3, FiniteInduction
<1> QED BY <1>4

\* The same number for each key.
LEMMA OverEach ==
  ASSUME NEW f, NEW S, IsFiniteSet(S), NEW n \in Int, \A x \in S : f[x] = n
  PROVE  Summable(f, S) /\ Over(f, S) = Cardinality(S) * n /\ Cardinality(S) \in Nat
<1> DEFINE G == {T \in SUBSET S : Over(f, T) = Cardinality(T) * n}
<1>1. Summable(f, S) /\ \A T \in SUBSET S : IsFiniteSet(T) /\ Cardinality(T) \in Nat
  BY FS_Subset, FS_CardinalityType DEF Summable
<1>2. {} \in G
  <2>1. 0 * n = 0
    OBVIOUS
  <2> QED BY <2>1, OverEmpty, FS_EmptySet
<1>3. ASSUME NEW T \in SUBSET S, NEW x \in S \ T, T \in G PROVE T \union {x} \in G
  <2>1. Over(f, T \union {x}) = Over(f, T) + n
    <3>1. Summable(f, T) /\ f[x] = n
      BY <1>1, SubSummable
    <3> QED BY <3>1, OverAdd
  <2>2. Cardinality(T \union {x}) = Cardinality(T) + 1 /\ Cardinality(T) \in Nat
    BY <1>1, FS_AddElement
  <2>3. (Cardinality(T) + 1) * n = Cardinality(T) * n + n
    BY <2>2
  <2>4. Over(f, T) = Cardinality(T) * n
    BY <1>3
  <2> QED BY <2>1, <2>2, <2>3, <2>4
<1>4. S \in G
  <2> HIDE DEF G
  <2> QED BY <1>2, <1>3, FiniteInduction
<1> QED BY <1>1, <1>4

----------------------------------------------------------------------------
LEMMA Division ==
  ASSUME NEW n \in Int, NEW p \in Nat \ {0}
  PROVE  /\ n \div p \in Int /\ n % p \in Int /\ 0 <= n % p /\ n % p < p
         /\ n = p * (n \div p) + (n % p) /\ p * (n \div p) \in Int
OBVIOUS

\* Rounding at a place: off by half of it at most, and never past a multiple of it.
LEMMA RoundedNear ==
  ASSUME NEW n \in Int, NEW p \in Nat \ {0}
  PROVE  /\ Rounded(n, p) \in Int /\ 2 * Abs(Rounded(n, p) - n) <= p
         /\ \A m \in Int : /\ n <= p * m => Rounded(n, p) <= p * m
                           /\ p * m <= n => p * m <= Rounded(n, p)
<1> DEFINE b == n \div p
           r == n % p
           s == p * b
<1>1. b \in Int /\ r \in Int /\ 0 <= r /\ r < p /\ n = s + r /\ s \in Int
  BY Division
<1>2. \A m \in Int : /\ p * m \in Int
                     /\ m <= b => p * m <= s
                     /\ m >= b + 1 => p * m >= s + p
  <2>1. SUFFICES ASSUME NEW m \in Int
                 PROVE  /\ p * m \in Int
                        /\ m <= b => p * m <= s
                        /\ m >= b + 1 => p * m >= s + p
    OBVIOUS
  <2> HIDE DEF b, r
  <2>2. \A k \in Nat : p * k \in Nat
    OBVIOUS
  <2>3. p * (b - m) = s - p * m /\ p * (m - b - 1) = p * m - s - p /\ p * m \in Int
    BY <1>1
  <2>4. m <= b => b - m \in Nat
    BY <1>1
  <2>5. m >= b + 1 => m - b - 1 \in Nat
    BY <1>1
  <2> QED BY <1>1, <2>2, <2>3, <2>4, <2>5
<1>3. p * (b + 1) = s + p
  <2> HIDE DEF b, r
  <2> QED BY <1>1
<1>4. \/ Rounded(n, p) = s /\ 2 * r <= p
      \/ Rounded(n, p) = s + p /\ p <= 2 * r
  BY <1>1, <1>3 DEF Rounded
<1>5. 2 * Abs(Rounded(n, p) - n) <= p /\ Rounded(n, p) \in Int
  <2> HIDE DEF b, r, s
  <2> QED BY <1>1, <1>4 DEF Abs
<1>6. ASSUME NEW m \in Int
      PROVE  /\ n <= p * m => Rounded(n, p) <= p * m
             /\ p * m <= n => p * m <= Rounded(n, p)
  <2>1. m <= b \/ m >= b + 1
    BY <1>1
  <2>2. p * m \in Int /\ (m <= b => p * m <= s) /\ (m >= b + 1 => p * m >= s + p)
    BY <1>2
  <2> HIDE DEF b, r, s
  <2> QED BY <1>1, <1>4, <2>1, <2>2
<1> QED BY <1>5, <1>6

\* The last place of a number is the smallest at which it fits.
LEMMA PlaceIs ==
  ASSUME NEW n \in Int, NEW place \in Places, Abs(n) <= place * Digits
  PROVE  PlaceOf(n) \in Places /\ Abs(n) <= PlaceOf(n) * Digits /\ PlaceOf(n) <= place
<1> DEFINE S == {p \in Places : Abs(n) <= p * Digits}
           Fits(p) == Abs(n) <= p * Digits /\ \A q \in Places : Abs(n) <= q * Digits => p <= q
<1>1. S \in SUBSET Nat /\ S # {}
  BY PlacesAssumption
<1>2. PICK p \in S : \A q \in S : p <= q
  <2> HIDE DEF S
  <2> QED BY <1>1, Least
<1>3. p \in Places /\ Fits(p)
  BY <1>2
<1>4. PlaceOf(n) = CHOOSE q \in Places : Fits(q)
  BY DEF PlaceOf
<1>5. PlaceOf(n) \in Places /\ Fits(PlaceOf(n))
  <2> HIDE DEF Fits
  <2> QED BY <1>3, <1>4
<1> QED BY <1>5

\* A number that fits at a place is held up to half of it, on its side of zero.
LEMMA HeldNear ==
  ASSUME NEW n \in Int, NEW place \in Places, Abs(n) <= place * Digits
  PROVE  /\ Held[n] \in Int /\ Abs(Held[n] - n) <= place \div 2
         /\ Abs(Held[n]) <= place * Digits
         /\ n >= 0 => Held[n] >= 0
<1> DEFINE p == PlaceOf(n)
           x == Rounded(n, p)
<1>1. p \in Places /\ Abs(n) <= p * Digits /\ p <= place
  BY PlaceIs
<1>2. p \in Nat \ {0} /\ place \in Nat \ {0} /\ Digits \in Nat
  BY <1>1, PlacesAssumption
<1>3. Held[n] = x
  BY DEF Held
<1>4. /\ x \in Int /\ 2 * Abs(x - n) <= p
      /\ \A m \in Int : (n <= p * m => x <= p * m) /\ (p * m <= n => p * m <= x)
  <2> HIDE DEF p
  <2> QED BY <1>2, RoundedNear
<1> HIDE DEF p, x
<1>5. /\ p * Digits \in Int /\ p * Digits <= place * Digits /\ place * Digits \in Int
      /\ p * (- Digits) = - (p * Digits) /\ p * 0 = 0
  <2>1. \A k, d \in Nat : k * d \in Nat /\ k * (- d) = - (k * d)
    OBVIOUS
  <2>2. (place - p) * Digits \in Nat /\ (place - p) * Digits = place * Digits - p * Digits
    BY <1>1, <1>2, <2>1
  <2> QED BY <1>2, <2>1, <2>2
<1>6. Abs(x) <= place * Digits /\ (n >= 0 => x >= 0)
  <2>1. /\ n <= p * Digits => x <= p * Digits
        /\ p * (- Digits) <= n => p * (- Digits) <= x
        /\ p * 0 <= n => p * 0 <= x
    <3>1. Digits \in Int /\ - Digits \in Int /\ 0 \in Int
      BY <1>2
    <3> QED BY <1>4, <3>1
  <2>2. n <= p * Digits /\ - (p * Digits) <= n
    BY <1>1, <1>5 DEF Abs
  <2> QED BY <1>4, <1>5, <2>1, <2>2 DEF Abs
<1>7. Abs(x - n) <= place \div 2
  <2>1. Abs(x - n) \in Nat /\ 2 * Abs(x - n) <= place
    BY <1>1, <1>2, <1>4, AbsType
  <2>2. \A a, c \in Nat : 2 * a <= c => a <= c \div 2
    OBVIOUS
  <2> QED BY <1>2, <2>1, <2>2
<1> QED BY <1>3, <1>4, <1>6, <1>7

\* Half of a place, and the sizes of numbers at it.
LEMMA PlaceIsNat ==
  ASSUME NEW place \in Places
  PROVE  /\ place \in Nat /\ place \div 2 \in Nat /\ place * Digits \in Nat
         /\ place * Digits <= Largest /\ Largest \in Nat
BY PlacesAssumption, DepthAssumption

\* In the range, rounding stays in the range.
LEMMA HeldInRange ==
  ASSUME NEW n \in Decimal
  PROVE  Held[n] \in Decimal /\ (n >= 0 => Held[n] >= 0)
<1>1. PICK place \in Places : place * Digits = Largest
  BY PlacesAssumption
<1>2. n \in Int /\ Abs(n) <= Largest /\ Largest \in Nat
  BY DepthAssumption DEF Decimal, Abs
<1>3. Held[n] \in Int /\ Abs(Held[n]) <= Largest /\ (n >= 0 => Held[n] >= 0)
  BY <1>1, <1>2, HeldNear
<1> QED BY <1>2, <1>3 DEF Decimal, Abs

\* Amounts of whole kurus.
Kuruses == {n \in Int : n % Kurus = 0}

\* A number of units is held exactly, and so are whole kurus up to their place.
LEMMA HeldExact ==
  ASSUME NEW n \in Int, Abs(n) <= Digits \/ (n \in Kuruses /\ Abs(n) <= Whole)
  PROVE  Held[n] = n
<1>1. CASE Abs(n) <= Digits
  <2>1. 1 \in Places /\ 1 * Digits = Digits /\ 1 \div 2 = 0
    BY PlacesAssumption
  <2>2. Held[n] \in Int /\ Abs(Held[n] - n) <= 0
    BY <1>1, <2>1, HeldNear
  <2> QED BY <2>2 DEF Abs
<1>2. CASE n \in Kuruses /\ Abs(n) <= Whole
  <2> DEFINE p == PlaceOf(n)
  <2>1. Kurus \in Places /\ p \in Places /\ p <= Kurus
    BY <1>2, KurusAssumption, PlaceIs DEF Whole
  <2>2. Kurus % p = 0 /\ p \in Nat \ {0} /\ Kurus \in Nat \ {0}
    BY <2>1, KurusAssumption, PlacesAssumption
  <2>3. Held[n] = Rounded(n, p)
    BY DEF Held
  <2> HIDE DEF p
  <2>4. n = p * ((Kurus \div p) * (n \div Kurus))
    <3>1. \A d \in Nat \ {0}, m \in Int : m % d = 0 => m = d * (m \div d) /\ m \div d \in Int
      OBVIOUS
    <3>2. n = Kurus * (n \div Kurus) /\ n \div Kurus \in Int
      BY <1>2, <2>2, <3>1 DEF Kuruses
    <3>3. Kurus = p * (Kurus \div p) /\ Kurus \div p \in Int
      BY <2>2, <3>1
    <3>4. \A x, y, z \in Int : (x * y) * z = x * (y * z)
      OBVIOUS
    <3>5. n = (p * (Kurus \div p)) * (n \div Kurus)
      BY <3>2, <3>3
    <3>6. (p * (Kurus \div p)) * (n \div Kurus) = p * ((Kurus \div p) * (n \div Kurus))
      BY <2>2, <3>2, <3>3, <3>4
    <3> QED BY <3>5, <3>6
  <2>5. \A m \in Int : (n <= p * m => Rounded(n, p) <= p * m) /\ (p * m <= n => p * m <= Rounded(n, p))
    BY <2>2, RoundedNear
  <2>6. (Kurus \div p) * (n \div Kurus) \in Int /\ Rounded(n, p) \in Int
    <3>1. Kurus \div p \in Int /\ n \div Kurus \in Int
      BY <2>2
    <3>2. \A x, y \in Int : x * y \in Int
      OBVIOUS
    <3>3. Rounded(n, p) \in Int
      BY <2>2, RoundedNear
    <3> QED BY <3>1, <3>2, <3>3
  <2> DEFINE m == (Kurus \div p) * (n \div Kurus)
  <2>7. Rounded(n, p) <= n /\ n <= Rounded(n, p)
    <3>1. n = p * m /\ m \in Int
      BY <2>4, <2>6
    <3> HIDE DEF m
    <3>2. n <= p * m /\ p * m <= n
      BY <3>1
    <3>3. Rounded(n, p) <= p * m /\ p * m <= Rounded(n, p)
      BY <2>5, <3>1, <3>2
    <3> QED BY <3>1, <3>3
  <2> QED BY <2>3, <2>6, <2>7
<1> QED BY <1>1, <1>2

\* What has no remainder is a multiple.
LEMMA Multiples == \A d \in Nat \ {0} : \A m \in Int : m % d = 0 <=> \E k \in Int : m = d * k
<1>1. ASSUME NEW d \in Nat \ {0}, NEW m \in Int
      PROVE  m = d * (m \div d) + (m % d) /\ m \div d \in Int
  BY Division
<1>2. ASSUME NEW d \in Nat \ {0}, NEW m \in Int, NEW k \in Int, m = d * k
      PROVE  m % d = 0
  <2> DEFINE x == m \div d
             y == m % d
  <2>1. x \in Int /\ y \in Int /\ 0 <= y /\ y < d /\ d * k = d * x + y
    BY <1>2
  <2> HIDE DEF x, y
  <2>2. d * (k - x) = y
    BY <2>1
  <2>3. k - x <= 0 \/ k - x >= 1
    BY <2>1
  <2>4. \A j \in Int : (j <= 0 => d * j <= 0) /\ (j >= 1 => d * j >= d)
    <3>1. \A a \in Nat : d * a \in Nat
      OBVIOUS
    <3>2. \A j \in Int : (j <= 0 => - j \in Nat) /\ (j >= 1 => j - 1 \in Nat)
      OBVIOUS
    <3>3. \A j \in Int : d * (- j) = - (d * j) /\ d * (j - 1) = d * j - d /\ d * j \in Int
      OBVIOUS
    <3> QED BY <3>1, <3>2, <3>3
  <2>5. y = 0
    BY <2>1, <2>2, <2>3, <2>4
  <2> QED BY <2>5 DEF y
<1>3. ASSUME NEW d \in Nat \ {0}, NEW m \in Int, m % d = 0
      PROVE  \E k \in Int : m = d * k
  <2>1. m = d * (m \div d) /\ m \div d \in Int
    BY <1>1, <1>3
  <2> QED BY <2>1
<1> QED BY <1>2, <1>3

\* Whole kurus at most the digits at the kurus.
LEMMA WholeIs ==
  /\ Whole \in Nat /\ Whole <= Largest /\ Largest \in Nat /\ Digits \in Nat /\ Digits <= Whole
  /\ Kurus \in Nat \ {0} /\ 0 \in Kuruses
  /\ \A a, c \in Kuruses : a + c \in Kuruses /\ a - c \in Kuruses
<1>1. Kurus \in Places /\ Kurus \in Nat \ {0} /\ Digits \in Nat \ {0} /\ Largest \in Nat
  BY KurusAssumption, UnitAssumption, PlacesAssumption, DepthAssumption
<1>2. Whole \in Nat /\ Whole <= Largest /\ Digits <= Whole
  <2>1. \A x \in Nat \ {0}, y \in Nat : x * y \in Nat /\ y <= x * y
    <3>1. \A x, y \in Nat : x * y \in Nat
      OBVIOUS
    <3>2. \A a \in Int, c \in Int, n \in Nat : a <= c => a * n <= c * n
      OBVIOUS
    <3>3. ASSUME NEW x \in Nat \ {0}, NEW y \in Nat PROVE x * y \in Nat /\ y <= x * y
      <4>1. 1 <= x /\ 1 \in Int /\ x \in Int /\ 1 * y = y
        OBVIOUS
      <4> QED BY <3>1, <3>2, <4>1
    <3> QED BY <3>3
  <2> QED BY <1>1, <2>1, PlacesAssumption DEF Whole
<1>4. \A a, c \in Kuruses : a + c \in Kuruses /\ a - c \in Kuruses
  <2>1. SUFFICES ASSUME NEW a \in Kuruses, NEW c \in Kuruses
                 PROVE  a + c \in Kuruses /\ a - c \in Kuruses
    OBVIOUS
  <2>2. PICK j \in Int : a = Kurus * j
    BY <1>1, Multiples DEF Kuruses
  <2>3. PICK k \in Int : c = Kurus * k
    BY <1>1, Multiples DEF Kuruses
  <2>4. a + c = Kurus * (j + k) /\ a - c = Kurus * (j - k)
    BY <1>1, <2>2, <2>3
  <2>5. a + c \in Int /\ a - c \in Int /\ j + k \in Int /\ j - k \in Int
    BY <2>2, <2>3 DEF Kuruses
  <2>6. (a + c) % Kurus = 0 /\ (a - c) % Kurus = 0
    BY <1>1, Multiples, <2>4, <2>5
  <2> QED BY <2>5, <2>6 DEF Kuruses
<1>5. 0 \in Kuruses
  <2>1. 0 = Kurus * 0
    BY <1>1
  <2>2. 0 % Kurus = 0
    BY <1>1, Multiples, <2>1
  <2> QED BY <2>2 DEF Kuruses
<1> QED BY <1>1, <1>2, <1>4, <1>5

\* A sum of whole kurus is one.
LEMMA OverKuruses ==
  ASSUME NEW f, NEW S, IsFiniteSet(S), \A x \in S : f[x] \in Kuruses
  PROVE  Summable(f, S) /\ Over(f, S) \in Kuruses
<1> DEFINE G == {T \in SUBSET S : Over(f, T) \in Kuruses}
<1>1. Summable(f, S)
  BY DEF Summable, Kuruses
<1>2. {} \in G
  BY OverEmpty, WholeIs
<1>3. ASSUME NEW T \in SUBSET S, NEW x \in S \ T, T \in G PROVE T \union {x} \in G
  <2>1. Summable(f, T) /\ f[x] \in Kuruses /\ f[x] \in Int
    BY <1>1, SubSummable DEF Kuruses
  <2>2. Over(f, T \union {x}) = Over(f, T) + f[x]
    BY <2>1, OverAdd
  <2> QED BY <1>3, <2>1, <2>2, WholeIs
<1>4. S \in G
  <2> HIDE DEF G
  <2> QED BY <1>2, <1>3, FiniteInduction
<1> QED BY <1>1, <1>4


\* Sums of natural numbers grow with their keys.
LEMMA OverNat ==
  ASSUME NEW f, NEW S, IsFiniteSet(S), \A x \in S : f[x] \in Nat
  PROVE  /\ Summable(f, S) /\ Over(f, S) \in Nat
         /\ \A T \in SUBSET S : Summable(f, T) /\ Over(f, T) \in Nat /\ Over(f, T) <= Over(f, S)
         /\ \A x \in S : f[x] <= Over(f, S)
<1>1. Summable(f, S)
  BY DEF Summable
<1>2. \A x \in S : Abs(f[x]) = f[x]
  BY DEF Abs
<1>3. ASSUME NEW T \in SUBSET S
      PROVE  Mass(f, T) = Over(f, T)
  <2>1. \A x \in T : [y \in T |-> Abs(f[y])][x] = f[x]
    BY <1>2
  <2> QED BY <2>1, OverSame DEF Mass
<1>4. \A T \in SUBSET S : Summable(f, T) /\ Mass(f, T) \in Nat /\ Mass(f, T) <= Mass(f, S)
  BY <1>1, MassMonotone
<1>5. \A x \in S : Abs(f[x]) <= Mass(f, S)
  BY <1>1, MassElement
<1>6. S \in SUBSET S
  OBVIOUS
<1> QED BY <1>1, <1>2, <1>3, <1>4, <1>5, <1>6

\* The same number for some keys.
Each(S, n) == [x \in S |-> n]

LEMMA EachType ==
  ASSUME NEW D, IsFiniteSet(D), NEW n \in Nat, NEW S \in SUBSET D
  PROVE  /\ Summable(Each(D, n), S) /\ Over(Each(D, n), S) \in Nat
         /\ Over(Each(D, n), S) <= Over(Each(D, n), D)
         /\ Over(Each(D, n), S) = Cardinality(S) * n /\ Cardinality(S) \in Nat
         /\ Over(Each(S, n), S) = Over(Each(D, n), S)
<1> DEFINE e == Each(D, n)
<1>1. \A x \in D : e[x] = n
  BY DEF Each
<1>2. IsFiniteSet(S) /\ \A x \in S : e[x] = n /\ Each(S, n)[x] = n
  BY <1>1, FS_Subset DEF Each
<1> HIDE DEF e
<1>3. Summable(e, S) /\ Over(e, S) \in Nat /\ Over(e, S) <= Over(e, D)
  BY <1>1, OverNat
<1>4. Over(e, S) = Cardinality(S) * n /\ Cardinality(S) \in Nat
  BY <1>2, OverEach
<1>5. Over(Each(S, n), S) = Over(e, S)
  BY <1>2, OverSame
<1> QED BY <1>3, <1>4, <1>5 DEF e

----------------------------------------------------------------------------
\* A cut that is off by at most q up to a magnitude of m.
Cuts(cut, m, q) == \A n \in Int : Abs(n) <= m => cut[n] \in Int /\ Abs(cut[n] - n) <= q

\* Sums in any order: if each addition keeps the sum within the error granted so
\* far, so is the whole.
LEMMA GatheredWithin ==
  ASSUME NEW f, Summable(f, DOMAIN f), NEW e, Summable(e, DOMAIN f), NEW cut,
         \A S \in SUBSET DOMAIN f : \A x \in S : \A n \in Int :
           Abs(n - Over(f, S \ {x})) <= Over(e, S \ {x})
           => cut[n + f[x]] \in Int /\ Abs(cut[n + f[x]] - Over(f, S)) <= Over(e, S)
  PROVE  Gathered(f, cut) \in Int /\ Abs(Gathered(f, cut) - Over(f, DOMAIN f)) <= Over(e, DOMAIN f)
<1> DEFINE D == DOMAIN f
           Chosen(S) == CHOOSE x \in S : TRUE
<1>1. IsFiniteSet(D)
  BY DEF Summable
<1>2. PICK sum : Gathers(sum, f, cut) /\ Gathered(f, cut) = sum[D]
  BY <1>1, GathersIs
<1> DEFINE G == {S \in SUBSET D : sum[S] \in Int /\ Abs(sum[S] - Over(f, S)) <= Over(e, S)}
<1>3. ASSUME NEW S \in SUBSET D, \A T \in SUBSET S : T # S => T \in G PROVE S \in G
  <2>1. CASE S = {}
    <3>1. sum[S] = 0
      BY <1>2, <2>1 DEF Gathers
    <3> QED BY <2>1, <3>1, OverEmpty DEF Abs
  <2>2. CASE S # {}
    <3> DEFINE x == Chosen(S)
    <3>1. x \in S
      BY <2>2
    <3>2. sum[S] = cut[sum[S \ {x}] + f[x]]
      BY <1>2, <2>2 DEF Gathers
    <3> HIDE DEF x
    <3>3. S \ {x} \in SUBSET S /\ S \ {x} # S
      BY <3>1
    <3>4. sum[S \ {x}] \in Int /\ Abs(sum[S \ {x}] - Over(f, S \ {x})) <= Over(e, S \ {x})
      BY <1>3, <3>3
    <3> QED BY <3>1, <3>2, <3>4
  <2> QED BY <2>1, <2>2
<1>4. D \in G
  <2> HIDE DEF G
  <2> QED BY <1>1, <1>3, SizeInduction
<1> QED BY <1>2, <1>4

\* A sum in any order is exact if cutting leaves the sums of its parts alone.
THEOREM GatheredExact ==
  ASSUME NEW f, Summable(f, DOMAIN f), NEW cut,
         \A S \in SUBSET DOMAIN f : cut[Over(f, S)] = Over(f, S)
  PROVE  Gathered(f, cut) = Over(f, DOMAIN f)
<1> DEFINE D == DOMAIN f
           e == Each(D, 0)
<1>1. IsFiniteSet(D)
  BY DEF Summable
<1>2. \A S \in SUBSET D : Summable(e, S) /\ Over(e, S) = 0
  <2>1. \A S \in SUBSET D : IsFiniteSet(S) /\ \A x \in S : e[x] = 0
    BY <1>1, FS_Subset DEF Each
  <2> HIDE DEF e
  <2> QED BY <2>1, OverZero
<1> HIDE DEF e
<1>3. ASSUME NEW S \in SUBSET D, NEW x \in S, NEW n \in Int,
             Abs(n - Over(f, S \ {x})) <= Over(e, S \ {x})
      PROVE  cut[n + f[x]] \in Int /\ Abs(cut[n + f[x]] - Over(f, S)) <= Over(e, S)
  <2>1. Summable(f, S)
    BY SubSummable
  <2>2. Over(f, S \ {x}) \in Int /\ f[x] \in Int /\ Over(f, S) = Over(f, S \ {x}) + f[x]
    BY <2>1, OverRemove
  <2>3. S \ {x} \in SUBSET D
    OBVIOUS
  <2>4. n = Over(f, S \ {x})
    BY <1>2, <1>3, <2>2, <2>3 DEF Abs
  <2>5. cut[n + f[x]] = Over(f, S) /\ Over(f, S) \in Int
    BY <2>2, <2>4
  <2> QED BY <1>2, <2>5 DEF Abs
<1>4. D \in SUBSET D
  OBVIOUS
<1>5. Gathered(f, cut) \in Int /\ Abs(Gathered(f, cut) - Over(f, D)) <= Over(e, D)
  BY <1>2, <1>3, <1>4, GatheredWithin
<1>6. Over(f, D) \in Int
  BY OverType
<1> QED BY <1>2, <1>4, <1>5, <1>6 DEF Abs

\* Otherwise it is off by at most the error of a cut for each value.
THEOREM GatheredNear ==
  ASSUME NEW f, Summable(f, DOMAIN f), NEW cut, NEW m \in Nat, NEW q \in Nat, Cuts(cut, m, q),
         Mass(f, DOMAIN f) + Cardinality(DOMAIN f) * q <= m
  PROVE  /\ Gathered(f, cut) \in Int
         /\ Abs(Gathered(f, cut) - Over(f, DOMAIN f)) <= Cardinality(DOMAIN f) * q
<1> DEFINE D == DOMAIN f
           e == Each(D, q)
<1>1. IsFiniteSet(D)
  BY DEF Summable
<1>2. \A S \in SUBSET D :
        Summable(e, S) /\ Over(e, S) \in Nat /\ Over(e, S) <= Over(e, D)
  BY <1>1, EachType
<1>3. D \in SUBSET D /\ Over(e, D) = Cardinality(D) * q
  BY <1>1, EachType
<1>4. \A x \in D : e[x] = q
  BY DEF Each
<1> HIDE DEF e
<1>5. ASSUME NEW S \in SUBSET D, NEW x \in S, NEW n \in Int,
             Abs(n - Over(f, S \ {x})) <= Over(e, S \ {x})
      PROVE  cut[n + f[x]] \in Int /\ Abs(cut[n + f[x]] - Over(f, S)) <= Over(e, S)
  <2>1. Summable(f, S) /\ Summable(e, S)
    BY <1>2, SubSummable
  <2>2. /\ Over(f, S \ {x}) \in Int /\ f[x] \in Int /\ Over(f, S) = Over(f, S \ {x}) + f[x]
        /\ Over(e, S \ {x}) \in Int /\ Over(e, S) = Over(e, S \ {x}) + q
    BY <1>4, <2>1, OverRemove
  <2>3. Over(e, S) <= Over(e, D) /\ Over(e, D) + Mass(f, D) <= m
    <3>1. Mass(f, D) \in Nat /\ Over(e, D) \in Nat
      BY <1>2, <1>3, MassType
    <3>2. Over(e, D) + Mass(f, D) = Mass(f, D) + Over(e, D)
      BY <3>1
    <3> QED BY <1>2, <1>3, <3>2
  <2>4. Abs(Over(f, S)) <= Mass(f, D) /\ Mass(f, D) \in Nat
    BY MassMonotone
  <2>5. Abs(n + f[x]) <= m
    BY <1>2, <1>3, <1>5, <2>2, <2>3, <2>4 DEF Abs
  <2>6. cut[n + f[x]] \in Int /\ Abs(cut[n + f[x]] - (n + f[x])) <= q
    BY <2>2, <2>5 DEF Cuts
  <2> QED BY <1>5, <2>2, <2>6 DEF Abs
<1>6. Gathered(f, cut) \in Int /\ Abs(Gathered(f, cut) - Over(f, D)) <= Over(e, D)
  BY <1>2, <1>3, <1>5, GatheredWithin
<1> QED BY <1>3, <1>6

----------------------------------------------------------------------------
\* What some steps lead to, as Run defines it.
Running(at, start, steps) ==
  at = [n \in 0 .. Len(steps) |-> IF n = 0 THEN start ELSE steps[n][at[n - 1]]]

LEMMA RunIs ==
  ASSUME NEW steps, NEW start, Len(steps) \in Nat
  PROVE  \E at : Running(at, start, steps) /\ Run(start, steps) = at[Len(steps)]
<1> DEFINE P(n, f) == f = [i \in 0 .. n |-> IF i = 0 THEN start ELSE steps[i][f[i - 1]]]
           S == {n \in Nat : \E f : P(n, f)}
<1>1. 0 \in S
  <2> DEFINE g == [i \in 0 .. 0 |-> start]
  <2>1. P(0, g)
    OBVIOUS
  <2> QED BY <2>1
<1>2. ASSUME NEW n \in Nat, n \in S PROVE n + 1 \in S
  <2>1. PICK f : P(n, f)
    BY <1>2
  <2> DEFINE g == [i \in 0 .. n + 1 |-> IF i = n + 1 THEN steps[n + 1][f[n]] ELSE f[i]]
  <2>2. DOMAIN f = 0 .. n /\ \A i \in 0 .. n : f[i] = IF i = 0 THEN start ELSE steps[i][f[i - 1]]
    BY <2>1
  <2>3. ASSUME NEW i \in 0 .. n + 1 PROVE g[i] = IF i = 0 THEN start ELSE steps[i][g[i - 1]]
    <3>1. g[i] = IF i = n + 1 THEN steps[n + 1][f[n]] ELSE f[i]
      OBVIOUS
    <3>2. i # 0 => g[i - 1] = f[i - 1]
      <4>1. i # 0 => i - 1 \in 0 .. n + 1 /\ i - 1 # n + 1
        OBVIOUS
      <4> QED BY <4>1
    <3> HIDE DEF g
    <3>3. CASE i = n + 1
      <4>1. i # 0 /\ i - 1 = n
        BY <3>3
      <4> QED BY <3>1, <3>2, <3>3, <4>1
    <3>4. CASE i # n + 1
      <4>1. i \in 0 .. n
        BY <3>4
      <4> QED BY <2>2, <3>1, <3>2, <3>4, <4>1
    <3> QED BY <3>3, <3>4
  <2>4. P(n + 1, g)
    BY <2>3
  <2> HIDE DEF g
  <2> QED BY <2>4
<1>3. Len(steps) \in S
  <2> HIDE DEF S
  <2> QED BY <1>1, <1>2, SetInduction
<1>4. \E at : Running(at, start, steps)
  BY <1>3 DEF Running
<1> DEFINE at == CHOOSE f : Running(f, start, steps)
<1>5. Running(at, start, steps)
  <2> HIDE DEF Running
  <2> QED BY <1>4
<1>6. Run(start, steps) = at[Len(steps)]
  BY DEF Run, Running
<1> HIDE DEF at
<1> QED BY <1>5, <1>6

\* Steps of which each adds t but for an error of e, if what it is taken from leaves
\* room for both below most; m is what t may come to on the way.
Step(step, t, m, e, most) ==
  /\ t \in Int /\ m \in Nat /\ Abs(t) <= m /\ e \in Nat
  /\ \A x \in Int : Abs(x) + m + e <= most => step[x] \in Int /\ Abs(step[x] - x - t) <= e
Steps(steps, t, m, e, N, most) == \A i \in 1 .. N : Step(steps[i], t[i], m[i], e[i], most)

\* Such steps lead to the sum but for the errors.
LEMMA RunNear ==
  ASSUME NEW N \in Nat, NEW steps, Len(steps) = N, NEW start \in Int,
         NEW t, NEW m, NEW e, NEW most \in Nat, Steps(steps, t, m, e, N, most),
         Abs(start) + Over(m, 1 .. N) + Over(e, 1 .. N) <= most
  PROVE  /\ Run(start, steps) \in Int
         /\ Abs(Run(start, steps) - start - Over(t, 1 .. N)) <= Over(e, 1 .. N)
<1>1. PICK at : Running(at, start, steps) /\ Run(start, steps) = at[N]
  BY RunIs
<1>2. \A n \in 0 .. N : at[n] = IF n = 0 THEN start ELSE steps[n][at[n - 1]]
  BY <1>1 DEF Running
<1>3. /\ IsFiniteSet(1 .. N) /\ Summable(t, 1 .. N)
      /\ \A i \in 1 .. N : m[i] \in Nat /\ Abs(t[i]) <= m[i] /\ e[i] \in Nat
  <2>1. IsFiniteSet(1 .. N)
    BY FS_Interval
  <2> QED BY <2>1 DEF Steps, Step, Summable
<1>4. ASSUME NEW n \in Nat, n <= N
      PROVE  /\ Summable(t, 1 .. n) /\ Over(t, 1 .. n) \in Int
             /\ Summable(m, 1 .. n) /\ Over(m, 1 .. n) \in Nat /\ Over(m, 1 .. n) <= Over(m, 1 .. N)
             /\ Summable(e, 1 .. n) /\ Over(e, 1 .. n) \in Nat /\ Over(e, 1 .. n) <= Over(e, 1 .. N)
             /\ Abs(Over(t, 1 .. n)) <= Over(m, 1 .. n)
  <2>1. (1 .. n) \in SUBSET (1 .. N)
    BY <1>4
  <2>2. Summable(t, 1 .. n) /\ Over(t, 1 .. n) \in Int
    BY <1>3, <2>1, SubSummable, OverType
  <2>3. /\ Summable(m, 1 .. n) /\ Over(m, 1 .. n) \in Nat /\ Over(m, 1 .. n) <= Over(m, 1 .. N)
        /\ Summable(e, 1 .. n) /\ Over(e, 1 .. n) \in Nat /\ Over(e, 1 .. n) <= Over(e, 1 .. N)
    BY <1>3, <2>1, OverNat
  <2> DEFINE a == [i \in 1 .. n |-> Abs(t[i])]
  <2>4. Summable(a, 1 .. n) /\ Abs(Over(t, 1 .. n)) <= Over(a, 1 .. n)
    BY <2>2, MassSummable, MassType DEF Mass
  <2>5. \A i \in 1 .. n : a[i] <= m[i]
    BY <1>3, <2>1
  <2> HIDE DEF a
  <2>6. Over(a, 1 .. n) <= Over(m, 1 .. n) /\ Over(a, 1 .. n) \in Int
    BY <2>3, <2>4, <2>5, OverMonotone, OverType
  <2>7. Abs(Over(t, 1 .. n)) \in Nat
    BY <2>2, AbsType
  <2> QED BY <2>2, <2>3, <2>4, <2>6, <2>7
<1> DEFINE G == {n \in Nat : n <= N =>
                   at[n] \in Int /\ Abs(at[n] - start - Over(t, 1 .. n)) <= Over(e, 1 .. n)}
<1>5. 0 \in G
  <2>1. 1 .. 0 = {} /\ at[0] = start
    <3>1. 0 \in 0 .. N
      OBVIOUS
    <3>2. at[0] = IF 0 = 0 THEN start ELSE steps[0][at[0 - 1]]
      BY <1>2, <3>1
    <3> QED BY <3>2
  <2>2. start \in Int /\ start - start - 0 = 0 /\ Abs(0) <= 0
    BY DEF Abs
  <2> QED BY <2>1, <2>2, OverEmpty
<1>6. ASSUME NEW n \in Nat, n \in G PROVE n + 1 \in G
  <2>1. SUFFICES ASSUME n + 1 <= N
                 PROVE  /\ at[n + 1] \in Int
                        /\ Abs(at[n + 1] - start - Over(t, 1 .. n + 1)) <= Over(e, 1 .. n + 1)
    OBVIOUS
  <2>2. at[n + 1] = steps[n + 1][at[n]] /\ n <= N /\ n + 1 \in 1 .. N
    BY <1>2, <2>1
  <2>3. at[n] \in Int /\ Abs(at[n] - start - Over(t, 1 .. n)) <= Over(e, 1 .. n)
    BY <1>6, <2>2
  <2>4. (1 .. n + 1) \ {n + 1} = 1 .. n /\ n + 1 \in 1 .. n + 1
    OBVIOUS
  <2>5. /\ Over(t, 1 .. n + 1) = Over(t, 1 .. n) + t[n + 1] /\ t[n + 1] \in Int
        /\ Over(m, 1 .. n + 1) = Over(m, 1 .. n) + m[n + 1]
        /\ Over(e, 1 .. n + 1) = Over(e, 1 .. n) + e[n + 1]
    <3>1. Summable(t, 1 .. n + 1) /\ Summable(m, 1 .. n + 1) /\ Summable(e, 1 .. n + 1)
      BY <1>4, <2>1
    <3> QED BY <2>4, <3>1, OverRemove
  <2>6. m[n + 1] \in Nat /\ e[n + 1] \in Nat
    BY <1>3, <2>2
  <2>7. /\ Over(t, 1 .. n) \in Int /\ Over(m, 1 .. n) \in Nat /\ Over(e, 1 .. n) \in Nat
        /\ Over(m, 1 .. n + 1) <= Over(m, 1 .. N) /\ Over(m, 1 .. N) \in Nat
        /\ Over(e, 1 .. n + 1) <= Over(e, 1 .. N) /\ Over(e, 1 .. N) \in Nat
        /\ Abs(Over(t, 1 .. n)) <= Over(m, 1 .. n)
    BY <1>4, <2>1, <2>2
  <2>8. Abs(at[n]) + m[n + 1] + e[n + 1] <= most
    <3> DEFINE x == at[n]
               u == Over(t, 1 .. n)
               v == Over(e, 1 .. n)
               m1 == Over(m, 1 .. n)
               m2 == Over(m, 1 .. N)
               e1 == Over(e, 1 .. N)
               k == m[n + 1]
               d == e[n + 1]
    <3>1. /\ x \in Int /\ u \in Int /\ v \in Int /\ m1 \in Int /\ m2 \in Int /\ e1 \in Int
          /\ k \in Int /\ d \in Int
      BY <2>3, <2>6, <2>7
    <3>2. /\ Abs(x - start - u) <= v /\ Abs(u) <= m1 /\ m1 + k <= m2 /\ v + d <= e1
          /\ Abs(start) + m2 + e1 <= most
      BY <2>3, <2>5, <2>7
    <3> HIDE DEF x, u, v, m1, m2, e1, k, d
    <3>3. Abs(x) + k + d <= most
      BY <3>1, <3>2, AbsRoom
    <3> QED BY <3>3 DEF x, k, d
  <2>9. at[n + 1] \in Int /\ Abs(at[n + 1] - at[n] - t[n + 1]) <= e[n + 1]
    BY <2>2, <2>3, <2>8 DEF Steps, Step
  <2> DEFINE x == at[n]
             y == at[n + 1]
             u == Over(t, 1 .. n)
             v == Over(e, 1 .. n)
  <2>10. /\ x \in Int /\ y \in Int /\ u \in Int /\ v \in Int /\ t[n + 1] \in Int /\ e[n + 1] \in Int
         /\ Abs(x - start - u) <= v /\ Abs(y - x - t[n + 1]) <= e[n + 1]
    BY <2>3, <2>5, <2>6, <2>7, <2>9
  <2> HIDE DEF x, y, u, v
  <2>11. Abs(y - start - (u + t[n + 1])) <= v + e[n + 1]
    BY <2>10, AbsChain
  <2> QED BY <2>5, <2>10, <2>11 DEF x, y, u, v
<1>7. N \in G
  <2> HIDE DEF G
  <2> QED BY <1>5, <1>6, SetInduction
<1> QED BY <1>1, <1>7

\* Adding is such a step, whose error a zero has no part in.
LEMMA AddingStep ==
  ASSUME NEW cut, NEW most \in Nat, NEW q \in Nat, Cuts(cut, most, q),
         NEW n \in Int, NEW e \in Nat, n # 0 => q <= e
  PROVE  Step(Adding(n, cut), n, Abs(n), e, most)
<1>1. Abs(n) \in Nat
  BY AbsType
<1>2. ASSUME NEW x \in Int, Abs(x) + Abs(n) + e <= most
      PROVE  Adding(n, cut)[x] \in Int /\ Abs(Adding(n, cut)[x] - x - n) <= e
  <2>1. Adding(n, cut)[x] = IF n = 0 THEN x ELSE cut[x + n]
    BY DEF Adding
  <2>2. CASE n = 0
    BY <2>1, <2>2 DEF Abs
  <2>3. CASE n # 0
    <3>1. x + n \in Int /\ Abs(x + n) <= most
      BY <1>2 DEF Abs
    <3>2. cut[x + n] \in Int /\ Abs(cut[x + n] - (x + n)) <= q
      BY <3>1 DEF Cuts
    <3> QED BY <2>1, <2>3, <3>2 DEF Abs
  <2> QED BY <2>2, <2>3
<1> QED BY <1>1, <1>2 DEF Step

\* A sum in order is off by at most the error of a cut for each value that is not
\* zero, as long as the magnitudes and the errors stay in the cut's reach.
THEOREM AccumulatedNear ==
  ASSUME NEW N \in Nat, NEW s, DOMAIN s = 1 .. N, Summable(s, 1 .. N),
         NEW cut, NEW most \in Nat, NEW q \in Nat, Cuts(cut, most, q),
         NEW e, \A i \in 1 .. N : e[i] \in Nat /\ (s[i] # 0 => q <= e[i]),
         Mass(s, 1 .. N) + Over(e, 1 .. N) <= most
  PROVE  /\ Accumulated(s, cut) \in Int
         /\ Abs(Accumulated(s, cut) - Over(s, 1 .. N)) <= Over(e, 1 .. N)
<1> DEFINE steps == [i \in 1 .. N |-> Adding(s[i], cut)]
           m == [i \in 1 .. N |-> Abs(s[i])]
<1>1. Accumulated(s, cut) = Run(0, steps) /\ Len(steps) = N
  BY DEF Accumulated
<1>2. \A i \in 1 .. N : s[i] \in Int /\ Abs(s[i]) \in Nat
  BY AbsType DEF Summable
<1>3. \A i \in 1 .. N : m[i] \in Nat /\ Abs(s[i]) <= m[i] /\ m[i] = Abs(s[i])
  BY <1>2
<1>4. ASSUME NEW i \in 1 .. N PROVE Step(steps[i], s[i], m[i], e[i], most)
  <2>1. steps[i] = Adding(s[i], cut)
    OBVIOUS
  <2>2. s[i] \in Int /\ m[i] = Abs(s[i]) /\ m[i] \in Nat /\ e[i] \in Nat /\ (s[i] # 0 => q <= e[i])
    BY <1>2
  <2> HIDE DEF steps, m
  <2> QED BY <2>1, <2>2, AddingStep
<1>5. Abs(0) + Over(m, 1 .. N) + Over(e, 1 .. N) <= most /\ 0 \in Int
  <2>1. Over(m, 1 .. N) = Mass(s, 1 .. N) /\ Mass(s, 1 .. N) \in Nat
    BY MassType DEF Mass
  <2>2. Over(e, 1 .. N) \in Nat
    BY OverNat DEF Summable
  <2>3. Abs(0) = 0
    BY DEF Abs
  <2> QED BY <2>1, <2>2, <2>3
<1> HIDE DEF steps, m
<1>6. /\ Run(0, steps) \in Int
      /\ Abs(Run(0, steps) - 0 - Over(s, 1 .. N)) <= Over(e, 1 .. N)
  BY <1>1, <1>4, <1>5, RunNear DEF Steps
<1>7. Run(0, steps) - 0 = Run(0, steps)
  BY <1>6
<1> QED BY <1>1, <1>6, <1>7

----------------------------------------------------------------------------
\* What cutting does: beyond the range there is something within it, up to the size
\* of a place it is off by half of that place, and whole kurus stay.
LEMMA ClampFits ==
  /\ \A n \in Int : Clamp[n] \in Decimal /\ OrLargest[n] \in Decimal
  /\ \A place \in Places :
       /\ Cuts(Clamp, place * Digits, place \div 2) /\ Cuts(OrLargest, place * Digits, place \div 2)
       /\ Cuts(Unchecked, place * Digits, place \div 2)
  /\ \A n \in Int :
       Held[n] = n /\ Abs(n) <= Largest => /\ Clamp[n] = n /\ OrLargest[n] = n /\ Unchecked[n] = n
                                           /\ n \in Decimal /\ InRange(n)
<1>1. Largest \in Nat \ {0}
  BY DepthAssumption
<1>2. \A n \in Int : Abs(n) <= Largest <=> n \in Decimal
  BY <1>1 DEF Decimal, Abs
<1>3. \A n \in Decimal : /\ Clamp[n] = Held[n] /\ OrLargest[n] = Held[n] /\ Unchecked[n] = Held[n]
                         /\ Held[n] \in Decimal
  BY <1>1, HeldInRange DEF Clamp, OrLargest, Unchecked, InRange, Decimal
<1>4. \A n \in Int : Clamp[n] \in Decimal /\ OrLargest[n] \in Decimal
  <2>1. \A n \in Int : n \notin Decimal =>
          Clamp[n] \in {Largest, - Largest} /\ OrLargest[n] = Largest
    BY <1>1 DEF Clamp, OrLargest, InRange, Decimal
  <2>2. Largest \in Decimal /\ - Largest \in Decimal
    BY <1>1 DEF Decimal
  <2> QED BY <1>3, <2>1, <2>2
<1>5. ASSUME NEW place \in Places, NEW n \in Int, Abs(n) <= place * Digits
      PROVE  /\ n \in Decimal /\ Held[n] \in Int /\ Abs(Held[n] - n) <= place \div 2
  <2>1. Abs(n) <= Largest
    <3>1. Abs(n) \in Nat
      BY AbsType
    <3> QED BY <1>5, <3>1, PlaceIsNat
  <2> QED BY <1>2, <1>5, <2>1, HeldNear
<1>6. \A place \in Places :
        /\ Cuts(Clamp, place * Digits, place \div 2) /\ Cuts(OrLargest, place * Digits, place \div 2)
        /\ Cuts(Unchecked, place * Digits, place \div 2)
  BY <1>3, <1>5 DEF Cuts
<1> QED BY <1>2, <1>3, <1>4, <1>6 DEF InRange

\* Whole kurus up to the digits at the kurus stay whatever cuts them.
LEMMA KurusesStay ==
  ASSUME NEW n \in Kuruses, Abs(n) <= Whole
  PROVE  /\ Clamp[n] = n /\ OrLargest[n] = n /\ Unchecked[n] = n /\ Held[n] = n
         /\ n \in Decimal /\ n \in Int /\ InRange(n)
<1>1. n \in Int
  BY DEF Kuruses
<1>2. Held[n] = n
  BY <1>1, HeldExact
<1>3. Abs(n) <= Largest
  BY <1>1, AbsType, WholeIs
<1> QED BY <1>1, <1>2, <1>3, ClampFits

\* The sum of a table of whole kurus.
LEMMA SumUpExact ==
  ASSUME NEW f, NEW S, f = [x \in S |-> f[x]], IsFiniteSet(S), \A x \in S : f[x] \in Kuruses,
         Mass(f, S) <= Whole
  PROVE  /\ SumUp(f) = Over(f, S) /\ Over(f, S) \in Kuruses /\ Over(f, S) \in Decimal
         /\ Summable(f, S) /\ Abs(Over(f, S)) <= Mass(f, S) /\ Mass(f, S) \in Nat
<1>1. DOMAIN f = S
  OBVIOUS
<1>2. Summable(f, S)
  BY DEF Summable, Kuruses
<1>3. ASSUME NEW T \in SUBSET S
      PROVE  OrLargest[Over(f, T)] = Over(f, T) /\ Over(f, T) \in Kuruses /\ Over(f, T) \in Decimal
  <2>1. IsFiniteSet(T)
    BY FS_Subset
  <2>2. Over(f, T) \in Kuruses
    BY <2>1, OverKuruses
  <2>3. Abs(Over(f, T)) <= Mass(f, S) /\ Mass(f, S) \in Nat /\ Over(f, T) \in Int
    BY <1>2, MassMonotone
  <2>4. Abs(Over(f, T)) <= Whole
    BY <2>3, AbsType, WholeIs
  <2> QED BY <2>2, <2>4, KurusesStay
<1>4. Gathered(f, OrLargest) = Over(f, S)
  BY <1>1, <1>2, <1>3, GatheredExact
<1>5. S \in SUBSET S
  OBVIOUS
<1> QED BY <1>2, <1>3, <1>4, <1>5, MassType DEF SumUp

\* The sum of any table.
LEMMA SumUpNear ==
  ASSUME NEW f, NEW S, f = [x \in S |-> f[x]], Summable(f, S), NEW place \in Places,
         Mass(f, S) + Cardinality(S) * (place \div 2) <= place * Digits
  PROVE  SumUp(f) \in Int /\ Abs(SumUp(f) - Over(f, S)) <= Cardinality(S) * (place \div 2)
<1>1. DOMAIN f = S
  OBVIOUS
<1>2. Cuts(OrLargest, place * Digits, place \div 2)
  BY ClampFits
<1>3. place * Digits \in Nat /\ place \div 2 \in Nat
  BY PlaceIsNat
<1>4. /\ Gathered(f, OrLargest) \in Int
      /\ Abs(Gathered(f, OrLargest) - Over(f, S)) <= Cardinality(S) * (place \div 2)
  BY <1>1, <1>2, <1>3, GatheredNear
<1> QED BY <1>4 DEF SumUp

\* Values in the order of their keys have the sums of the values.
LEMMA InOrderSums ==
  ASSUME NEW order, Listed(order, Range(order)), NEW f, NEW S \in SUBSET Range(order),
         f = [x \in S |-> f[x]], \A x \in S : f[x] \in Int
  PROVE  LET s == InOrder(order, f)
         IN  /\ Len(s) \in Nat /\ DOMAIN s = 1 .. Len(s) /\ DOMAIN s = DOMAIN order
             /\ s = [i \in DOMAIN s |-> s[i]]
             /\ Summable(s, 1 .. Len(s)) /\ Summable(f, S)
             /\ Over(s, 1 .. Len(s)) = Over(f, S)
             /\ Mass(s, 1 .. Len(s)) = Mass(f, S)
<1> DEFINE R == Range(order)
           D == DOMAIN order
           s == InOrder(order, f)
           g == [x \in R |-> At(f, x, 0)]
           a == [x \in R |-> Abs(g[x])]
<1>1. /\ \A x, y \in D : order[x] = order[y] => x = y
      /\ \A x \in D : order[x] \in R
      /\ \A z \in R : \E x \in D : order[x] = z
  BY DEF Listed, IsInjective, Range
<1>2. D = 1 .. Len(order) /\ Len(order) \in Nat
  BY DEF Listed
<1>3. IsFiniteSet(D)
  <2>1. \A n \in Nat : IsFiniteSet(1 .. n)
    BY FS_Interval
  <2> HIDE DEF D
  <2> QED BY <1>2, <2>1
<1>4. s = [i \in 1 .. Len(order) |-> At(f, order[i], 0)] /\ Len(s) = Len(order)
  BY <1>2 DEF InOrder
<1>5. DOMAIN f = S /\ S \subseteq R
  OBVIOUS
<1>6. \A x \in R : /\ g[x] \in Int /\ a[x] \in Int /\ a[x] = Abs(g[x])
                   /\ x \in S => g[x] = f[x]
                   /\ x \notin S => g[x] = 0 /\ a[x] = 0
  BY <1>5, AbsType DEF At, Abs
<1>7. \A i \in D : s[i] = g[order[i]]
  BY <1>1, <1>2, <1>4
<1> HIDE DEF s, g, a, R, D
<1>8. /\ Summable(g, R)
      /\ Over([i \in D |-> g[order[i]]], D) = Over(g, R)
  <2>1. \A x \in D : order[x] \in R /\ g[order[x]] \in Int
    BY <1>1, <1>6
  <2> QED BY <1>1, <1>3, <2>1, OverReindex
<1>9. /\ Summable(a, R)
      /\ Over([i \in D |-> a[order[i]]], D) = Over(a, R)
  <2>1. \A x \in D : order[x] \in R /\ a[order[x]] \in Int
    BY <1>1, <1>6
  <2> QED BY <1>1, <1>3, <2>1, OverReindex
<1>10. Over(s, D) = Over(g, R)
  <2>1. \A i \in D : s[i] = [j \in D |-> g[order[j]]][i]
    BY <1>7
  <2> QED BY <1>8, <2>1, OverSame
<1>11. Mass(s, D) = Over(a, R)
  <2>1. \A i \in D : [j \in D |-> Abs(s[j])][i] = [j \in D |-> a[order[j]]][i]
    BY <1>1, <1>6, <1>7
  <2> QED BY <1>9, <2>1, OverSame DEF Mass
<1>12. Over(g, R) = Over(f, S) /\ Summable(f, S)
  <2>1. S \in SUBSET R /\ \A x \in R \ S : g[x] = 0
    BY <1>5, <1>6
  <2>2. Over(g, R) = Over(g, S) /\ Summable(g, S)
    BY <1>8, <2>1, OverSupport
  <2>3. \A x \in S : g[x] = f[x]
    BY <1>6, <2>1
  <2>4. Over(g, S) = Over(f, S)
    BY <2>3, OverSame
  <2> QED BY <2>2, <2>4 DEF Summable
<1>13. Over(a, R) = Mass(f, S)
  <2>1. S \in SUBSET R /\ \A x \in R \ S : a[x] = 0
    BY <1>5, <1>6
  <2>2. Over(a, R) = Over(a, S)
    BY <1>9, <2>1, OverSupport
  <2>3. \A x \in S : a[x] = [y \in S |-> Abs(f[y])][x]
    BY <1>6, <2>1
  <2> QED BY <2>2, <2>3, OverSame DEF Mass
<1>14. Summable(s, D)
  BY <1>1, <1>3, <1>6, <1>7 DEF Summable
<1>15. D = 1 .. Len(s) /\ DOMAIN s = D /\ Len(s) \in Nat
  BY <1>2, <1>4
<1>16. s = [i \in DOMAIN s |-> s[i]]
  BY <1>4
<1> QED BY <1>10, <1>11, <1>12, <1>13, <1>14, <1>15, <1>16 DEF s, D

\* A sum of some values in the order of their keys: whatever is not there adds
\* nothing, and no error.
LEMMA InOrderNear ==
  ASSUME NEW order, Listed(order, Range(order)), NEW f, NEW S \in SUBSET Range(order),
         f = [x \in S |-> f[x]], \A x \in S : f[x] \in Int,
         NEW place \in Places, NEW q, q = place \div 2,
         Mass(f, S) + Over(Each(S, q), S) <= place * Digits
  PROVE  /\ SatSum(InOrder(order, f)) \in Int /\ Over(f, S) \in Int
         /\ Abs(SatSum(InOrder(order, f)) - Over(f, S)) <= Over(Each(S, q), S)
<1> DEFINE s == InOrder(order, f)
           e == InOrder(order, Each(S, q))
           N == Len(s)
<1>1. /\ N \in Nat /\ DOMAIN s = 1 .. N /\ DOMAIN s = DOMAIN order
      /\ Summable(s, 1 .. N) /\ Summable(f, S)
      /\ Over(s, 1 .. N) = Over(f, S) /\ Mass(s, 1 .. N) = Mass(f, S)
  BY InOrderSums
<1>2. q \in Nat /\ place * Digits \in Nat
  BY PlaceIsNat
<1>3. Each(S, q) = [x \in S |-> Each(S, q)[x]] /\ \A x \in S : Each(S, q)[x] \in Int
  BY <1>2 DEF Each
<1>4. Over(e, 1 .. Len(e)) = Over(Each(S, q), S) /\ DOMAIN e = 1 .. Len(e) /\ DOMAIN e = DOMAIN order
      /\ Len(e) \in Nat
  BY <1>3, InOrderSums
<1>5. Len(e) = N
  <2> HIDE DEF e, N
  <2> QED BY <1>1, <1>4
<1>6. ASSUME NEW i \in 1 .. N PROVE e[i] \in Nat /\ (s[i] # 0 => q <= e[i])
  <2>1. s[i] = At(f, order[i], 0) /\ e[i] = At(Each(S, q), order[i], 0)
    BY <1>1 DEF InOrder
  <2>2. DOMAIN f = S /\ DOMAIN Each(S, q) = S
    BY DEF Each
  <2>3. CASE order[i] \in S
    BY <1>2, <2>1, <2>2, <2>3 DEF At, Each
  <2>4. CASE order[i] \notin S
    BY <2>1, <2>2, <2>4 DEF At
  <2> QED BY <2>3, <2>4
<1>7. Cuts(Clamp, place * Digits, q)
  BY ClampFits
<1>8. Over(s, 1 .. N) \in Int
  BY <1>1, OverType
<1> HIDE DEF s, e, N
<1>9. Mass(s, 1 .. N) + Over(e, 1 .. N) <= place * Digits
  BY <1>1, <1>4, <1>5
<1>10. Accumulated(s, Clamp) \in Int /\ Abs(Accumulated(s, Clamp) - Over(s, 1 .. N)) <= Over(e, 1 .. N)
  BY <1>1, <1>2, <1>6, <1>7, <1>9, AccumulatedNear
<1> QED BY <1>1, <1>4, <1>5, <1>8, <1>10 DEF SatSum, s

----------------------------------------------------------------------------
\* Rounding is off by half a kurus at most, and at most doubles an amount.
THEOREM RoundMoneyNear ==
  ASSUME NEW n \in Int
  PROVE  /\ RoundMoney(n) \in Int
         /\ 2 * Abs(RoundMoney(n) - n) <= Kurus
         /\ Abs(RoundMoney(n)) <= 2 * Abs(n)
         /\ n >= 0 => RoundMoney(n) >= 0
<1> DEFINE k == Kurus
           m == Abs(n)
           q == (2 * m + k) \div (2 * k)
           r == q * k
<1>1. k \in Nat \ {0} /\ m \in Nat
  BY UnitAssumption, AbsType
<1>2. 2 * k \in Nat \ {0} /\ 2 * m + k \in Nat
  BY <1>1
<1>3. q \in Int /\ q * (2 * k) <= 2 * m + k /\ 2 * m + k < q * (2 * k) + 2 * k
  <2> HIDE DEF k, m
  <2>1. ASSUME NEW a \in Nat, NEW d \in Nat \ {0}
        PROVE  a \div d \in Int /\ (a \div d) * d <= a /\ a < (a \div d) * d + d
    OBVIOUS
  <2> QED BY <1>2, <2>1
<1>4. q >= 0
  <2> HIDE DEF k, m, q
  <2>1. ASSUME q < 0 PROVE FALSE
    <3>1. -1 - q \in Nat
      BY <1>3, <2>1
    <3>2. (-1 - q) * (2 * k) >= 0
      <4>1. \A x, y \in Nat : x * y >= 0
        OBVIOUS
      <4> QED BY <1>2, <3>1, <4>1
    <3>3. (-1 - q) * (2 * k) = -(2 * k) - q * (2 * k)
      BY <1>1, <1>3
    <3>4. q * (2 * k) \in Int
      BY <1>1, <1>3
    <3> QED BY <1>2, <1>3, <3>2, <3>3, <3>4
  <2> QED BY <1>3, <2>1
<1>5. r \in Nat /\ q * (2 * k) = 2 * r /\ (q = 0 => r = 0) /\ (q >= 1 => r >= k)
  <2> HIDE DEF k, m, q
  <2>1. q \in Nat
    BY <1>3, <1>4
  <2>2. \A x, y \in Nat : x * y \in Nat /\ x * (2 * y) = 2 * (x * y) /\ (x >= 1 => x * y >= y)
    OBVIOUS
  <2> QED BY <1>1, <2>1, <2>2
<1>6. RoundMoney(n) = IF n < 0 THEN -r ELSE r
  BY DEF RoundMoney
<1> HIDE DEF k, r, q
<1>7. 2 * r <= 2 * m + k /\ 2 * m + k < 2 * r + 2 * k
  BY <1>3, <1>5
<1>8. r <= 2 * m
  BY <1>1, <1>3, <1>4, <1>5, <1>7
<1> QED BY <1>1, <1>5, <1>6, <1>7, <1>8 DEF Abs, k

\* Two sums whose terms differ by at most half of k each.
LEMMA OverNear ==
  ASSUME NEW f, NEW g, NEW S, Summable(f, S), Summable(g, S), NEW k \in Nat,
         \A x \in S : 2 * Abs(f[x] - g[x]) <= k
  PROVE  2 * Abs(Over(f, S) - Over(g, S)) <= Cardinality(S) * k
<1> DEFINE G == {T \in SUBSET S : 2 * Abs(Over(f, T) - Over(g, T)) <= Cardinality(T) * k}
<1>1. \A T \in SUBSET S : IsFiniteSet(T) /\ Cardinality(T) \in Nat
  BY FS_Subset, FS_CardinalityType DEF Summable
<1>2. {} \in G
  <2>1. 2 * Abs(0 - 0) <= 0 * k
    BY DEF Abs
  <2> QED BY <2>1, OverEmpty, FS_EmptySet
<1>3. ASSUME NEW T \in SUBSET S, NEW x \in S \ T, T \in G PROVE T \union {x} \in G
  <2>1. Summable(f, T) /\ Summable(g, T)
    BY SubSummable
  <2>2. f[x] \in Int /\ g[x] \in Int /\ 2 * Abs(f[x] - g[x]) <= k
    BY DEF Summable
  <2>3. /\ Over(f, T \union {x}) = Over(f, T) + f[x] /\ Over(f, T) \in Int
        /\ Over(g, T \union {x}) = Over(g, T) + g[x] /\ Over(g, T) \in Int
    BY <2>1, <2>2, OverAdd
  <2>4. Cardinality(T \union {x}) = Cardinality(T) + 1 /\ Cardinality(T) \in Nat
    BY <1>1, FS_AddElement
  <2>5. 2 * Abs(Over(f, T) - Over(g, T)) <= Cardinality(T) * k
    BY <1>3
  <2>6. (Cardinality(T) + 1) * k = Cardinality(T) * k + k /\ Cardinality(T) * k \in Int
    BY <2>4
  <2>7. 2 * Abs(Over(f, T \union {x}) - Over(g, T \union {x})) <= Cardinality(T) * k + k
    BY <2>2, <2>3, <2>5, <2>6 DEF Abs
  <2>8. 2 * Abs(Over(f, T \union {x}) - Over(g, T \union {x})) <= Cardinality(T \union {x}) * k
    BY <2>4, <2>6, <2>7
  <2> QED BY <2>8
<1>4. S \in G
  <2>1. IsFiniteSet(S)
    BY DEF Summable
  <2> HIDE DEF G
  <2> QED BY <1>2, <1>3, <2>1, FiniteInduction
<1> QED BY <1>4

\* A bound on every term bounds the magnitudes.
LEMMA MassWithin ==
  ASSUME NEW f, NEW g, NEW S, Summable(f, S), Summable(g, S), NEW m \in Nat,
         \A x \in S : Abs(f[x]) <= m * Abs(g[x])
  PROVE  /\ Mass(f, S) \in Nat /\ Mass(g, S) \in Nat
         /\ Mass(f, S) <= m * Mass(g, S)
<1> DEFINE a == [x \in S |-> Abs(f[x])]
           c == [x \in S |-> Abs(g[x])]
           G == {T \in SUBSET S : Over(a, T) <= m * Over(c, T)}
<1>1. Summable(a, S) /\ Summable(c, S) /\ IsFiniteSet(S)
  BY MassSummable DEF Summable
<1>2. {} \in G
  <2>1. 0 <= m * 0
    OBVIOUS
  <2> QED BY <2>1, OverEmpty
<1>3. ASSUME NEW T \in SUBSET S, NEW x \in S \ T, T \in G PROVE T \union {x} \in G
  <2>1. Summable(a, T) /\ Summable(c, T)
    BY <1>1, SubSummable
  <2>2. a[x] <= m * c[x] /\ a[x] = Abs(f[x]) /\ c[x] = Abs(g[x])
    OBVIOUS
  <2>3. a[x] \in Int /\ c[x] \in Int
    BY <2>2, AbsType DEF Summable
  <2>4. Over(a, T) <= m * Over(c, T)
    BY <1>3
  <2> HIDE DEF a, c
  <2>5. /\ Over(a, T \union {x}) = Over(a, T) + a[x] /\ Over(a, T) \in Int
        /\ Over(c, T \union {x}) = Over(c, T) + c[x] /\ Over(c, T) \in Int
    BY <2>1, <2>3, OverAdd
  <2>6. m * (Over(c, T) + c[x]) = m * Over(c, T) + m * c[x]
        /\ m * Over(c, T) \in Int /\ m * c[x] \in Int
    BY <2>3, <2>5
  <2>7. Over(a, T \union {x}) <= m * Over(c, T \union {x})
    BY <2>2, <2>3, <2>4, <2>5, <2>6
  <2> QED BY <2>7
<1>4. S \in G
  <2> HIDE DEF G
  <2> QED BY <1>1, <1>2, <1>3, FiniteInduction
<1> QED BY <1>4, MassType DEF Mass

(***************************************************************************)
(* What the resolution of globals answers, by induction over the weight of its *)
(* calls, and that a meaning is reached by rank.                           *)
(***************************************************************************)

\* The formulas of n levels are the leaves and what is made of those of n - 1.
Made(part) == Leaves \union [op : {"neg"}, a : part] \union [op : Operators, a : part, b : part]
Nests(nested) == nested = [n \in 0 .. MaxDepth |-> IF n = 0 THEN Leaves ELSE Made(nested[n - 1])]

\* The levels of formulas are defined.
LEMMA NestsExists == \E nested : Nests(nested)
<1> DEFINE P(n, f) == f = [i \in 0 .. n |-> IF i = 0 THEN Leaves ELSE Made(f[i - 1])]
           S == {n \in Nat : \E f : P(n, f)}
<1> HIDE DEF Leaves, Made
<1>1. 0 \in S
  <2> DEFINE g == [i \in 0 .. 0 |-> Leaves]
  <2>1. P(0, g)
    OBVIOUS
  <2> QED BY <2>1
<1>2. ASSUME NEW n \in Nat, n \in S PROVE n + 1 \in S
  <2>1. PICK f : P(n, f)
    BY <1>2
  <2> DEFINE g == [i \in 0 .. n + 1 |-> IF i = n + 1 THEN Made(f[n]) ELSE f[i]]
  <2>2. DOMAIN f = 0 .. n /\ \A i \in 0 .. n : f[i] = IF i = 0 THEN Leaves ELSE Made(f[i - 1])
    BY <2>1
  <2>3. \A i \in 0 .. n + 1 : g[i] = IF i = 0 THEN Leaves ELSE Made(g[i - 1])
    BY <2>2
  <2>4. P(n + 1, g)
    BY <2>3
  <2> HIDE DEF g
  <2> QED BY <2>4
<1>3. MaxDepth \in S
  <2> HIDE DEF S
  <2> QED BY <1>1, <1>2, SetInduction, DepthAssumption
<1> QED BY <1>3 DEF Nests

\* The formulas of a level, by the level below.
LEMMA NestedIs ==
  /\ Nested[0] = Leaves
  /\ \A n \in 1 .. MaxDepth : Nested[n] = Made(Nested[n - 1])
<1>1. Nested = CHOOSE nested : Nests(nested)
  BY DEF Nested, Nests, Made
<1>2. Nests(Nested)
  <2> HIDE DEF Nests, Nested
  <2> QED BY <1>1, NestsExists
<1>3. Nested = [n \in 0 .. MaxDepth |-> IF n = 0 THEN Leaves ELSE Made(Nested[n - 1])]
  BY <1>2 DEF Nests
<1> HIDE DEF Nested, Made, Leaves
<1> QED BY <1>3, DepthAssumption

\* The formulas of every level are formulas.
LEMMA NestedGrows ==
  ASSUME NEW n \in 0 .. MaxDepth
  PROVE  Nested[n] \subseteq Formula
<1> DEFINE S == {k \in Nat : k <= MaxDepth - n => Nested[n] \subseteq Nested[n + k]}
<1>0. n \in Nat /\ MaxDepth \in Nat /\ n <= MaxDepth
  BY DepthAssumption
<1>1. \A i \in Nat : i < MaxDepth => Nested[i] \subseteq Nested[i + 1]
  <2> DEFINE N == {i \in Nat : i < MaxDepth => Nested[i] \subseteq Nested[i + 1]}
  <2>1. \A i \in Nat : i < MaxDepth => Nested[i + 1] = Made(Nested[i])
    <3>1. \A i \in Nat : i < MaxDepth => i + 1 \in 1 .. MaxDepth /\ (i + 1) - 1 = i
      BY <1>0
    <3> QED BY <3>1, NestedIs
  <2>2. 0 \in N
    <3>1. Leaves \subseteq Made(Nested[0])
      BY DEF Made
    <3>2. 0 < MaxDepth => Nested[0 + 1] = Made(Nested[0])
      BY <2>1
    <3>3. Nested[0] = Leaves
      BY NestedIs
    <3> QED BY <3>1, <3>2, <3>3
  <2>3. ASSUME NEW i \in Nat, i \in N PROVE i + 1 \in N
    <3>1. SUFFICES ASSUME i + 1 < MaxDepth PROVE Nested[i + 1] \subseteq Nested[(i + 1) + 1]
      OBVIOUS
    <3>2. i < MaxDepth
      BY <1>0, <3>1
    <3>3. Nested[i] \subseteq Nested[i + 1]
      BY <2>3, <3>2
    <3>4. Nested[i + 1] = Made(Nested[i]) /\ Nested[(i + 1) + 1] = Made(Nested[i + 1])
      BY <2>1, <3>1, <3>2
    <3>5. \A p, q : p \subseteq q => Made(p) \subseteq Made(q)
      BY DEF Made
    <3> QED BY <3>3, <3>4, <3>5
  <2>4. Nat \subseteq N
    <3> HIDE DEF N
    <3> QED BY <2>2, <2>3, SetInduction
  <2> QED BY <2>4
<1>2. 0 \in S
  BY <1>0
<1>3. ASSUME NEW k \in Nat, k \in S PROVE k + 1 \in S
  <2>1. SUFFICES ASSUME k + 1 <= MaxDepth - n PROVE Nested[n] \subseteq Nested[n + (k + 1)]
    OBVIOUS
  <2>2. k <= MaxDepth - n /\ n + k \in Nat /\ n + k < MaxDepth /\ n + (k + 1) = (n + k) + 1
    BY <1>0, <2>1
  <2> QED BY <1>1, <1>3, <2>2
<1>4. MaxDepth - n \in S /\ n + (MaxDepth - n) = MaxDepth
  <2>1. MaxDepth - n \in Nat
    BY <1>0
  <2> HIDE DEF S
  <2> QED BY <1>0, <1>2, <1>3, <2>1, SetInduction
<1> QED BY <1>0, <1>4 DEF Formula

\* The number of operations that nest in a formula.
Depth(f) == CHOOSE n \in 0 .. MaxDepth : f \in Nested[n] /\ \A m \in 0 .. n - 1 : f \notin Nested[m]

LEMMA DepthIs ==
  ASSUME NEW f \in Formula
  PROVE  /\ Depth(f) \in 0 .. MaxDepth /\ Depth(f) \in Nat
         /\ f \in Nested[Depth(f)]
         /\ \A m \in 0 .. MaxDepth : f \in Nested[m] => Depth(f) <= m
<1> DEFINE S == {n \in 0 .. MaxDepth : f \in Nested[n]}
           Q(n) == f \in Nested[n] /\ \A m \in 0 .. n - 1 : f \notin Nested[m]
<1>0. MaxDepth \in Nat
  BY DepthAssumption
<1>1. S \in SUBSET Nat /\ MaxDepth \in S
  BY <1>0 DEF Formula
<1>2. PICK n \in S : \A m \in S : n <= m
  BY <1>1, Least
<1>3. \A m \in 0 .. n - 1 : f \notin Nested[m]
  <2>1. ASSUME NEW m \in 0 .. n - 1, f \in Nested[m] PROVE FALSE
    <3>1. m \in S
      BY <1>0, <2>1
    <3> QED BY <1>2, <3>1
  <2> QED BY <2>1
<1>4. n \in 0 .. MaxDepth /\ Q(n)
  BY <1>3
<1>5. Depth(f) = CHOOSE i \in 0 .. MaxDepth : Q(i)
  BY DEF Depth
<1>6. Depth(f) \in 0 .. MaxDepth /\ Q(Depth(f))
  <2> HIDE DEF Q
  <2> QED BY <1>4, <1>5
<1>7. \A m \in 0 .. MaxDepth : f \in Nested[m] => Depth(f) <= m
  <2>1. ASSUME NEW m \in 0 .. MaxDepth, f \in Nested[m], m < Depth(f) PROVE FALSE
    <3>1. m \in 0 .. Depth(f) - 1
      BY <1>0, <1>6, <2>1
    <3> QED BY <1>6, <2>1, <3>1
  <2> QED BY <1>0, <1>6, <2>1
<1> QED BY <1>0, <1>6, <1>7

\* What formulas there are.
LEMMA FormulaCases ==
  ASSUME NEW f \in Formula
  PROVE  \/ f.op = "num" /\ f.n \in Decimal
         \/ f.op = "ref" /\ f.name \in Name
         \/ f.op = "bad"
         \/ f.op = "neg" /\ f.a \in Formula /\ Depth(f.a) < Depth(f)
         \/ /\ f.op \in Operators
            /\ f.a \in Formula /\ f.b \in Formula /\ Depth(f.a) < Depth(f) /\ Depth(f.b) < Depth(f)
<1> DEFINE n == Depth(f)
<1>0. n \in 0 .. MaxDepth /\ n \in Nat /\ f \in Nested[n] /\ MaxDepth \in Nat
  BY DepthIs, DepthAssumption
<1>1. ASSUME f \in Leaves
      PROVE  \/ f.op = "num" /\ f.n \in Decimal
             \/ f.op = "ref" /\ f.name \in Name
             \/ f.op = "bad"
  <2>1. \/ f \in [op : {"num"}, n : Decimal] \/ f \in [op : {"ref"}, name : Name] \/ f = Bad
    BY <1>1 DEF Leaves
  <2>2. f \in [op : {"num"}, n : Decimal] => f.op = "num" /\ f.n \in Decimal
    OBVIOUS
  <2>3. f \in [op : {"ref"}, name : Name] => f.op = "ref" /\ f.name \in Name
    OBVIOUS
  <2>4. f = Bad => f.op = "bad"
    BY DEF Bad
  <2> QED BY <2>1, <2>2, <2>3, <2>4, Zenon
<1>2. ASSUME n # 0, NEW g \in Nested[n - 1] PROVE g \in Formula /\ Depth(g) < Depth(f)
  <2>1. n - 1 \in 0 .. MaxDepth
    BY <1>0, <1>2
  <2>2. g \in Formula
    BY <2>1, NestedGrows
  <2>3. Depth(g) <= n - 1 /\ Depth(g) \in Nat
    BY <2>1, <2>2, DepthIs
  <2> QED BY <1>0, <2>2, <2>3
<1>3. CASE n = 0
  <2>1. f \in Leaves
    BY <1>0, <1>3, NestedIs
  <2> QED BY <1>1, <2>1
<1>4. CASE n # 0
  <2>1. n \in 1 .. MaxDepth
    BY <1>0, <1>4
  <2>2. f \in Made(Nested[n - 1])
    BY <1>0, <2>1, NestedIs
  <2>3. CASE f \in Leaves
    BY <1>1, <2>3
  <2>4. CASE f \in [op : {"neg"}, a : Nested[n - 1]]
    <3>1. f.op = "neg" /\ f.a \in Nested[n - 1]
      BY <2>4
    <3> QED BY <1>2, <1>4, <3>1
  <2>5. CASE f \in [op : Operators, a : Nested[n - 1], b : Nested[n - 1]]
    <3>1. f.op \in Operators /\ f.a \in Nested[n - 1] /\ f.b \in Nested[n - 1]
      BY <2>5
    <3> QED BY <1>2, <1>4, <3>1
  <2> QED BY <2>2, <2>3, <2>4, <2>5 DEF Made
<1> QED BY <1>3, <1>4

----------------------------------------------------------------------------
\* What an operation makes of the results of its parts.
Joined(op, a, b, otherwise) ==
  LET first  == IF op = "/" THEN b ELSE a
      second == IF op = "/" THEN a ELSE b
  IN  IF ~ IsOk(first) THEN first
      ELSE IF op = "/" /\ b.val = 0 THEN Err("zero")
      ELSE IF ~ IsOk(second) THEN second
      ELSE Compute(op, a.val, b.val, otherwise)
Negated(a) == IF IsOk(a) THEN Ok(- a.val) ELSE a

\* The step of eval, case by case.
LEMMA EvalStepIs ==
  ASSUME NEW f, NEW eval, NEW values
  PROVE  /\ f.op = "num" => EvalStep(f, eval, values) = Ok(f.n)
         /\ f.op = "bad" => EvalStep(f, eval, values) = Err("syntax")
         /\ f.op = "ref" => EvalStep(f, eval, values) =
              IF f.name \in DOMAIN values THEN values[f.name] ELSE Err("unknown")
         /\ f.op = "neg" => EvalStep(f, eval, values) = Negated(eval[f.a])
         /\ f.op \in Operators =>
              EvalStep(f, eval, values) = Joined(f.op, eval[f.a], eval[f.b], "overflow")
<1> DEFINE a == eval[f.a]
           b == eval[f.b]
<1>1. CASE f.op = "num"
  BY <1>1 DEF EvalStep, Operators
<1>2. CASE f.op = "bad"
  BY <1>2 DEF EvalStep, Operators
<1>3. CASE f.op = "ref"
  BY <1>3 DEF EvalStep, Operators
<1>4. CASE f.op = "neg"
  <2> HIDE DEF IsOk, Ok
  <2> QED BY <1>4 DEF EvalStep, Operators, Negated
<1>5. CASE f.op \in Operators
  <2>1. f.op # "num" /\ f.op # "bad" /\ f.op # "ref" /\ f.op # "neg"
    BY <1>5 DEF Operators
  <2> HIDE DEF IsOk, Ok, Err, Compute
  <2>2. EvalStep(f, eval, values) = Joined(f.op, a, b, "overflow")
    BY <1>5, <2>1 DEF EvalStep, Joined
  <2> QED BY <1>5, <2>1, <2>2
<1>6. CASE f.op \notin {"num", "bad", "ref", "neg"} /\ f.op \notin Operators
  BY <1>6
<1> QED BY <1>1, <1>2, <1>3, <1>4, <1>5, <1>6

\* A step asks for formulas of less depth only.
LEMMA EvalStepLocal ==
  ASSUME NEW f \in Formula, NEW g, NEW h, NEW values,
         \A p \in Formula : Depth(p) < Depth(f) => g[p] = h[p]
  PROVE  EvalStep(f, g, values) = EvalStep(f, h, values)
<1>1. CASE f.op \in {"num", "bad", "ref"}
  BY <1>1, EvalStepIs
<1>2. CASE f.op = "neg" /\ f.a \in Formula /\ Depth(f.a) < Depth(f)
  BY <1>2, EvalStepIs
<1>3. CASE /\ f.op \in Operators
           /\ f.a \in Formula /\ f.b \in Formula /\ Depth(f.a) < Depth(f) /\ Depth(f.b) < Depth(f)
  BY <1>3, EvalStepIs
<1> QED BY <1>1, <1>2, <1>3, FormulaCases

\* Induction over formulas.
LEMMA FormulaInduction ==
  ASSUME NEW G,
         \A f \in Formula : (\A p \in Formula : Depth(p) < Depth(f) => p \in G) => f \in G
  PROVE  Formula \subseteq G
<1> DEFINE N == {n \in Nat : \A f \in Formula : Depth(f) < n => f \in G}
<1>1. \A f \in Formula : Depth(f) \in Nat /\ Depth(f) <= MaxDepth
  BY DepthIs, DepthAssumption
<1>2. 0 \in N
  BY <1>1
<1>3. ASSUME NEW n \in Nat, n \in N PROVE n + 1 \in N
  <2>1. SUFFICES ASSUME NEW f \in Formula, Depth(f) < n + 1,
                        NEW p \in Formula, Depth(p) < Depth(f)
                 PROVE  p \in G
    OBVIOUS
  <2>2. Depth(p) < n
    BY <1>1, <2>1
  <2> QED BY <1>3, <2>2
<1>4. MaxDepth + 1 \in N
  <2>1. MaxDepth + 1 \in Nat
    BY DepthAssumption
  <2> HIDE DEF N
  <2> QED BY <1>2, <1>3, <2>1, SetInduction
<1>5. \A f \in Formula : Depth(f) < MaxDepth + 1
  BY <1>1, DepthAssumption
<1> QED BY <1>4, <1>5

Evaluates(eval, values) == eval = [f \in Formula |-> EvalStep(f, eval, values)]

\* Evaluation is defined, by induction over the depth of formulas.
LEMMA EvaluatesExists ==
  ASSUME NEW values
  PROVE  \E eval : Evaluates(eval, values)
<1> DEFINE Upto(n) == {f \in Formula : Depth(f) < n}
           P(n, g) == g = [f \in Upto(n) |-> EvalStep(f, g, values)]
           N == {n \in Nat : \E g : P(n, g)}
<1>1. \A f \in Formula : Depth(f) \in Nat /\ Depth(f) <= MaxDepth
  BY DepthIs, DepthAssumption
<1>2. 0 \in N
  <2> DEFINE g == [f \in {} |-> 0]
  <2>1. Upto(0) = {}
    BY <1>1
  <2>2. g = [f \in {} |-> EvalStep(f, g, values)]
    OBVIOUS
  <2>3. P(0, g)
    BY <2>1, <2>2
  <2> HIDE DEF P, g
  <2> QED BY <2>3
<1>3. ASSUME NEW n \in Nat, n \in N PROVE n + 1 \in N
  <2>1. PICK g : P(n, g)
    BY <1>3
  <2> DEFINE h == [f \in Upto(n + 1) |-> EvalStep(f, g, values)]
  <2>2. DOMAIN g = Upto(n) /\ \A f \in Upto(n) : g[f] = EvalStep(f, g, values)
    BY <2>1
  <2>3. ASSUME NEW f \in Upto(n + 1) PROVE EvalStep(f, g, values) = EvalStep(f, h, values)
    <3>1. ASSUME NEW p \in Formula, Depth(p) < Depth(f) PROVE g[p] = h[p]
      <4>1. p \in Upto(n) /\ p \in Upto(n + 1)
        BY <1>1, <2>3, <3>1
      <4> QED BY <2>2, <4>1
    <3> HIDE DEF h
    <3>2. f \in Formula
      OBVIOUS
    <3> QED BY <3>1, <3>2, EvalStepLocal
  <2>4. P(n + 1, h)
    <3> HIDE DEF Upto
    <3> QED BY <2>3
  <2>5. n + 1 \in Nat
    OBVIOUS
  <2> HIDE DEF P, h
  <2> QED BY <2>4, <2>5
<1>4. MaxDepth + 1 \in N
  <2>1. MaxDepth + 1 \in Nat
    BY DepthAssumption
  <2> HIDE DEF N
  <2> QED BY <1>2, <1>3, <2>1, SetInduction
<1>5. PICK g : P(MaxDepth + 1, g)
  BY <1>4
<1>6. Upto(MaxDepth + 1) = Formula
  BY <1>1, DepthAssumption
<1>7. Evaluates(g, values)
  <2> HIDE DEF Upto
  <2> QED BY <1>5, <1>6, Zenon DEF Evaluates
<1> QED BY <1>7

\* Eval is what its steps define.
LEMMA EvalIs ==
  ASSUME NEW values
  PROVE  \E eval : Evaluates(eval, values) /\ \A f : Eval(f, values) = eval[f]
<1> DEFINE eval == CHOOSE g : Evaluates(g, values)
<1>1. Evaluates(eval, values)
  <2> HIDE DEF Evaluates
  <2> QED BY EvaluatesExists
<1>2. \A f : Eval(f, values) = eval[f]
  BY DEF Eval, Evaluates
<1> HIDE DEF eval
<1> QED BY <1>1, <1>2

\* Ast::eval by cases.
LEMMA EvalCases ==
  ASSUME NEW f \in Formula, NEW values
  PROVE  /\ f.op = "num" => Eval(f, values) = Ok(f.n)
         /\ f.op = "bad" => Eval(f, values) = Err("syntax")
         /\ f.op = "ref" => Eval(f, values) =
              IF f.name \in DOMAIN values THEN values[f.name] ELSE Err("unknown")
         /\ f.op = "neg" => Eval(f, values) = Negated(Eval(f.a, values))
         /\ f.op \in Operators =>
              Eval(f, values) = Joined(f.op, Eval(f.a, values), Eval(f.b, values), "overflow")
<1>1. PICK eval : Evaluates(eval, values) /\ \A g : Eval(g, values) = eval[g]
  BY EvalIs
<1>2. Eval(f, values) = EvalStep(f, eval, values)
  BY <1>1 DEF Evaluates
<1>3. /\ eval[f.a] = Eval(f.a, values)
      /\ eval[f.b] = Eval(f.b, values)
  BY <1>1
<1> QED BY <1>2, <1>3, EvalStepIs

\* A table of results.
Known(values) == \A x \in DOMAIN values : values[x] \in Result

\* A result is a value in the range or an error.
LEMMA ResultIs ==
  /\ \A n \in Decimal : Ok(n) \in Result /\ IsOk(Ok(n)) /\ Ok(n).val = n /\ - n \in Decimal
  /\ \A e \in Errors : Err(e) \in Result /\ ~ IsOk(Err(e))
  /\ \A r \in Result : r.val \in Decimal /\ r.val \in Int /\ (IsOk(r) => r = Ok(r.val))
<1>1. Largest \in Nat
  BY DepthAssumption
<1>2. 0 \in Decimal /\ \A n \in Decimal : n \in Int /\ - n \in Decimal
  BY <1>1 DEF Decimal
<1>3. \A n \in Decimal : Ok(n) \in Result /\ IsOk(Ok(n)) /\ Ok(n).val = n
  BY DEF Ok, Result, IsOk
<1>4. \A e \in Errors : Err(e) \in Result /\ ~ IsOk(Err(e))
  BY <1>2 DEF Err, Result, IsOk, Errors
<1>5. ASSUME NEW r \in Result PROVE r.val \in Decimal /\ (IsOk(r) => r = Ok(r.val))
  BY <1>5 DEF Result, IsOk, Ok
<1> QED BY <1>2, <1>3, <1>4, <1>5

\* An operation has a value only if both parts have; which error it has otherwise
\* makes no difference to that.
LEMMA JoinedIs ==
  ASSUME NEW op \in Operators, NEW a \in Result, NEW b \in Result,
         NEW otherwise \in Errors
  PROVE  /\ Joined(op, a, b, otherwise) \in Result
         /\ IsOk(Joined(op, a, b, otherwise)) => IsOk(a) /\ IsOk(b)
         /\ \A e \in Errors : LET other == Joined(op, a, b, e)
                               IN  /\ IsOk(Joined(op, a, b, otherwise)) <=> IsOk(other)
                                   /\ IsOk(other) => Joined(op, a, b, otherwise) = other
<1> DEFINE n == CASE op = "+" -> a.val + b.val
                  [] op = "-" -> a.val - b.val
                  [] op = "*" -> a.val * b.val
                  [] op = "/" -> a.val \div b.val
<1>1. \A e : Compute(op, a.val, b.val, e) = IF InRange(n) THEN Ok(Held[n]) ELSE Err(e)
  BY DEF Compute, Within
<1> HIDE DEF n
<1>2. "zero" \in Errors
  BY DEF Errors
<1>3. ASSUME NEW e \in Errors
      PROVE  /\ Compute(op, a.val, b.val, e) \in Result
             /\ IsOk(Compute(op, a.val, b.val, e)) <=> InRange(n)
             /\ InRange(n) => Compute(op, a.val, b.val, e) = Ok(Held[n])
  BY <1>1, ResultIs, HeldInRange DEF InRange
<1> HIDE DEF IsOk, Err, Ok, Compute, InRange
<1>4. Joined(op, a, b, otherwise) \in Result
  BY <1>2, <1>3, ResultIs DEF Joined
<1>5. IsOk(Joined(op, a, b, otherwise)) => IsOk(a) /\ IsOk(b)
  BY <1>2, ResultIs DEF Joined
<1>6. ASSUME NEW e \in Errors
      PROVE  /\ IsOk(Joined(op, a, b, otherwise)) <=> IsOk(Joined(op, a, b, e))
             /\ IsOk(Joined(op, a, b, e)) => Joined(op, a, b, otherwise) = Joined(op, a, b, e)
  BY <1>2, <1>3, ResultIs DEF Joined
<1> QED BY <1>4, <1>5, <1>6

\* A negation has a value exactly if its part has one.
LEMMA NegatedIs ==
  ASSUME NEW a \in Result
  PROVE  Negated(a) \in Result /\ (IsOk(Negated(a)) <=> IsOk(a))
<1> HIDE DEF IsOk, Ok
<1> QED BY ResultIs DEF Negated

\* On known values every formula has a result.
LEMMA EvalType ==
  ASSUME NEW values, Known(values), NEW f \in Formula
  PROVE  Eval(f, values) \in Result
<1> DEFINE G == {g \in Formula : Eval(g, values) \in Result}
<1>1. ASSUME NEW g \in Formula, \A p \in Formula : Depth(p) < Depth(g) => p \in G PROVE g \in G
  <2>0. {"syntax", "unknown", "overflow"} \subseteq Errors
    BY DEF Errors
  <2>1. CASE g.op = "num" /\ g.n \in Decimal
    BY <2>1, EvalCases, ResultIs
  <2>2. CASE g.op = "ref" /\ g.name \in Name
    BY <2>0, <2>2, EvalCases, ResultIs DEF Known
  <2>3. CASE g.op = "bad"
    BY <2>0, <2>3, EvalCases, ResultIs
  <2>4. CASE g.op = "neg" /\ g.a \in Formula /\ Depth(g.a) < Depth(g)
    BY <1>1, <2>4, EvalCases, NegatedIs
  <2>5. CASE /\ g.op \in Operators
             /\ g.a \in Formula /\ g.b \in Formula /\ Depth(g.a) < Depth(g) /\ Depth(g.b) < Depth(g)
    <3>1. Eval(g.a, values) \in Result /\ Eval(g.b, values) \in Result
      BY <1>1, <2>5
    <3> QED BY <2>0, <2>5, <3>1, EvalCases, JoinedIs
  <2> QED BY <2>1, <2>2, <2>3, <2>4, <2>5, FormulaCases
<1>2. Formula \subseteq G
  <2> HIDE DEF G
  <2> QED BY <1>1, FormulaInduction
<1> QED BY <1>2

\* more knows what values knows.
Extends(more, values) ==
  DOMAIN values \subseteq DOMAIN more /\ \A x \in DOMAIN values : more[x] = values[x]

\* A formula that has a value keeps it when more is known.
LEMMA EvalMonotone ==
  ASSUME NEW values, Known(values), NEW more, Known(more), Extends(more, values),
         NEW f \in Formula, IsOk(Eval(f, values))
  PROVE  Eval(f, more) = Eval(f, values)
<1> DEFINE G == {g \in Formula : IsOk(Eval(g, values)) => Eval(g, more) = Eval(g, values)}
<1>1. ASSUME NEW g \in Formula, \A p \in Formula : Depth(p) < Depth(g) => p \in G PROVE g \in G
  <2>0. \A e \in {"syntax", "unknown", "overflow"} : e \in Errors /\ ~ IsOk(Err(e))
    <3>1. \A e \in {"syntax", "unknown", "overflow"} : e \in Errors
      BY DEF Errors
    <3> QED BY <3>1, ResultIs
  <2> SUFFICES ASSUME IsOk(Eval(g, values)) PROVE Eval(g, more) = Eval(g, values)
    OBVIOUS
  <2> HIDE DEF IsOk, Err
  <2>1. CASE g.op \in {"num", "bad"}
    BY <2>1, EvalCases
  <2>2. CASE g.op = "ref" /\ g.name \in Name
    <3>1. g.name \in DOMAIN values /\ Eval(g, values) = values[g.name]
      BY <2>0, <2>2, EvalCases
    <3> QED BY <2>2, <3>1, EvalCases DEF Extends
  <2>4. CASE g.op = "neg" /\ g.a \in Formula /\ Depth(g.a) < Depth(g)
    <3>1. IsOk(Eval(g.a, values))
      BY <2>4, EvalCases, EvalType, NegatedIs
    <3>2. Eval(g.a, more) = Eval(g.a, values)
      BY <1>1, <2>4, <3>1
    <3> QED BY <2>4, <3>2, EvalCases
  <2>5. CASE /\ g.op \in Operators
             /\ g.a \in Formula /\ g.b \in Formula /\ Depth(g.a) < Depth(g) /\ Depth(g.b) < Depth(g)
    <3>1. Eval(g.a, values) \in Result /\ Eval(g.b, values) \in Result
      BY <2>5, EvalType
    <3>2. IsOk(Eval(g.a, values)) /\ IsOk(Eval(g.b, values))
      BY <2>0, <2>5, <3>1, EvalCases, JoinedIs
    <3>3. Eval(g.a, more) = Eval(g.a, values) /\ Eval(g.b, more) = Eval(g.b, values)
      BY <1>1, <2>5, <3>2
    <3> QED BY <2>5, <3>3, EvalCases
  <2> QED BY <2>1, <2>2, <2>4, <2>5, FormulaCases
<1>2. Formula \subseteq G
  <2> HIDE DEF G
  <2> QED BY <1>1, FormulaInduction
<1> QED BY <1>2

----------------------------------------------------------------------------
\* The formulas of globals.
Globals(asts) == asts \in [DOMAIN asts -> Formula] /\ DOMAIN asts \subseteq Name

Rounds == Cardinality(Name)
Settles(settled, asts) ==
  settled = [n \in 0 .. Rounds |-> IF n = 0 THEN << >> ELSE SettledOn(asts, settled[n - 1])]

\* There are finitely many names, hence rounds.
LEMMA RoundsType == Rounds \in Nat /\ IsFiniteSet(Name)
BY FS_CardinalityType, NameAssumption DEF Rounds

\* The rounds are defined.
LEMMA SettlesExists ==
  ASSUME NEW asts
  PROVE  \E settled : Settles(settled, asts)
<1> DEFINE On(v) == SettledOn(asts, v)
           P(n, f) == f = [i \in 0 .. n |-> IF i = 0 THEN << >> ELSE On(f[i - 1])]
           S == {n \in Nat : \E f : P(n, f)}
<1> HIDE DEF On
<1>1. 0 \in S
  <2> DEFINE g == [i \in 0 .. 0 |-> << >>]
  <2>1. P(0, g)
    OBVIOUS
  <2> QED BY <2>1
<1>2. ASSUME NEW n \in Nat, n \in S PROVE n + 1 \in S
  <2>1. PICK f : P(n, f)
    BY <1>2
  <2> DEFINE g == [i \in 0 .. n + 1 |-> IF i = n + 1 THEN On(f[n]) ELSE f[i]]
  <2>2. DOMAIN f = 0 .. n /\ \A i \in 0 .. n : f[i] = IF i = 0 THEN << >> ELSE On(f[i - 1])
    BY <2>1
  <2>3. \A i \in 0 .. n + 1 : g[i] = IF i = 0 THEN << >> ELSE On(g[i - 1])
    BY <2>2
  <2>4. P(n + 1, g)
    BY <2>3
  <2> HIDE DEF g
  <2> QED BY <2>4
<1>3. Rounds \in S
  <2> HIDE DEF S
  <2> QED BY <1>1, <1>2, SetInduction, RoundsType
<1> QED BY <1>3 DEF Settles, On

\* What is settled after a round, by what was settled before it.
LEMMA SettledIs ==
  ASSUME NEW asts
  PROVE  /\ Settled(asts)[0] = << >>
         /\ \A n \in Nat : n < Rounds => Settled(asts)[n + 1] = SettledOn(asts, Settled(asts)[n])
<1> DEFINE settled == Settled(asts)
<1>1. settled = CHOOSE f : Settles(f, asts)
  BY DEF Settled, Settles, Rounds
<1>2. Settles(settled, asts)
  <2> HIDE DEF settled, Settles
  <2> QED BY <1>1, SettlesExists
<1> HIDE DEF settled
<1>3. \A n \in 0 .. Rounds : settled[n] = IF n = 0 THEN << >> ELSE SettledOn(asts, settled[n - 1])
  BY <1>2 DEF Settles
<1>4. settled[0] = << >>
  BY <1>3, RoundsType
<1>5. ASSUME NEW n \in Nat, n < Rounds PROVE settled[n + 1] = SettledOn(asts, settled[n])
  <2>1. n + 1 \in 0 .. Rounds /\ n + 1 # 0 /\ (n + 1) - 1 = n
    BY <1>5, RoundsType
  <2> QED BY <1>3, <2>1
<1> QED BY <1>4, <1>5 DEF settled

\* What the globals settle on, on what is known.
Wise(asts, values) ==
  /\ Known(values) /\ DOMAIN values \subseteq DOMAIN asts
  /\ \A x \in DOMAIN values : IsOk(values[x])

\* A round settles the globals whose formulas have a value by now.
LEMMA SettledOnIs ==
  ASSUME NEW asts, Globals(asts), NEW values, Known(values)
  PROVE  /\ Wise(asts, SettledOn(asts, values))
         /\ \A x \in DOMAIN asts :
              x \in DOMAIN SettledOn(asts, values) <=> IsOk(Eval(asts[x], values))
         /\ \A x \in DOMAIN SettledOn(asts, values) :
              SettledOn(asts, values)[x] = Eval(asts[x], values)
<1> HIDE DEF IsOk
<1> DEFINE next == SettledOn(asts, values)
<1>1. /\ DOMAIN next = {x \in DOMAIN asts : IsOk(Eval(asts[x], values))}
      /\ \A x \in DOMAIN next : next[x] = Eval(asts[x], values)
  BY DEF SettledOn
<1> HIDE DEF next
<1>2. \A x \in DOMAIN next : next[x] \in Result /\ IsOk(next[x])
  BY <1>1, EvalType DEF Globals
<1> QED BY <1>1, <1>2 DEF Wise, Known, next

\* The more values are known, the more a round settles, and none changes.
LEMMA SettledOnMonotone ==
  ASSUME NEW asts, Globals(asts), NEW values, Known(values), NEW more, Known(more),
         Extends(more, values)
  PROVE  Extends(SettledOn(asts, more), SettledOn(asts, values))
<1> HIDE DEF IsOk
<1> DEFINE p == SettledOn(asts, values)
           q == SettledOn(asts, more)
<1>1. ASSUME NEW x \in DOMAIN p PROVE x \in DOMAIN q /\ q[x] = p[x]
  <2>1. x \in DOMAIN asts /\ IsOk(Eval(asts[x], values)) /\ p[x] = Eval(asts[x], values)
    BY SettledOnIs DEF Wise
  <2>2. asts[x] \in Formula
    BY <2>1 DEF Globals
  <2>3. Eval(asts[x], more) = Eval(asts[x], values)
    BY <2>1, <2>2, EvalMonotone
  <2>4. x \in DOMAIN q
    BY <2>1, <2>3, SettledOnIs
  <2> QED BY <2>1, <2>3, <2>4, SettledOnIs
<1> QED BY <1>1 DEF Extends

\* Rounds settle ever more.
LEMMA SettledGrows ==
  ASSUME NEW asts, Globals(asts)
  PROVE  LET settled == Settled(asts)
         IN  /\ \A n \in 0 .. Rounds : Wise(asts, settled[n])
             /\ \A n \in 0 .. Rounds : Extends(SettledOn(asts, settled[n]), settled[n])
             /\ \A n \in 0 .. Rounds : \A m \in 0 .. n : Extends(settled[n], settled[m])
<1> DEFINE settled == Settled(asts)
           N == {n \in Nat : n <= Rounds =>
                   /\ Wise(asts, settled[n])
                   /\ Extends(SettledOn(asts, settled[n]), settled[n])
                   /\ \A m \in 0 .. n : Extends(settled[n], settled[m])}
<1>0. /\ settled[0] = << >>
      /\ \A n \in Nat : n < Rounds => settled[n + 1] = SettledOn(asts, settled[n])
  BY SettledIs
<1> HIDE DEF settled
<1>1. 0 \in N
  <2>1. DOMAIN << >> = {}
    OBVIOUS
  <2> QED BY <1>0, <2>1 DEF Wise, Known, Extends
<1>2. ASSUME NEW n \in Nat, n \in N PROVE n + 1 \in N
  <2>1. SUFFICES ASSUME n + 1 <= Rounds
                 PROVE  /\ Wise(asts, settled[n + 1])
                        /\ Extends(SettledOn(asts, settled[n + 1]), settled[n + 1])
                        /\ \A m \in 0 .. n + 1 : Extends(settled[n + 1], settled[m])
    OBVIOUS
  <2>2. n < Rounds /\ n <= Rounds
    BY <2>1, RoundsType
  <2>3. /\ Wise(asts, settled[n])
        /\ Extends(SettledOn(asts, settled[n]), settled[n])
        /\ \A m \in 0 .. n : Extends(settled[n], settled[m])
    BY <1>2, <2>2
  <2>4. settled[n + 1] = SettledOn(asts, settled[n])
    BY <1>0, <2>2
  <2>5. Wise(asts, settled[n + 1]) /\ Extends(settled[n + 1], settled[n])
    BY <2>3, <2>4, SettledOnIs DEF Wise
  <2>6. Extends(SettledOn(asts, settled[n + 1]), settled[n + 1])
    BY <2>3, <2>4, <2>5, SettledOnMonotone DEF Wise
  <2>7. ASSUME NEW m \in 0 .. n + 1 PROVE Extends(settled[n + 1], settled[m])
    <3>1. CASE m = n + 1
      BY <3>1 DEF Extends
    <3>2. CASE m # n + 1
      <4>1. m \in 0 .. n
        BY <3>2
      <4> QED BY <2>3, <2>5, <4>1 DEF Extends
    <3> QED BY <3>1, <3>2
  <2> QED BY <2>5, <2>6, <2>7
<1>3. Nat \subseteq N
  <2> HIDE DEF N
  <2> QED BY <1>1, <1>2, SetInduction
<1>4. \A n \in 0 .. Rounds : n \in Nat /\ n <= Rounds
  BY RoundsType
<1> QED BY <1>3, <1>4 DEF settled

\* Functions that agree where they are defined are equal.
LEMMA SameTable ==
  ASSUME NEW f, NEW S, f = [x \in S |-> f[x]], NEW g, NEW T, g = [x \in T |-> g[x]], S = T,
         \A x \in S : f[x] = g[x]
  PROVE  f = g
OBVIOUS

\* After as many rounds as there are names everything is settled that will be.
LEMMA MeaningFixed ==
  ASSUME NEW asts, Globals(asts)
  PROVE  /\ Wise(asts, Meaning(asts))
         /\ \A x \in DOMAIN asts : x \in DOMAIN Meaning(asts) <=> IsOk(Eval(asts[x], Meaning(asts)))
         /\ \A x \in DOMAIN Meaning(asts) : Meaning(asts)[x] = Eval(asts[x], Meaning(asts))
<1> HIDE DEF IsOk
<1> DEFINE settled == Settled(asts)
           After(n) == SettledOn(asts, settled[n])
           Fixed(n) == DOMAIN After(n) = DOMAIN settled[n]
           Size(n) == Cardinality(DOMAIN settled[n])
           N == {n \in Nat : n <= Rounds => Fixed(n) \/ Size(n) >= n}
<1>0. /\ \A n \in 0 .. Rounds : Wise(asts, settled[n]) /\ Extends(After(n), settled[n])
      /\ \A n \in Nat : n < Rounds => settled[n + 1] = After(n)
  BY SettledGrows, SettledIs
<1>1. ASSUME NEW n \in 0 .. Rounds
      PROVE  /\ DOMAIN settled[n] \subseteq Name /\ DOMAIN After(n) \subseteq Name
             /\ IsFiniteSet(DOMAIN settled[n]) /\ Size(n) \in Nat /\ Size(n) <= Rounds
             /\ IsFiniteSet(DOMAIN After(n)) /\ Cardinality(DOMAIN After(n)) \in Nat
             /\ DOMAIN settled[n] \subseteq DOMAIN After(n)
  <2>1. DOMAIN settled[n] \subseteq Name
    BY <1>0 DEF Wise, Globals
  <2>2. DOMAIN After(n) \subseteq Name
    BY <1>0, SettledOnIs DEF Wise, Globals
  <2>3. DOMAIN settled[n] \subseteq DOMAIN After(n)
    BY <1>0 DEF Extends
  <2> QED BY <2>1, <2>2, <2>3, RoundsType, FS_Subset, FS_CardinalityType DEF Rounds
<1>2. ASSUME NEW n \in 0 .. Rounds, Fixed(n)
      PROVE  \A x \in DOMAIN settled[n] : settled[n][x] = After(n)[x]
  BY <1>0 DEF Extends
<1> HIDE DEF settled
<1>3. 0 \in N
  <2>1. 0 \in 0 .. Rounds
    BY RoundsType
  <2> HIDE DEF After, Size
  <2> QED BY <1>1, <2>1
<1>4. ASSUME NEW n \in Nat, n \in N PROVE n + 1 \in N
  <2>1. SUFFICES ASSUME n + 1 <= Rounds PROVE Fixed(n + 1) \/ Size(n + 1) >= n + 1
    OBVIOUS
  <2>2. n < Rounds /\ n \in 0 .. Rounds /\ n + 1 \in 0 .. Rounds
    BY <2>1, RoundsType
  <2>3. settled[n + 1] = After(n)
    BY <1>0, <2>2
  <2>4. CASE Fixed(n)
    <3>1. Extends(settled[n + 1], settled[n]) /\ Extends(settled[n], settled[n + 1])
      BY <1>0, <1>2, <2>2, <2>3, <2>4 DEF Extends
    <3>2. Extends(After(n), After(n + 1))
      BY <1>0, <2>2, <3>1, SettledOnMonotone DEF Wise
    <3>3. DOMAIN After(n + 1) \subseteq DOMAIN settled[n + 1]
      BY <2>3, <3>2 DEF Extends
    <3>4. Fixed(n + 1)
      BY <1>1, <2>2, <3>3
    <3> QED BY <3>4
  <2>5. CASE ~ Fixed(n)
    <3>1. Size(n) >= n
      BY <1>4, <2>2, <2>5
    <3>2. Cardinality(DOMAIN settled[n]) <= Cardinality(DOMAIN After(n))
          /\ Cardinality(DOMAIN settled[n]) # Cardinality(DOMAIN After(n))
      BY <1>1, <2>2, <2>5, FS_Subset
    <3>3. Size(n) < Size(n + 1)
      BY <1>1, <2>2, <2>3, <3>2
    <3>4. Size(n) \in Nat /\ Size(n + 1) \in Nat
      BY <1>1, <2>2
    <3>5. Size(n + 1) >= n + 1
      <4> HIDE DEF Size
      <4> QED BY <3>1, <3>3, <3>4
    <3> QED BY <3>5
  <2> QED BY <2>4, <2>5
<1>5. Rounds \in N /\ Rounds \in 0 .. Rounds
  <2> HIDE DEF N
  <2> QED BY <1>3, <1>4, RoundsType, SetInduction
<1>6. Fixed(Rounds)
  <2>1. CASE Size(Rounds) >= Rounds
    <3>1. Size(Rounds) = Rounds
      <4>1. Size(Rounds) \in Nat /\ Size(Rounds) <= Rounds
        BY <1>1, <1>5
      <4> HIDE DEF Size
      <4> QED BY <2>1, <4>1, RoundsType
    <3>2. DOMAIN settled[Rounds] = Name
      BY <1>1, <1>5, <3>1, RoundsType, FS_Subset DEF Rounds
    <3> QED BY <1>1, <1>5, <3>2
  <2> QED BY <1>5, <2>1, RoundsType
<1>7. Meaning(asts) = settled[Rounds]
  BY DEF Meaning, Rounds, settled
<1>8. Known(settled[Rounds]) /\ Wise(asts, settled[Rounds])
  BY <1>0, <1>5 DEF Wise
<1>9. /\ \A x \in DOMAIN asts : x \in DOMAIN After(Rounds) <=> IsOk(Eval(asts[x], settled[Rounds]))
      /\ \A x \in DOMAIN After(Rounds) : After(Rounds)[x] = Eval(asts[x], settled[Rounds])
  BY <1>8, SettledOnIs
<1> QED BY <1>2, <1>5, <1>6, <1>7, <1>8, <1>9

----------------------------------------------------------------------------
\* How much a call may still have to do: the names it does not visit yet, and
\* then what nests in its formula.
Weight(call) == Cardinality(Name \ call.visiting) * (MaxDepth + 1) + Depth(call.node)

FoundType == [res : Result, memo : Memo]

\* The weight of a call is a bounded number.
LEMMA WeightType ==
  ASSUME NEW call \in Call
  PROVE  /\ Weight(call) \in Nat
         /\ Weight(call) < Rounds * (MaxDepth + 1) + (MaxDepth + 1)
         /\ Cardinality(Name \ call.visiting) \in Nat
         /\ call.node \in Formula /\ call.memo \in Memo /\ call.visiting \in SUBSET Name
<1> DEFINE c == Cardinality(Name \ call.visiting)
           w == MaxDepth + 1
           d == Depth(call.node)
<1>1. call.node \in Formula /\ call.memo \in Memo /\ call.visiting \in SUBSET Name
  BY DEF Call
<1>2. Name \ call.visiting \in SUBSET Name
  OBVIOUS
<1>3. c \in Nat /\ c <= Rounds
  BY <1>2, RoundsType, FS_Subset, FS_CardinalityType DEF Rounds
<1>4. d \in Nat /\ d < w /\ w \in Nat
  BY <1>1, DepthIs, DepthAssumption
<1>5. Weight(call) = c * w + d
  BY DEF Weight
<1> HIDE DEF c, w, d
<1>6. c * w \in Nat /\ Rounds * w \in Nat /\ c * w <= Rounds * w
  <2>1. PICK k \in Nat : Rounds = c + k
    <3>1. Rounds - c \in Nat /\ Rounds = c + (Rounds - c)
      BY <1>3, RoundsType
    <3> QED BY <3>1
  <2>2. (c + k) * w = c * w + k * w /\ c * w \in Nat /\ k * w \in Nat
    BY <1>3, <1>4
  <2> QED BY <2>1, <2>2
<1>7. c * w + d \in Nat /\ c * w + d < Rounds * w + w
  BY <1>4, <1>6
<1> QED BY <1>1, <1>3, <1>5, <1>7 DEF c, w

\* A call for a part of the formula weighs less.
LEMMA WeightOfPart ==
  ASSUME NEW call \in Call, NEW part \in Formula, Depth(part) < Depth(call.node), NEW memo \in Memo
  PROVE  /\ CallOn(part, memo, call.visiting) \in Call
         /\ Weight(CallOn(part, memo, call.visiting)) < Weight(call)
<1> DEFINE d == CallOn(part, memo, call.visiting)
           n == Cardinality(Name \ call.visiting) * (MaxDepth + 1)
<1>1. d.node = part /\ d.visiting = call.visiting /\ d \in Call
  BY WeightType DEF CallOn, Call
<1>2. Weight(d) = n + Depth(part) /\ Weight(call) = n + Depth(call.node)
  BY <1>1 DEF Weight
<1>3. n \in Int /\ Depth(part) \in Int /\ Depth(call.node) \in Int
  BY WeightType, DepthIs, DepthAssumption
<1> QED BY <1>1, <1>2, <1>3

\* A call for the formula of a name not yet visited weighs less, however deep it is.
LEMMA WeightOfVisit ==
  ASSUME NEW call \in Call, NEW part \in Formula, NEW memo \in Memo, NEW x \in Name,
         x \notin call.visiting
  PROVE  /\ CallOn(part, memo, call.visiting \union {x}) \in Call
         /\ Weight(CallOn(part, memo, call.visiting \union {x})) < Weight(call)
<1> DEFINE d == CallOn(part, memo, call.visiting \union {x})
           S == Name \ call.visiting
           c == Cardinality(S)
           w == MaxDepth + 1
<1>1. /\ d.node = part /\ d.visiting = call.visiting \union {x} /\ d \in Call
      /\ Name \ d.visiting = S \ {x} /\ x \in S
  BY WeightType DEF CallOn, Call
<1>2. IsFiniteSet(S) /\ c \in Nat
  BY WeightType, RoundsType, FS_Subset
<1>3. Cardinality(S \ {x}) = c - 1
  BY <1>1, <1>2, FS_RemoveElement
<1>4. Weight(d) = (c - 1) * w + Depth(part) /\ Weight(call) = c * w + Depth(call.node)
  BY <1>1, <1>3 DEF Weight
<1>5. w \in Nat /\ Depth(part) \in Nat /\ Depth(part) < w /\ Depth(call.node) \in Nat
  <2>1. Depth(part) \in 0 .. MaxDepth
    BY DepthIs
  <2>2. call.node \in Formula
    BY WeightType
  <2>3. Depth(call.node) \in Nat
    BY <2>2, DepthIs
  <2> QED BY <2>1, <2>3, DepthAssumption
<1> HIDE DEF c, w
<1>6. (c - 1) * w = c * w - w /\ c * w \in Nat
  BY <1>2, <1>5
<1>7. (c - 1) * w + Depth(part) < c * w + Depth(call.node)
  BY <1>5, <1>6
<1> QED BY <1>1, <1>4, <1>7

\* Induction over calls.
LEMMA CallInduction ==
  ASSUME NEW G,
         \A c \in Call : (\A d \in Call : Weight(d) < Weight(c) => d \in G) => c \in G
  PROVE  Call \subseteq G
<1> DEFINE N == {n \in Nat : \A c \in Call : Weight(c) < n => c \in G}
           top == Rounds * (MaxDepth + 1) + (MaxDepth + 1)
<1>1. \A c \in Call : Weight(c) \in Nat /\ Weight(c) < top
  BY WeightType
<1>2. 0 \in N
  BY <1>1
<1>3. ASSUME NEW n \in Nat, n \in N PROVE n + 1 \in N
  <2>1. SUFFICES ASSUME NEW c \in Call, Weight(c) < n + 1, NEW d \in Call, Weight(d) < Weight(c)
                 PROVE  d \in G
    OBVIOUS
  <2>2. Weight(d) < n
    BY <1>1, <2>1
  <2> QED BY <1>3, <2>2
<1>4. top \in Nat
  BY RoundsType, DepthAssumption
<1>5. top \in N
  <2> HIDE DEF N, top
  <2> QED BY <1>2, <1>3, <1>4, SetInduction
<1> HIDE DEF top
<1> QED BY <1>1, <1>5

----------------------------------------------------------------------------
\* What an operation makes of the calls for its parts.
First(f) == IF f.op = "/" THEN f.b ELSE f.a
Second(f) == IF f.op = "/" THEN f.a ELSE f.b
JoinedCalls(op, first, second) ==
  LET a == IF op = "/" THEN second.res ELSE first.res
      b == IF op = "/" THEN first.res ELSE second.res
  IN  IF ~ IsOk(first.res) THEN first
      ELSE IF op = "/" /\ b.val = 0 THEN Found(Err("zero"), first.memo)
      ELSE IF ~ IsOk(second.res) THEN second
      ELSE Found(Compute(op, a.val, b.val, "panic"), second.memo)

\* The step of eval_node, case by case.
LEMMA NodeStepIs ==
  ASSUME NEW call, NEW eval, NEW asts
  PROVE  LET f     == call.node
             memo  == call.memo
             On(part, known) == eval[CallOn(part, known, call.visiting)]
         IN  /\ f.op = "num" => NodeStep(call, eval, asts) = Found(Ok(f.n), memo)
             /\ f.op = "bad" => NodeStep(call, eval, asts) = Found(Err("syntax"), memo)
             /\ f.op = "ref" =>
                  NodeStep(call, eval, asts) = EvalGlobal(f.name, eval, asts, memo, call.visiting)
             /\ f.op = "neg" =>
                  NodeStep(call, eval, asts) =
                    Found(Negated(On(f.a, memo).res), On(f.a, memo).memo)
             /\ f.op \in Operators =>
                  NodeStep(call, eval, asts) =
                    JoinedCalls(f.op, On(First(f), memo), On(Second(f), On(First(f), memo).memo))
<1> HIDE DEF IsOk, Ok, Err, Compute, Found, EvalGlobal
<1> DEFINE f == call.node
<1>1. CASE f.op = "num"
  BY <1>1 DEF NodeStep, Operators
<1>2. CASE f.op = "bad"
  BY <1>2 DEF NodeStep, Operators
<1>3. CASE f.op = "ref"
  BY <1>3 DEF NodeStep, Operators
<1>4. CASE f.op = "neg"
  BY <1>4 DEF NodeStep, Operators, Negated
<1>5. CASE f.op \in Operators
  <2>1. f.op # "num" /\ f.op # "bad" /\ f.op # "ref" /\ f.op # "neg"
    BY <1>5 DEF Operators
  <2> QED BY <1>5, <2>1 DEF NodeStep, JoinedCalls, First, Second
<1>6. CASE f.op \notin {"num", "bad", "ref", "neg"} /\ f.op \notin Operators
  BY <1>6
<1> QED BY <1>1, <1>2, <1>3, <1>4, <1>5, <1>6

\* What a call finds: a result and a memo.
LEMMA FoundIs ==
  /\ \A r \in Result : \A m \in Memo :
       Found(r, m) \in FoundType /\ Found(r, m).res = r /\ Found(r, m).memo = m
  /\ \A e \in FoundType : e.res \in Result /\ e.memo \in Memo /\ e = Found(e.res, e.memo)
BY DEF Found, FoundType

\* It leaves the memo of the last part it asked, and the result that Ast::eval
\* would give of the parts' results.
LEMMA JoinedCallsIs ==
  ASSUME NEW op \in Operators, NEW first \in FoundType, NEW second \in FoundType
  PROVE  LET a == IF op = "/" THEN second.res ELSE first.res
             b == IF op = "/" THEN first.res ELSE second.res
             e == JoinedCalls(op, first, second)
         IN  /\ e \in FoundType
             /\ e.res = Joined(op, a, b, "panic")
             /\ e.memo = first.memo \/ e.memo = second.memo
<1> DEFINE a == IF op = "/" THEN second.res ELSE first.res
           b == IF op = "/" THEN first.res ELSE second.res
           e == JoinedCalls(op, first, second)
<1>0. "zero" \in Errors /\ "panic" \in Errors
  BY DEF Errors
<1>1. a \in Result /\ b \in Result
  BY FoundIs
<1>2. Joined(op, a, b, "panic") \in Result
  BY <1>0, <1>1, JoinedIs
<1> HIDE DEF IsOk, Ok, Err, Compute, Found
<1>3. e = Found(Joined(op, a, b, "panic"), e.memo) /\ (e.memo = first.memo \/ e.memo = second.memo)
  <2>1. CASE ~ IsOk(first.res)
    <3>1. e = first
      BY <2>1 DEF JoinedCalls
    <3>2. Joined(op, a, b, "panic") = first.res
      BY <2>1 DEF Joined
    <3> QED BY <3>1, <3>2, FoundIs
  <2>2. CASE IsOk(first.res) /\ op = "/" /\ b.val = 0
    <3>1. e = Found(Err("zero"), first.memo)
      BY <2>2 DEF JoinedCalls
    <3>2. Joined(op, a, b, "panic") = Err("zero")
      BY <2>2 DEF Joined
    <3>3. e.memo = first.memo
      BY <1>2, <3>1, <3>2, FoundIs
    <3> QED BY <3>1, <3>2, <3>3
  <2>3. CASE IsOk(first.res) /\ ~ (op = "/" /\ b.val = 0) /\ ~ IsOk(second.res)
    <3>1. e = second
      BY <2>3 DEF JoinedCalls
    <3>2. Joined(op, a, b, "panic") = second.res
      BY <2>3 DEF Joined
    <3> QED BY <3>1, <3>2, FoundIs
  <2>4. CASE IsOk(first.res) /\ ~ (op = "/" /\ b.val = 0) /\ IsOk(second.res)
    <3>1. e = Found(Compute(op, a.val, b.val, "panic"), second.memo)
      BY <2>4 DEF JoinedCalls
    <3>2. Joined(op, a, b, "panic") = Compute(op, a.val, b.val, "panic")
      BY <2>4 DEF Joined
    <3>3. e.memo = second.memo
      BY <1>2, <3>1, <3>2, FoundIs
    <3> QED BY <3>1, <3>2, <3>3
  <2> QED BY <2>1, <2>2, <2>3, <2>4
<1> HIDE DEF a, b, e
<1>4. e.memo \in Memo
  BY <1>3, FoundIs
<1>5. e \in FoundType /\ e.res = Joined(op, a, b, "panic")
  BY <1>2, <1>3, <1>4, FoundIs
<1> QED BY <1>3, <1>5 DEF a, b, e

\* What is remembered of a call.
LEMMA Remembered ==
  ASSUME NEW e \in FoundType, NEW x \in Name
  PROVE  /\ [e.memo EXCEPT ![x] = e.res] \in Memo
         /\ [e.memo EXCEPT ![x] = e.res][x] = e.res
         /\ \A y \in Name \ {x} : [e.memo EXCEPT ![x] = e.res][y] = e.memo[y]
<1>1. e.memo \in [Name -> Result \union {Unresolved}] /\ e.res \in Result \union {Unresolved}
  BY FoundIs DEF Memo
<1> QED BY <1>1 DEF Memo

\* The call for the formula of a global that is not being visited.
LEMMA InnerCall ==
  ASSUME NEW asts, Globals(asts), NEW call \in Call, NEW x \in DOMAIN asts, x \notin call.visiting
  PROVE  /\ CallOn(asts[x], call.memo, call.visiting \union {x}) \in Call
         /\ Weight(CallOn(asts[x], call.memo, call.visiting \union {x})) < Weight(call)
<1>1. asts[x] \in Formula /\ x \in Name /\ call.memo \in Memo
  BY WeightType DEF Globals
<1> QED BY <1>1, WeightOfVisit

\* A step asks for calls of less weight only.
LEMMA NodeStepLocal ==
  ASSUME NEW asts, Globals(asts), NEW call \in Call, NEW g, NEW h,
         \A d \in Call : Weight(d) < Weight(call) => g[d] = h[d] /\ g[d] \in FoundType
  PROVE  /\ NodeStep(call, g, asts) = NodeStep(call, h, asts)
         /\ NodeStep(call, g, asts) \in FoundType
<1> DEFINE f == call.node
           memo == call.memo
<1> HIDE DEF Found, Err, Ok, IsOk
<1>0. f \in Formula /\ memo \in Memo
  BY WeightType
<1>1. \A e \in {"syntax", "unknown", "cycle"} : Err(e) \in Result
  <2>1. \A e \in {"syntax", "unknown", "cycle"} : e \in Errors
    BY DEF Errors
  <2> QED BY <2>1, ResultIs
<1>2. \A part \in Formula : \A m \in Memo : Depth(part) < Depth(f) =>
        /\ g[CallOn(part, m, call.visiting)] = h[CallOn(part, m, call.visiting)]
        /\ g[CallOn(part, m, call.visiting)] \in FoundType
  BY WeightOfPart
<1>3. CASE f.op = "num" /\ f.n \in Decimal
  BY <1>0, <1>3, NodeStepIs, FoundIs, ResultIs
<1>4. CASE f.op = "bad"
  BY <1>0, <1>1, <1>4, NodeStepIs, FoundIs
<1>5. CASE f.op = "ref" /\ f.name \in Name
  <2> DEFINE x == f.name
             inner == CallOn(asts[x], memo, call.visiting \union {x})
  <2>1. /\ NodeStep(call, g, asts) = EvalGlobal(x, g, asts, memo, call.visiting)
        /\ NodeStep(call, h, asts) = EvalGlobal(x, h, asts, memo, call.visiting)
    BY <1>5, NodeStepIs
  <2>6. x \in Name /\ (memo[x] # Unresolved => memo[x] \in Result)
    BY <1>0, <1>5 DEF Memo
  <2> HIDE DEF x
  <2>2. CASE memo[x] # Unresolved
    <3>1. NodeStep(call, g, asts) = Found(memo[x], memo) /\ NodeStep(call, h, asts) = Found(memo[x], memo)
      BY <2>1, <2>2 DEF EvalGlobal
    <3> QED BY <1>0, <2>2, <2>6, <3>1, FoundIs
  <2>3. CASE memo[x] = Unresolved /\ x \notin DOMAIN asts
    <3>1. /\ NodeStep(call, g, asts) = Found(Err("unknown"), memo)
          /\ NodeStep(call, h, asts) = Found(Err("unknown"), memo)
      BY <2>1, <2>3 DEF EvalGlobal
    <3> QED BY <1>0, <1>1, <3>1, FoundIs
  <2>4. CASE memo[x] = Unresolved /\ x \in DOMAIN asts /\ x \in call.visiting
    <3>1. /\ NodeStep(call, g, asts) = Found(Err("cycle"), memo)
          /\ NodeStep(call, h, asts) = Found(Err("cycle"), memo)
      BY <2>1, <2>4 DEF EvalGlobal
    <3> QED BY <1>0, <1>1, <3>1, FoundIs
  <2>5. CASE memo[x] = Unresolved /\ x \in DOMAIN asts /\ x \notin call.visiting
    <3>1. g[inner] = h[inner] /\ g[inner] \in FoundType
      BY <2>5, InnerCall
    <3>2. /\ NodeStep(call, g, asts) = Found(g[inner].res, [g[inner].memo EXCEPT ![x] = g[inner].res])
          /\ NodeStep(call, h, asts) = Found(h[inner].res, [h[inner].memo EXCEPT ![x] = h[inner].res])
      BY <2>1, <2>5 DEF EvalGlobal
    <3> HIDE DEF inner
    <3>3. g[inner].res \in Result /\ [g[inner].memo EXCEPT ![x] = g[inner].res] \in Memo
      BY <2>6, <3>1, FoundIs, Remembered
    <3> QED BY <3>1, <3>2, <3>3, FoundIs
  <2> QED BY <2>2, <2>3, <2>4, <2>5
<1>6. CASE f.op = "neg" /\ f.a \in Formula /\ Depth(f.a) < Depth(f)
  <2> DEFINE a == g[CallOn(f.a, memo, call.visiting)]
  <2>1. a = h[CallOn(f.a, memo, call.visiting)] /\ a \in FoundType
    BY <1>0, <1>2, <1>6
  <2>2. /\ NodeStep(call, g, asts) = Found(Negated(a.res), a.memo)
        /\ NodeStep(call, h, asts) = Found(Negated(a.res), a.memo)
    BY <1>6, <2>1, NodeStepIs
  <2> HIDE DEF a
  <2>3. Negated(a.res) \in Result /\ a.memo \in Memo
    BY <2>1, FoundIs, NegatedIs
  <2> QED BY <2>2, <2>3, FoundIs
<1>7. CASE /\ f.op \in Operators
           /\ f.a \in Formula /\ f.b \in Formula /\ Depth(f.a) < Depth(f) /\ Depth(f.b) < Depth(f)
  <2> DEFINE first == g[CallOn(First(f), memo, call.visiting)]
             second == g[CallOn(Second(f), first.memo, call.visiting)]
  <2>1. /\ First(f) \in Formula /\ Depth(First(f)) < Depth(f)
        /\ Second(f) \in Formula /\ Depth(Second(f)) < Depth(f)
    BY <1>7 DEF First, Second
  <2>2. first = h[CallOn(First(f), memo, call.visiting)] /\ first \in FoundType
    BY <1>0, <1>2, <2>1
  <2>3. first.memo \in Memo
    BY <2>2, FoundIs
  <2>4. second = h[CallOn(Second(f), first.memo, call.visiting)] /\ second \in FoundType
    BY <1>2, <2>1, <2>3
  <2>5. /\ NodeStep(call, g, asts) = JoinedCalls(f.op, first, second)
        /\ NodeStep(call, h, asts) = JoinedCalls(f.op, first, second)
    BY <1>7, <2>2, <2>4, NodeStepIs
  <2> HIDE DEF first, second
  <2>6. JoinedCalls(f.op, first, second) \in FoundType
    BY <1>7, <2>2, <2>4, JoinedCallsIs
  <2> QED BY <2>5, <2>6
<1> QED BY <1>0, <1>3, <1>4, <1>5, <1>6, <1>7, FormulaCases

----------------------------------------------------------------------------
Answers(eval, asts) == eval = [call \in Call |-> NodeStep(call, eval, asts)]

\* The resolution ends: every call has an answer, by induction over weight.
LEMMA AnswersExists ==
  ASSUME NEW asts, Globals(asts)
  PROVE  \E eval : Answers(eval, asts)
<1> DEFINE Upto(n) == {c \in Call : Weight(c) < n}
           P(n, g) == /\ g = [c \in Upto(n) |-> NodeStep(c, g, asts)]
                      /\ \A c \in Upto(n) : g[c] \in FoundType
           N == {n \in Nat : \E g : P(n, g)}
           top == Rounds * (MaxDepth + 1) + (MaxDepth + 1)
<1>1. \A c \in Call : Weight(c) \in Nat /\ Weight(c) < top
  BY WeightType
<1>2. 0 \in N
  <2> DEFINE g == [c \in {} |-> 0]
  <2>1. Upto(0) = {}
    BY <1>1
  <2>2. g = [c \in {} |-> NodeStep(c, g, asts)]
    OBVIOUS
  <2> HIDE DEF Upto
  <2>3. P(0, g)
    BY <2>1, <2>2
  <2> HIDE DEF P, g
  <2> QED BY <2>3
<1>3. ASSUME NEW n \in Nat, n \in N PROVE n + 1 \in N
  <2>1. PICK g : P(n, g)
    BY <1>3
  <2> DEFINE h == [c \in Upto(n + 1) |-> NodeStep(c, g, asts)]
  <2>2. DOMAIN g = Upto(n) /\ \A c \in Upto(n) : g[c] = NodeStep(c, g, asts) /\ g[c] \in FoundType
    BY <2>1
  <2>3. ASSUME NEW c \in Upto(n + 1)
        PROVE  NodeStep(c, g, asts) = NodeStep(c, h, asts) /\ h[c] \in FoundType
    <3>1. ASSUME NEW d \in Call, Weight(d) < Weight(c) PROVE g[d] = h[d] /\ g[d] \in FoundType
      <4>1. d \in Upto(n) /\ d \in Upto(n + 1)
        BY <1>1, <2>3, <3>1
      <4> QED BY <2>2, <4>1
    <3>2. c \in Call /\ h[c] = NodeStep(c, g, asts)
      OBVIOUS
    <3> HIDE DEF h
    <3> QED BY <3>1, <3>2, NodeStepLocal
  <2>4. P(n + 1, h)
    <3> HIDE DEF Upto
    <3> QED BY <2>3
  <2>5. n + 1 \in Nat
    OBVIOUS
  <2> HIDE DEF P, h
  <2> QED BY <2>4, <2>5
<1>4. top \in Nat
  BY RoundsType, DepthAssumption
<1>5. top \in N
  <2> HIDE DEF N, top
  <2> QED BY <1>2, <1>3, <1>4, SetInduction
<1>6. PICK g : P(top, g)
  BY <1>5
<1>7. Upto(top) = Call
  <2> HIDE DEF top
  <2> QED BY <1>1
<1>8. Answers(g, asts)
  <2> HIDE DEF Upto
  <2> QED BY <1>6, <1>7, Zenon DEF Answers
<1> QED BY <1>8

\* What eval_node finds.
LEMMA EvalNodeIs ==
  ASSUME NEW asts, Globals(asts), NEW c \in Call
  PROVE  /\ EvalNode(asts)[c] = NodeStep(c, EvalNode(asts), asts)
         /\ EvalNode(asts)[c] \in FoundType
<1> DEFINE eval == EvalNode(asts)
           G == {d \in Call : eval[d] \in FoundType}
<1>1. eval = CHOOSE f : Answers(f, asts)
  BY DEF EvalNode, Answers
<1>2. Answers(eval, asts)
  <2> HIDE DEF eval, Answers
  <2> QED BY <1>1, AnswersExists
<1> HIDE DEF eval
<1>3. \A d \in Call : eval[d] = NodeStep(d, eval, asts)
  BY <1>2 DEF Answers
<1>4. ASSUME NEW d \in Call, \A e \in Call : Weight(e) < Weight(d) => e \in G PROVE d \in G
  <2>1. NodeStep(d, eval, asts) \in FoundType
    BY <1>4, NodeStepLocal
  <2> QED BY <1>3, <2>1
<1>5. Call \subseteq G
  <2> HIDE DEF G
  <2> QED BY <1>4, CallInduction
<1> QED BY <1>3, <1>5 DEF eval

----------------------------------------------------------------------------
\* The round in which a global is settled.
SettledIn(asts, x, n) ==
  x \in DOMAIN Settled(asts)[n] /\ \A m \in 0 .. n - 1 : x \notin DOMAIN Settled(asts)[m]
Rank(asts, x) == CHOOSE n \in 0 .. Rounds : SettledIn(asts, x, n)

\* A global that means something is settled in one round, by earlier ones.
LEMMA RankIs ==
  ASSUME NEW asts, Globals(asts), NEW x \in DOMAIN Meaning(asts)
  PROVE  /\ Rank(asts, x) \in 0 .. Rounds /\ Rank(asts, x) # 0 /\ Rank(asts, x) - 1 \in 0 .. Rounds
         /\ x \notin DOMAIN Settled(asts)[Rank(asts, x) - 1]
         /\ IsOk(Eval(asts[x], Settled(asts)[Rank(asts, x) - 1]))
         /\ \A m \in 0 .. Rounds : x \in DOMAIN Settled(asts)[m] => Rank(asts, x) <= m
<1> HIDE DEF IsOk
<1> DEFINE settled == Settled(asts)
           S == {n \in 0 .. Rounds : x \in DOMAIN settled[n]}
           r == Rank(asts, x)
<1>0. Rounds \in Nat
  BY RoundsType
<1>1. S \in SUBSET Nat /\ Rounds \in S
  BY <1>0 DEF Meaning, Rounds
<1>2. PICK n \in S : \A m \in S : n <= m
  BY <1>1, Least
<1>3. SettledIn(asts, x, n)
  <2>1. ASSUME NEW m \in 0 .. n - 1, x \in DOMAIN settled[m] PROVE FALSE
    <3>1. m \in S /\ m < n /\ m \in Nat /\ n \in Nat
      BY <1>0, <2>1
    <3> QED BY <1>2, <3>1
  <2> QED BY <2>1 DEF SettledIn
<1>4. n \in 0 .. Rounds
  OBVIOUS
<1>5. r \in 0 .. Rounds /\ SettledIn(asts, x, r)
  <2> HIDE DEF SettledIn
  <2> QED BY <1>3, <1>4 DEF Rank
<1> HIDE DEF r
<1>6. r # 0
  <2>1. Settled(asts)[0] = << >>
    BY SettledIs
  <2>2. x \notin DOMAIN Settled(asts)[0]
    BY <2>1
  <2> QED BY <1>5, <2>2 DEF SettledIn
<1>7. r - 1 \in 0 .. r - 1 /\ r - 1 \in Nat /\ r - 1 < Rounds /\ (r - 1) + 1 = r /\ r - 1 \in 0 .. Rounds
  BY <1>0, <1>5, <1>6
<1>8. settled[r] = SettledOn(asts, settled[r - 1])
  <2>1. Settled(asts)[(r - 1) + 1] = SettledOn(asts, Settled(asts)[r - 1])
    BY <1>7, SettledIs
  <2> QED BY <1>7, <2>1
<1>9. Wise(asts, settled[r - 1])
  BY <1>7, SettledGrows
<1>10. IsOk(Eval(asts[x], settled[r - 1]))
  <2>1. x \in DOMAIN SettledOn(asts, settled[r - 1])
    BY <1>5, <1>8 DEF SettledIn
  <2>2. x \in DOMAIN asts
    BY <1>9, <2>1, SettledOnIs DEF Wise
  <2> QED BY <1>9, <2>1, <2>2, SettledOnIs DEF Wise
<1>11. ASSUME NEW m \in 0 .. Rounds, x \in DOMAIN settled[m] PROVE r <= m
  <2>1. ASSUME m < r PROVE FALSE
    <3>1. m \in 0 .. r - 1
      BY <1>5, <2>1
    <3> QED BY <1>5, <1>11, <3>1 DEF SettledIn
  <2> QED BY <1>5, <2>1
<1> QED BY <1>5, <1>6, <1>7, <1>10, <1>11 DEF SettledIn, r

\* A formula that is met while globals are visited has a value before they have
\* one, if they have one at all.
Grounded(asts, f, visiting) ==
  \A v \in visiting \intersect DOMAIN Meaning(asts) : IsOk(Eval(f, Settled(asts)[Rank(asts, v) - 1]))

\* A memo that remembers nothing but what globals mean.
Agrees(res, other) == (IsOk(res) <=> IsOk(other)) /\ (IsOk(res) => res = other)
Sound(asts, memo) ==
  \A x \in Name : memo[x] # Unresolved =>
    /\ x \in DOMAIN asts
    /\ IsOk(memo[x]) <=> x \in DOMAIN Meaning(asts)
    /\ IsOk(memo[x]) => memo[x] = Meaning(asts)[x]

\* The parts of a grounded formula are grounded.
LEMMA GroundedPart ==
  ASSUME NEW asts, Globals(asts), NEW f \in Formula, NEW visiting, Grounded(asts, f, visiting)
  PROVE  /\ f.op = "neg" /\ f.a \in Formula => Grounded(asts, f.a, visiting)
         /\ f.op \in Operators /\ f.a \in Formula /\ f.b \in Formula =>
              Grounded(asts, f.a, visiting) /\ Grounded(asts, f.b, visiting)
<1> HIDE DEF IsOk
<1>0. "overflow" \in Errors
  BY DEF Errors
<1>1. SUFFICES ASSUME NEW v \in visiting \intersect DOMAIN Meaning(asts)
      PROVE  LET values == Settled(asts)[Rank(asts, v) - 1]
             IN  /\ f.op = "neg" /\ f.a \in Formula => IsOk(Eval(f.a, values))
                 /\ f.op \in Operators /\ f.a \in Formula /\ f.b \in Formula =>
                      IsOk(Eval(f.a, values)) /\ IsOk(Eval(f.b, values))
  BY DEF Grounded
<1> DEFINE values == Settled(asts)[Rank(asts, v) - 1]
<1>2. Rank(asts, v) - 1 \in 0 .. Rounds
  BY RankIs
<1>3. Known(values)
  BY <1>2, SettledGrows DEF Wise
<1>4. IsOk(Eval(f, values))
  BY DEF Grounded
<1> HIDE DEF values
<1>5. CASE f.op = "neg" /\ f.a \in Formula
  <2>1. f.op \notin Operators
    BY <1>5 DEF Operators
  <2> QED BY <1>3, <1>4, <1>5, <2>1, EvalCases, EvalType, NegatedIs DEF values
<1>6. CASE f.op \in Operators /\ f.a \in Formula /\ f.b \in Formula
  <2>1. f.op # "neg"
    BY <1>6 DEF Operators
  <2>2. Eval(f.a, values) \in Result /\ Eval(f.b, values) \in Result
    BY <1>3, <1>6, EvalType
  <2>3. IsOk(Joined(f.op, Eval(f.a, values), Eval(f.b, values), "overflow"))
    BY <1>4, <1>6, EvalCases
  <2>4. IsOk(Eval(f.a, values)) /\ IsOk(Eval(f.b, values))
    BY <1>0, <1>6, <2>2, <2>3, JoinedIs
  <2> QED BY <1>6, <2>1, <2>4 DEF values
<1> QED BY <1>5, <1>6 DEF values

\* So does the formula of the global it refers to.
LEMMA GroundedRef ==
  ASSUME NEW asts, Globals(asts), NEW f \in Formula, f.op = "ref", NEW visiting,
         Grounded(asts, f, visiting), f.name \in DOMAIN asts
  PROVE  /\ f.name \in visiting => f.name \notin DOMAIN Meaning(asts)
         /\ Grounded(asts, asts[f.name], visiting \union {f.name})
<1> HIDE DEF IsOk
<1> DEFINE x == f.name
           settled == Settled(asts)
<1>0. ~ IsOk(Err("unknown"))
  <2>1. "unknown" \in Errors
    BY DEF Errors
  <2> QED BY <2>1, ResultIs
<1>1. ASSUME NEW v \in visiting \intersect DOMAIN Meaning(asts)
      PROVE  x \in DOMAIN settled[Rank(asts, v) - 1]
  <2>1. IsOk(Eval(f, settled[Rank(asts, v) - 1]))
    BY DEF Grounded
  <2> QED BY <1>0, <2>1, EvalCases
<1>2. ASSUME x \in visiting, x \in DOMAIN Meaning(asts) PROVE FALSE
  BY <1>1, <1>2, RankIs
<1>3. ASSUME NEW v \in (visiting \union {x}) \intersect DOMAIN Meaning(asts)
      PROVE  IsOk(Eval(asts[x], settled[Rank(asts, v) - 1]))
  <2>1. CASE v = x
    BY <2>1, RankIs
  <2>2. CASE v \in visiting
    <3> DEFINE n == Rank(asts, v) - 1
               m == Rank(asts, x) - 1
    <3>1. x \in DOMAIN settled[n] /\ n \in 0 .. Rounds /\ v \in DOMAIN Meaning(asts)
      BY <1>1, <2>2, RankIs
    <3>2. x \in DOMAIN Meaning(asts)
      <4>1. Rounds \in 0 .. Rounds /\ n \in 0 .. Rounds /\ Meaning(asts) = settled[Rounds]
        BY <3>1, RoundsType DEF Meaning, Rounds
      <4>2. Extends(settled[Rounds], settled[n])
        BY <4>1, SettledGrows
      <4> QED BY <3>1, <4>1, <4>2 DEF Extends
    <3>3. Rank(asts, x) <= n /\ m \in 0 .. Rounds /\ Rank(asts, x) \in 0 .. Rounds
      BY <3>1, <3>2, RankIs
    <3>4. m \in 0 .. n
      BY <3>1, <3>3, RoundsType
    <3>5. Extends(settled[n], settled[m]) /\ Known(settled[n]) /\ Known(settled[m])
      BY <3>1, <3>3, <3>4, SettledGrows DEF Wise
    <3>6. IsOk(Eval(asts[x], settled[m])) /\ asts[x] \in Formula
      BY <3>2, RankIs DEF Globals
    <3> HIDE DEF n, m, settled, x
    <3>7. Eval(asts[x], settled[n]) = Eval(asts[x], settled[m])
      BY <3>5, <3>6, EvalMonotone
    <3> QED BY <3>6, <3>7 DEF n, m
  <2> QED BY <2>1, <2>2
<1> QED BY <1>2, <1>3 DEF Grounded

\* An operation agrees if its parts do, though one panics where the other overflows.
LEMMA JoinedAgrees ==
  ASSUME NEW op \in Operators, NEW a \in Result, NEW b \in Result, NEW c \in Result,
         NEW d \in Result, Agrees(a, c), Agrees(b, d)
  PROVE  Agrees(Joined(op, a, b, "panic"), Joined(op, c, d, "overflow"))
<1> HIDE DEF IsOk
<1>0. "panic" \in Errors /\ "overflow" \in Errors
  BY DEF Errors
<1>1. CASE IsOk(a) /\ IsOk(b)
  <2>1. a = c /\ b = d
    BY <1>1 DEF Agrees
  <2>2. /\ IsOk(Joined(op, a, b, "panic")) <=> IsOk(Joined(op, a, b, "overflow"))
        /\ IsOk(Joined(op, a, b, "overflow")) =>
             Joined(op, a, b, "panic") = Joined(op, a, b, "overflow")
    BY <1>0, JoinedIs
  <2> QED BY <2>1, <2>2 DEF Agrees
<1>2. CASE ~ (IsOk(a) /\ IsOk(b))
  <2>1. ~ (IsOk(c) /\ IsOk(d))
    BY <1>2 DEF Agrees
  <2>2. ~ IsOk(Joined(op, a, b, "panic"))
    BY <1>0, <1>2, JoinedIs
  <2>3. ~ IsOk(Joined(op, c, d, "overflow"))
    BY <1>0, <2>1, JoinedIs
  <2> QED BY <2>2, <2>3 DEF Agrees
<1> QED BY <1>1, <1>2

\* A negation agrees if its part does.
LEMMA NegatedAgrees ==
  ASSUME NEW a \in Result, NEW c \in Result, Agrees(a, c)
  PROVE  Agrees(Negated(a), Negated(c))
<1> HIDE DEF IsOk, Ok
<1> QED BY NegatedIs DEF Agrees, Negated

\* What a call finds, if its memo is sound and its formula grounded: what the
\* formula means; and it forgets nothing.
Right(asts, c) ==
  LET e == EvalNode(asts)[c]
  IN  /\ \A x \in Name : c.memo[x] # Unresolved => e.memo[x] = c.memo[x]
      /\ Sound(asts, c.memo) /\ Grounded(asts, c.node, c.visiting) =>
           Sound(asts, e.memo) /\ Agrees(e.res, Eval(c.node, Meaning(asts)))

\* A call for a name, if the calls it makes are right.
LEMMA GlobalRight ==
  ASSUME NEW asts, Globals(asts), NEW c \in Call, c.node.op = "ref", c.node.name \in Name,
         \A d \in Call : Weight(d) < Weight(c) => Right(asts, d)
  PROVE  /\ Right(asts, c)
         /\ c.node.name \in DOMAIN asts /\ c.node.name \notin c.visiting =>
              EvalNode(asts)[c].memo[c.node.name] # Unresolved
<1> HIDE DEF IsOk, Unresolved, Err, Found
<1> DEFINE f == c.node
           memo == c.memo
           visiting == c.visiting
           x == f.name
           meaning == Meaning(asts)
           e == EvalNode(asts)[c]
           inner == CallOn(asts[x], memo, visiting \union {x})
           i == EvalNode(asts)[inner]
<1>9. /\ f \in Formula /\ memo \in Memo /\ visiting \in SUBSET Name
      /\ e = EvalGlobal(x, EvalNode(asts), asts, memo, visiting)
  <2>1. f \in Formula /\ memo \in Memo /\ visiting \in SUBSET Name
    BY WeightType
  <2>2. e = NodeStep(c, EvalNode(asts), asts)
    BY EvalNodeIs
  <2>3. f.op = "ref" =>
          NodeStep(c, EvalNode(asts), asts) = EvalGlobal(x, EvalNode(asts), asts, memo, visiting)
    BY NodeStepIs
  <2> QED BY <2>1, <2>2, <2>3
<1>0. \A w \in {"unknown", "cycle"} : Err(w) \in Result /\ ~ IsOk(Err(w))
  <2>1. \A w \in {"unknown", "cycle"} : w \in Errors
    BY DEF Errors
  <2> QED BY <2>1, ResultIs
<1>1. Eval(f, meaning) = IF x \in DOMAIN meaning THEN meaning[x] ELSE Err("unknown")
  BY <1>9, EvalCases
<1>2. /\ Known(meaning) /\ DOMAIN meaning \subseteq DOMAIN asts
      /\ \A y \in DOMAIN meaning : IsOk(meaning[y])
      /\ \A y \in DOMAIN asts : y \in DOMAIN meaning <=> IsOk(Eval(asts[y], meaning))
      /\ \A y \in DOMAIN meaning : meaning[y] = Eval(asts[y], meaning)
  BY MeaningFixed DEF Wise
<1>3. memo[x] # Unresolved => memo[x] \in Result
  BY <1>9 DEF Memo
<1>4. \A r \in Result : r # Unresolved
  BY DEF Unresolved, Err, Result, Errors
<1> HIDE DEF meaning
<1>5. CASE memo[x] # Unresolved
  <2>1. e = Found(memo[x], memo)
    BY <1>5, <1>9 DEF EvalGlobal
  <2>2. e \in FoundType /\ e.res = memo[x] /\ e.memo = memo
    BY <1>3, <1>5, <1>9, <2>1, FoundIs
  <2>3. ASSUME Sound(asts, memo) PROVE Agrees(memo[x], Eval(f, meaning))
    <3>1. (IsOk(memo[x]) <=> x \in DOMAIN meaning) /\ (IsOk(memo[x]) => memo[x] = meaning[x])
      BY <1>5, <2>3 DEF Sound, meaning
    <3> QED BY <1>0, <1>1, <1>2, <3>1 DEF Agrees
  <2> QED BY <1>5, <2>2, <2>3 DEF Right, meaning
<1>6. CASE memo[x] = Unresolved /\ x \notin DOMAIN asts
  <2>1. e = Found(Err("unknown"), memo)
    BY <1>6, <1>9 DEF EvalGlobal
  <2>2. e \in FoundType /\ e.res = Err("unknown") /\ e.memo = memo
    BY <1>0, <1>9, <2>1, FoundIs
  <2>3. Agrees(Err("unknown"), Eval(f, meaning))
    BY <1>0, <1>1, <1>2, <1>6 DEF Agrees
  <2> QED BY <1>6, <2>2, <2>3 DEF Right, meaning
<1>7. CASE memo[x] = Unresolved /\ x \in DOMAIN asts /\ x \in visiting
  <2>1. e = Found(Err("cycle"), memo)
    BY <1>7, <1>9 DEF EvalGlobal
  <2>2. e \in FoundType /\ e.res = Err("cycle") /\ e.memo = memo
    BY <1>0, <1>9, <2>1, FoundIs
  <2>3. ASSUME Grounded(asts, f, visiting) PROVE Agrees(Err("cycle"), Eval(f, meaning))
    <3>1. x \notin DOMAIN meaning
      BY <1>7, <1>9, <2>3, GroundedRef DEF meaning
    <3> QED BY <1>0, <1>1, <3>1 DEF Agrees
  <2> QED BY <1>7, <2>2, <2>3 DEF Right, meaning
<1>8. CASE memo[x] = Unresolved /\ x \in DOMAIN asts /\ x \notin visiting
  <2>1. e = Found(i.res, [i.memo EXCEPT ![x] = i.res])
    BY <1>8, <1>9 DEF EvalGlobal
  <2>2. inner \in Call /\ Right(asts, inner) /\ i \in FoundType
    <3>1. inner \in Call /\ Weight(inner) < Weight(c)
      BY <1>8, InnerCall
    <3> QED BY <3>1, EvalNodeIs
  <2>3. inner.node = asts[x] /\ inner.memo = memo /\ inner.visiting = visiting \union {x}
    BY DEF CallOn
  <2> HIDE DEF inner
  <2>4. /\ \A y \in Name : memo[y] # Unresolved => i.memo[y] = memo[y]
        /\ Sound(asts, memo) /\ Grounded(asts, asts[x], visiting \union {x}) =>
             Sound(asts, i.memo) /\ Agrees(i.res, Eval(asts[x], meaning))
    BY <2>2, <2>3 DEF Right, meaning
  <2> DEFINE m == [i.memo EXCEPT ![x] = i.res]
  <2> HIDE DEF i, x
  <2>10. x \in Name
    BY DEF x
  <2>5. m \in Memo /\ m[x] = i.res /\ (\A y \in Name \ {x} : m[y] = i.memo[y]) /\ i.res \in Result
    <3>1. m \in Memo /\ m[x] = i.res /\ \A y \in Name \ {x} : m[y] = i.memo[y]
      BY <2>2, <2>10, Remembered
    <3>2. i.res \in Result
      BY <2>2, FoundIs
    <3> QED BY <3>1, <3>2
  <2>6. e \in FoundType /\ e.res = i.res /\ e.memo = m
    BY <2>1, <2>5, FoundIs
  <2> HIDE DEF e, m
  <2>7. \A y \in Name : memo[y] # Unresolved => m[y] = memo[y]
    BY <1>8, <2>4, <2>5
  <2>8. m[x] # Unresolved
    BY <1>4, <2>5
  <2>9. ASSUME Sound(asts, memo), Grounded(asts, f, visiting)
        PROVE  Sound(asts, m) /\ Agrees(i.res, Eval(f, meaning))
    <3>1. Grounded(asts, asts[x], visiting \union {x})
      BY <1>8, <1>9, <2>9, GroundedRef DEF x
    <3>2. Sound(asts, i.memo) /\ Agrees(i.res, Eval(asts[x], meaning))
      BY <2>4, <2>9, <3>1
    <3>3. (IsOk(i.res) <=> x \in DOMAIN meaning) /\ (IsOk(i.res) => i.res = meaning[x])
      BY <1>2, <1>8, <3>2 DEF Agrees
    <3>4. Agrees(i.res, Eval(f, meaning))
      BY <1>0, <1>1, <1>2, <3>3 DEF Agrees
    <3>5. Sound(asts, m)
      <4>1. SUFFICES ASSUME NEW y \in Name, m[y] # Unresolved
            PROVE  /\ y \in DOMAIN asts
                   /\ IsOk(m[y]) <=> y \in DOMAIN meaning
                   /\ IsOk(m[y]) => m[y] = meaning[y]
        BY DEF Sound, meaning
      <4>2. CASE y = x
        BY <1>8, <2>5, <3>3, <4>2
      <4>3. CASE y # x
        <5>1. m[y] = i.memo[y]
          BY <2>5, <4>3
        <5> QED BY <3>2, <4>1, <5>1 DEF Sound, meaning
      <4> QED BY <4>2, <4>3
    <3> QED BY <3>4, <3>5
  <2> QED BY <2>6, <2>7, <2>8, <2>9 DEF Right, e, meaning, x
<1> QED BY <1>5, <1>6, <1>7, <1>8

\* Every call is answered right: what it finds is what the formula means, and the
\* memo it leaves is sound, by induction over the weight of calls.
LEMMA CallsRight ==
  ASSUME NEW asts, Globals(asts)
  PROVE  \A c \in Call : Right(asts, c)
<1> HIDE DEF IsOk, Unresolved, Err, Found, Ok
<1> DEFINE G == {c \in Call : Right(asts, c)}
           eval == EvalNode(asts)
           meaning == Meaning(asts)
<1>1. ASSUME NEW c \in Call, \A d \in Call : Weight(d) < Weight(c) => d \in G PROVE c \in G
  <2> DEFINE f == c.node
             memo == c.memo
             visiting == c.visiting
             e == eval[c]
  <2>0. /\ f \in Formula /\ memo \in Memo /\ visiting \in SUBSET Name
        /\ e = NodeStep(c, eval, asts) /\ e \in FoundType
    BY WeightType, EvalNodeIs
  <2>1. SUFFICES Right(asts, c)
    OBVIOUS
  <2>2. /\ "syntax" \in Errors
        /\ Known(meaning)
    BY MeaningFixed DEF Errors, Wise
  <2>3. \A d \in Call : Weight(d) < Weight(c) => Right(asts, d) /\ eval[d] \in FoundType
    BY <1>1, EvalNodeIs
  <2>4. \A part \in Formula : \A m \in Memo : Depth(part) < Depth(f) =>
          LET d == CallOn(part, m, visiting)
          IN  /\ d \in Call /\ Right(asts, d) /\ eval[d] \in FoundType
              /\ d.node = part /\ d.memo = m /\ d.visiting = visiting
    <3>1. \A part, m : LET d == CallOn(part, m, visiting)
                       IN  d.node = part /\ d.memo = m /\ d.visiting = visiting
      BY DEF CallOn
    <3> QED BY <2>3, <3>1, WeightOfPart
  <2> HIDE DEF G, meaning
  <2>5. ASSUME e.memo = memo, Agrees(e.res, Eval(f, meaning)) PROVE Right(asts, c)
    BY <2>5 DEF Right, meaning
  <2>6. CASE f.op = "num" /\ f.n \in Decimal
    <3>1. e = Found(Ok(f.n), memo) /\ Eval(f, meaning) = Ok(f.n) /\ Ok(f.n) \in Result
      BY <2>0, <2>6, NodeStepIs, EvalCases, ResultIs
    <3> QED BY <2>0, <2>5, <3>1, FoundIs DEF Agrees
  <2>7. CASE f.op = "bad"
    <3>1. e = Found(Err("syntax"), memo) /\ Eval(f, meaning) = Err("syntax") /\ Err("syntax") \in Result
      BY <2>0, <2>2, <2>7, NodeStepIs, EvalCases, ResultIs
    <3> QED BY <2>0, <2>5, <3>1, FoundIs DEF Agrees
  <2>8. CASE f.op = "ref" /\ f.name \in Name
    BY <2>3, <2>8, GlobalRight
  <2>9. CASE f.op = "neg" /\ f.a \in Formula /\ Depth(f.a) < Depth(f)
    <3> DEFINE d == CallOn(f.a, memo, visiting)
               a == eval[d]
    <3>1. /\ e = Found(Negated(a.res), a.memo)
          /\ Eval(f, meaning) = Negated(Eval(f.a, meaning))
      BY <2>0, <2>9, NodeStepIs, EvalCases
    <3>2. /\ d \in Call /\ Right(asts, d) /\ a \in FoundType
          /\ d.node = f.a /\ d.memo = memo /\ d.visiting = visiting
      BY <2>0, <2>4, <2>9
    <3> HIDE DEF d
    <3>3. /\ \A x \in Name : memo[x] # Unresolved => a.memo[x] = memo[x]
          /\ Sound(asts, memo) /\ Grounded(asts, f.a, visiting) =>
               Sound(asts, a.memo) /\ Agrees(a.res, Eval(f.a, meaning))
      BY <3>2 DEF Right, meaning
    <3> HIDE DEF a
    <3>4. /\ e.res = Negated(a.res) /\ e.memo = a.memo /\ a.res \in Result
          /\ Eval(f.a, meaning) \in Result
      BY <2>2, <2>9, <3>1, <3>2, FoundIs, NegatedIs, EvalType
    <3>5. Grounded(asts, f, visiting) => Grounded(asts, f.a, visiting)
      BY <2>0, <2>9, GroundedPart
    <3>6. Agrees(a.res, Eval(f.a, meaning)) => Agrees(e.res, Eval(f, meaning))
      BY <3>1, <3>4, NegatedAgrees
    <3> HIDE DEF e, f, memo, visiting
    <3> QED BY <3>3, <3>4, <3>5, <3>6 DEF Right, meaning, e, f, memo, visiting
  <2>10. CASE /\ f.op \in Operators
              /\ f.a \in Formula /\ f.b \in Formula /\ Depth(f.a) < Depth(f) /\ Depth(f.b) < Depth(f)
    <3> DEFINE d1 == CallOn(First(f), memo, visiting)
               first == eval[d1]
               d2 == CallOn(Second(f), first.memo, visiting)
               second == eval[d2]
               a == IF f.op = "/" THEN second.res ELSE first.res
               b == IF f.op = "/" THEN first.res ELSE second.res
    <3>0. /\ First(f) \in Formula /\ Depth(First(f)) < Depth(f)
          /\ Second(f) \in Formula /\ Depth(Second(f)) < Depth(f)
      BY <2>10 DEF First, Second
    <3>1. /\ d1 \in Call /\ Right(asts, d1) /\ first \in FoundType
          /\ d1.node = First(f) /\ d1.memo = memo /\ d1.visiting = visiting
      BY <2>0, <2>4, <3>0
    <3>2. first.memo \in Memo
      BY <3>1, FoundIs
    <3>3. /\ d2 \in Call /\ Right(asts, d2) /\ second \in FoundType
          /\ d2.node = Second(f) /\ d2.memo = first.memo /\ d2.visiting = visiting
      BY <2>4, <3>0, <3>2
    <3>4. /\ e = JoinedCalls(f.op, first, second)
          /\ Eval(f, meaning) = Joined(f.op, Eval(f.a, meaning), Eval(f.b, meaning), "overflow")
      BY <2>0, <2>10, NodeStepIs, EvalCases
    <3> HIDE DEF d1, d2
    <3>5. /\ \A x \in Name : memo[x] # Unresolved => first.memo[x] = memo[x]
          /\ Sound(asts, memo) /\ Grounded(asts, First(f), visiting) =>
               Sound(asts, first.memo) /\ Agrees(first.res, Eval(First(f), meaning))
      BY <3>1 DEF Right, meaning
    <3>6. /\ \A x \in Name : first.memo[x] # Unresolved => second.memo[x] = first.memo[x]
          /\ Sound(asts, first.memo) /\ Grounded(asts, Second(f), visiting) =>
               Sound(asts, second.memo) /\ Agrees(second.res, Eval(Second(f), meaning))
      BY <3>3 DEF Right, meaning
    <3> HIDE DEF first, second
    <3>7. /\ e.res = Joined(f.op, a, b, "panic")
          /\ e.memo = first.memo \/ e.memo = second.memo
      BY <2>10, <3>1, <3>3, <3>4, JoinedCallsIs
    <3>8. /\ a \in Result /\ b \in Result
          /\ Eval(f.a, meaning) \in Result /\ Eval(f.b, meaning) \in Result
      BY <2>2, <2>10, <3>1, <3>3, FoundIs, EvalType
    <3>9. Grounded(asts, f, visiting) => Grounded(asts, First(f), visiting) /\ Grounded(asts, Second(f), visiting)
      BY <2>0, <2>10, GroundedPart DEF First, Second
    <3>10. \A x \in Name : memo[x] # Unresolved => e.memo[x] = memo[x]
      BY <3>5, <3>6, <3>7
    <3>11. ASSUME Sound(asts, memo), Grounded(asts, f, visiting)
           PROVE  Sound(asts, e.memo) /\ Agrees(e.res, Eval(f, meaning))
      <4>1. /\ Sound(asts, first.memo) /\ Agrees(first.res, Eval(First(f), meaning))
            /\ Sound(asts, second.memo) /\ Agrees(second.res, Eval(Second(f), meaning))
        BY <3>5, <3>6, <3>9, <3>11
      <4>2. Agrees(a, Eval(f.a, meaning)) /\ Agrees(b, Eval(f.b, meaning))
        BY <4>1 DEF First, Second
      <4> HIDE DEF a, b
      <4>3. Agrees(e.res, Eval(f, meaning))
        BY <2>10, <3>4, <3>7, <3>8, <4>2, JoinedAgrees
      <4> QED BY <3>7, <4>1, <4>3
    <3> QED BY <3>10, <3>11 DEF Right, meaning
  <2> QED BY <2>0, <2>6, <2>7, <2>8, <2>9, <2>10, FormulaCases
<1>2. Call \subseteq G
  <2> HIDE DEF G
  <2> QED BY <1>1, CallInduction
<1> QED BY <1>2

----------------------------------------------------------------------------
\* A name is asked for as if a formula referred to it.
LEMMA AskedFor ==
  ASSUME NEW asts, Globals(asts), NEW x \in DOMAIN asts, NEW memo \in Memo
  PROVE  LET e == EvalGlobal(x, EvalNode(asts), asts, memo, {})
         IN  /\ e \in FoundType
             /\ \A y \in Name : memo[y] # Unresolved => e.memo[y] = memo[y]
             /\ Sound(asts, memo) => Sound(asts, e.memo)
             /\ e.memo[x] # Unresolved
<1> HIDE DEF Unresolved
<1> DEFINE c == CallOn(Ref(x), memo, {})
<1>1. Ref(x) \in Formula /\ Ref(x).op = "ref" /\ Ref(x).name = x /\ x \in Name
  <2>1. x \in Name
    BY DEF Globals
  <2>2. Ref(x) \in Leaves
    BY <2>1 DEF Leaves, Ref
  <2>3. 0 \in 0 .. MaxDepth
    BY DepthAssumption
  <2>4. Ref(x) \in Formula
    BY <2>2, <2>3, NestedIs, NestedGrows
  <2> QED BY <2>1, <2>4 DEF Ref
<1>2. c \in Call /\ c.node = Ref(x) /\ c.memo = memo /\ c.visiting = {}
  BY <1>1 DEF CallOn, Call
<1> HIDE DEF c
<1>3. EvalNode(asts)[c] = EvalGlobal(x, EvalNode(asts), asts, memo, {})
  <2>1. NodeStep(c, EvalNode(asts), asts) = EvalGlobal(x, EvalNode(asts), asts, memo, {})
    BY <1>1, <1>2, NodeStepIs
  <2> QED BY <1>2, <2>1, EvalNodeIs
<1>4. EvalNode(asts)[c] \in FoundType
  BY <1>2, EvalNodeIs
<1>5. Right(asts, c) /\ EvalNode(asts)[c].memo[x] # Unresolved
  <2>1. x \notin {}
    OBVIOUS
  <2> QED BY <1>1, <1>2, <2>1, CallsRight, GlobalRight
<1>6. Grounded(asts, c.node, c.visiting)
  BY <1>2 DEF Grounded
<1> QED BY <1>2, <1>3, <1>4, <1>5, <1>6 DEF Right

Asks(memo, asts) ==
  memo = [n \in 0 .. Len(Sorted) |->
            IF n = 0 THEN [name \in Name |-> Unresolved]
            ELSE IF Sorted[n] \notin DOMAIN asts THEN memo[n - 1]
            ELSE EvalGlobal(Sorted[n], EvalNode(asts), asts, memo[n - 1], {}).memo]

\* The list of names has every name.
LEMMA SortedType ==
  /\ Len(Sorted) \in Nat
  /\ \A n \in 1 .. Len(Sorted) : Sorted[n] \in Name
  /\ \A x \in Name : \E n \in 1 .. Len(Sorted) : Sorted[n] = x
<1>1. Sorted \in Seq(Name) /\ Range(Sorted) = Name
  BY NameAssumption DEF Listed
<1>2. Len(Sorted) \in Nat /\ DOMAIN Sorted = 1 .. Len(Sorted)
  BY <1>1
<1>3. \A x \in Name : \E n \in DOMAIN Sorted : Sorted[n] = x
  BY <1>1 DEF Range
<1>4. \A n \in DOMAIN Sorted : Sorted[n] \in Name
  BY <1>1 DEF Range
<1> QED BY <1>2, <1>3, <1>4

\* The memos of resolve_globals, name after name, are defined.
LEMMA AsksExists ==
  ASSUME NEW asts
  PROVE  \E memo : Asks(memo, asts)
<1> DEFINE Start == [name \in Name |-> Unresolved]
           On(n, m) == IF Sorted[n] \notin DOMAIN asts THEN m
                       ELSE EvalGlobal(Sorted[n], EvalNode(asts), asts, m, {}).memo
           P(n, f) == f = [i \in 0 .. n |-> IF i = 0 THEN Start ELSE On(i, f[i - 1])]
           S == {n \in Nat : \E f : P(n, f)}
<1>4. \A memo : Asks(memo, asts) <=> P(Len(Sorted), memo)
  BY DEF Asks
<1> HIDE DEF On, Start
<1>1. 0 \in S
  <2> DEFINE g == [i \in 0 .. 0 |-> Start]
  <2>1. P(0, g)
    OBVIOUS
  <2> QED BY <2>1
<1>2. ASSUME NEW n \in Nat, n \in S PROVE n + 1 \in S
  <2>1. PICK f : P(n, f)
    BY <1>2
  <2> DEFINE g == [i \in 0 .. n + 1 |-> IF i = n + 1 THEN On(n + 1, f[n]) ELSE f[i]]
  <2>2. DOMAIN f = 0 .. n /\ \A i \in 0 .. n : f[i] = IF i = 0 THEN Start ELSE On(i, f[i - 1])
    BY <2>1
  <2>3. \A i \in 0 .. n + 1 : g[i] = IF i = 0 THEN Start ELSE On(i, g[i - 1])
    BY <2>2
  <2>4. P(n + 1, g)
    BY <2>3
  <2> HIDE DEF g
  <2> QED BY <2>4
<1>3. Len(Sorted) \in S
  <2> HIDE DEF S
  <2> QED BY <1>1, <1>2, SetInduction, SortedType
<1> HIDE DEF P
<1>5. PICK memo : P(Len(Sorted), memo)
  BY <1>3
<1> QED BY <1>4, <1>5

\* What resolve_globals gives: the values the globals mean.
THEOREM ResolveRight ==
  ASSUME NEW asts, Globals(asts)
  PROVE  /\ ResolveGlobals(asts) \in [DOMAIN asts -> Result]
         /\ \A x \in DOMAIN asts :
              /\ IsOk(ResolveGlobals(asts)[x]) <=> x \in DOMAIN Meaning(asts)
              /\ IsOk(ResolveGlobals(asts)[x]) => ResolveGlobals(asts)[x] = Meaning(asts)[x]
<1> HIDE DEF Unresolved, IsOk
<1> DEFINE memo == CHOOSE m : Asks(m, asts)
           last == Len(Sorted)
<1>1. Asks(memo, asts)
  <2> HIDE DEF Asks
  <2> QED BY AsksExists
<1>2. ResolveGlobals(asts) = [name \in DOMAIN asts |-> memo[last][name]]
  BY DEF ResolveGlobals, Asks
<1> HIDE DEF memo
<1>3. /\ memo[0] = [name \in Name |-> Unresolved]
      /\ \A n \in 1 .. last : memo[n] =
           IF Sorted[n] \notin DOMAIN asts THEN memo[n - 1]
           ELSE EvalGlobal(Sorted[n], EvalNode(asts), asts, memo[n - 1], {}).memo
  <2>1. \A n \in 0 .. last : memo[n] =
          IF n = 0 THEN [name \in Name |-> Unresolved]
          ELSE IF Sorted[n] \notin DOMAIN asts THEN memo[n - 1]
          ELSE EvalGlobal(Sorted[n], EvalNode(asts), asts, memo[n - 1], {}).memo
    BY <1>1 DEF Asks
  <2>2. 0 \in 0 .. last /\ \A n \in 1 .. last : n \in 0 .. last /\ n # 0
    BY SortedType
  <2> QED BY <2>1, <2>2
<1> DEFINE Done(n) == /\ memo[n] \in Memo /\ Sound(asts, memo[n])
                      /\ \A k \in 1 .. n : Sorted[k] \in DOMAIN asts => memo[n][Sorted[k]] # Unresolved
           N == {n \in Nat : n <= last => Done(n)}
<1>4. 0 \in N
  <2>1. memo[0] \in Memo
    BY <1>3 DEF Memo
  <2>2. \A x \in Name : memo[0][x] = Unresolved
    BY <1>3
  <2>3. Sound(asts, memo[0])
    BY <2>2 DEF Sound
  <2> QED BY <2>1, <2>3
<1>5. ASSUME NEW n \in Nat, n \in N PROVE n + 1 \in N
  <2>1. SUFFICES ASSUME n + 1 <= last PROVE Done(n + 1)
    OBVIOUS
  <2> DEFINE x == Sorted[n + 1]
             e == EvalGlobal(x, EvalNode(asts), asts, memo[n], {})
  <2>2. n + 1 \in 1 .. last /\ (n + 1) - 1 = n /\ n <= last
    BY <2>1, SortedType
  <2>3. Done(n)
    BY <1>5, <2>2
  <2>4. memo[n + 1] = IF x \notin DOMAIN asts THEN memo[n] ELSE e.memo
    <3>1. memo[n + 1] = IF x \notin DOMAIN asts THEN memo[(n + 1) - 1]
                        ELSE EvalGlobal(x, EvalNode(asts), asts, memo[(n + 1) - 1], {}).memo
      BY <1>3, <2>2
    <3> QED BY <2>2, <3>1
  <2>5. \A k \in 1 .. n + 1 : Sorted[k] \in Name /\ (k = n + 1 \/ k \in 1 .. n)
    BY <2>1, SortedType
  <2>6. CASE x \notin DOMAIN asts
    <3>1. memo[n + 1] = memo[n]
      BY <2>4, <2>6
    <3> QED BY <2>3, <2>5, <2>6, <3>1
  <2>7. CASE x \in DOMAIN asts
    <3>1. /\ e \in FoundType
          /\ \A y \in Name : memo[n][y] # Unresolved => e.memo[y] = memo[n][y]
          /\ Sound(asts, e.memo)
          /\ e.memo[x] # Unresolved
      BY <2>3, <2>7, AskedFor
    <3>2. memo[n + 1] = e.memo /\ e.memo \in Memo
      BY <2>4, <2>7, <3>1, FoundIs
    <3> HIDE DEF e
    <3>3. \A k \in 1 .. n + 1 : Sorted[k] \in DOMAIN asts => memo[n + 1][Sorted[k]] # Unresolved
      BY <2>3, <2>5, <3>1, <3>2
    <3> QED BY <3>1, <3>2, <3>3
  <2> QED BY <2>6, <2>7
<1>6. Done(last)
  <2>1. Nat \subseteq N
    <3> HIDE DEF N
    <3> QED BY <1>4, <1>5, SetInduction
  <2>2. last \in Nat /\ last <= last
    BY SortedType
  <2> QED BY <2>1, <2>2
<1>7. ASSUME NEW x \in DOMAIN asts
      PROVE  /\ memo[last][x] \in Result
             /\ IsOk(memo[last][x]) <=> x \in DOMAIN Meaning(asts)
             /\ IsOk(memo[last][x]) => memo[last][x] = Meaning(asts)[x]
  <2>1. x \in Name
    BY DEF Globals
  <2>2. memo[last][x] # Unresolved
    BY <1>6, <1>7, <2>1, SortedType
  <2> QED BY <1>6, <2>1, <2>2 DEF Sound, Memo
<1> HIDE DEF Done
<1> QED BY <1>2, <1>7
=============================================================================
