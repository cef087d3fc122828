------------------------------ MODULE Induction ------------------------------
(***************************************************************************)
(* Induction over data, for the proofs about the model's operators on      *)
(* sequences and sets.  The library states induction for an operator,      *)
(* which no prover here can be given; here it is stated for a set, the     *)
(* set of the values a fact holds of.                                      *)
(*                                                                         *)
(* A fold of the community modules reaches the prover as CHOOSE of a       *)
(* function on the subsets of a set.  FoldExists shows that there is such  *)
(* a function, FoldPositions reads it as one value per position of a       *)
(* sequence, and FoldExtends relates the folds of a sequence and of the    *)
(* same sequence with one more element.  IsSum reads the sum of a set of   *)
(* weights, which picks its elements in an order nobody knows.             *)
(***************************************************************************)
EXTENDS Naturals, Sequences, FiniteSets, SequencesExt,
        WellFoundedInduction, FiniteSetTheorems, SequenceTheorems, TLAPS

\* A set of numbers that is not empty has a least one.
LEMMA LeastElement ==
  ASSUME NEW S \in SUBSET Nat, S # {}
  PROVE  \E n \in S : \A m \in S : n <= m
<1>1. PICK n \in S : \A m \in S : ~ (<<m, n>> \in OpToRel(<, Nat))
  BY NatLessThanWellFounded, WFMin, Zenon
<1>2. \A m \in S : ~(m < n)
  BY <1>1 DEF OpToRel
<1>3. QED
  BY <1>2

\* Induction over the natural numbers.
LEMMA InductionOverNat ==
  ASSUME NEW S, 0 \in S, \A n \in Nat : n \in S => n + 1 \in S
  PROVE  Nat \subseteq S
<1>1. SUFFICES ASSUME Nat \ S # {} PROVE FALSE
  OBVIOUS
<1>2. PICK n \in Nat \ S : \A m \in Nat \ S : n <= m
  BY <1>1, LeastElement
<1>3. n # 0 /\ n - 1 \in Nat /\ n - 1 \in S
  BY <1>2
<1>4. QED
  BY <1>2, <1>3

\* Induction over sequences, one element at the end at a time.
LEMMA InductionOverSeq ==
  ASSUME NEW T, NEW S, <<>> \in S,
         \A s \in Seq(T), x \in T : s \in S => Append(s, x) \in S
  PROVE  Seq(T) \subseteq S
<1> DEFINE Lengths == {n \in Nat : \A s \in Seq(T) : Len(s) = n => s \in S}
<1>1. 0 \in Lengths
  BY EmptySeq
<1>2. ASSUME NEW n \in Nat, n \in Lengths PROVE n + 1 \in Lengths
  <2>1. SUFFICES ASSUME NEW s \in Seq(T), Len(s) = n + 1 PROVE s \in S
    OBVIOUS
  <2>2. s # <<>>
    BY <2>1, EmptySeq
  <2>3. PICK r \in Seq(T), x \in T : s = Append(r, x)
    BY <2>2, SequenceEmptyOrAppend
  <2>4. Len(r) = n
    BY <2>1, <2>3, LenProperties, AppendProperties
  <2>5. QED
    BY <1>2, <2>3, <2>4
<1>3. Nat \subseteq Lengths
  <2> HIDE DEF Lengths
  <2> QED BY <1>1, <1>2, InductionOverNat
<1>4. QED
  BY <1>3, LenProperties

\* Induction over the subsets of a finite set, one element less at a time.
LEMMA InductionOverSubsets ==
  ASSUME NEW D, IsFiniteSet(D), NEW S,
         \A s \in SUBSET D : (\A x \in s : s \ {x} \in S) => s \in S
  PROVE  SUBSET D \subseteq S
<1> DEFINE Sizes == {n \in Nat : \A s \in SUBSET D : Cardinality(s) = n => s \in S}
<1>1. \A s \in SUBSET D : IsFiniteSet(s) /\ Cardinality(s) \in Nat
  BY FS_Subset, FS_CardinalityType
<1>2. 0 \in Sizes
  BY <1>1, FS_EmptySet
<1>3. ASSUME NEW n \in Nat, n \in Sizes PROVE n + 1 \in Sizes
  <2>1. SUFFICES ASSUME NEW s \in SUBSET D, Cardinality(s) = n + 1 PROVE s \in S
    OBVIOUS
  <2>2. ASSUME NEW x \in s PROVE s \ {x} \in S
    <3>1. IsFiniteSet(s)
      BY <1>1
    <3>2. Cardinality(s \ {x}) = Cardinality(s) - 1
      BY <3>1, FS_RemoveElement
    <3>3. QED
      BY <1>3, <2>1, <3>2
  <2>3. QED
    BY <2>2
<1>4. Nat \subseteq Sizes
  <2> HIDE DEF Sizes
  <2> QED BY <1>2, <1>3, InductionOverNat
<1>5. QED
  BY <1>1, <1>4

-----------------------------------------------------------------------------
(* Folds                                                                   *)

\* The value of a fold at the set s, when the fold of a smaller set is known:
\* pick says which element comes last.
FoldStep(c, step, pick, g, s) ==
  IF s = {} THEN c ELSE step[<<g[s \ {pick[s]}], pick[s]>>]

\* There is a fold over the subsets of D.
FoldDefined(T, c, D, step, pick) ==
  \E g \in [SUBSET D -> T] : \A s \in SUBSET D : g[s] = FoldStep(c, step, pick, g, s)

\* A fold over a finite set is defined, by induction on the size of its subsets.
LEMMA FoldExists ==
  ASSUME NEW T, NEW c \in T, NEW D, IsFiniteSet(D), NEW step \in [T \X D -> T],
         NEW pick, \A s \in SUBSET D : s # {} => pick[s] \in s
  PROVE  FoldDefined(T, c, D, step, pick)
<1> DEFINE UpTo(g, n) == \A s \in SUBSET D : Cardinality(s) <= n => g[s] = FoldStep(c, step, pick, g, s)
           S == {n \in Nat : \E g \in [SUBSET D -> T] : UpTo(g, n)}
<1>1. \A s \in SUBSET D : Cardinality(s) \in Nat /\ (Cardinality(s) = 0 <=> s = {})
  BY FS_Subset, FS_CardinalityType, FS_EmptySet
<1>2. ASSUME NEW s \in SUBSET D, s # {}
      PROVE  s \ {pick[s]} \in SUBSET D /\ Cardinality(s \ {pick[s]}) = Cardinality(s) - 1
  BY <1>2, FS_Subset, FS_RemoveElement
<1>3. 0 \in S
  <2> DEFINE g == [s \in SUBSET D |-> c]
  <2>1. g \in [SUBSET D -> T] /\ UpTo(g, 0)
    BY <1>1 DEF FoldStep
  <2>2. QED
    BY <2>1
<1>4. ASSUME NEW n \in Nat, n \in S PROVE n + 1 \in S
  <2>1. PICK g \in [SUBSET D -> T] : UpTo(g, n)
    BY <1>4
  <2> DEFINE h == [s \in SUBSET D |-> FoldStep(c, step, pick, g, s)]
  <2>2. h \in [SUBSET D -> T]
    <3>1. ASSUME NEW s \in SUBSET D PROVE FoldStep(c, step, pick, g, s) \in T
      <4>1. CASE s = {}
        BY <4>1 DEF FoldStep
      <4>2. CASE s # {}
        <5>1. g[s \ {pick[s]}] \in T /\ pick[s] \in D
          BY <1>2, <4>2
        <5>2. QED
          BY <4>2, <5>1 DEF FoldStep
      <4>3. QED
        BY <4>1, <4>2
    <3>2. QED
      BY <3>1
  <2>3. ASSUME NEW s \in SUBSET D, Cardinality(s) <= n PROVE h[s] = g[s]
    BY <2>1, <2>3
  <2>4. ASSUME NEW s \in SUBSET D, Cardinality(s) <= n + 1
        PROVE  h[s] = FoldStep(c, step, pick, h, s)
    <3>1. CASE s = {}
      BY <3>1 DEF FoldStep
    <3>2. CASE s # {}
      <4>1. s \ {pick[s]} \in SUBSET D /\ Cardinality(s \ {pick[s]}) <= n
        BY <1>1, <1>2, <2>4, <3>2
      <4>2. h[s \ {pick[s]}] = g[s \ {pick[s]}]
        BY <2>3, <4>1
      <4>3. QED
        BY <3>2, <4>2 DEF FoldStep
    <3>3. QED
      BY <3>1, <3>2
  <2>5. UpTo(h, n + 1)
    BY <2>4
  <2>6. QED
    <3> HIDE DEF h, UpTo
    <3> QED BY <2>2, <2>5
<1>5. PICK g \in [SUBSET D -> T] : UpTo(g, Cardinality(D))
  <2>1. Nat \subseteq S
    <3> HIDE DEF S
    <3> QED BY <1>3, <1>4, InductionOverNat
  <2>2. Cardinality(D) \in Nat
    BY FS_CardinalityType
  <2>3. QED
    BY <2>1, <2>2
<1>6. \A s \in SUBSET D : Cardinality(s) <= Cardinality(D)
  BY FS_Subset
<1>7. \A s \in SUBSET D : g[s] = FoldStep(c, step, pick, g, s)
  BY <1>5, <1>6
<1>8. QED
  BY <1>7 DEF FoldDefined

-----------------------------------------------------------------------------
(* Folds of a sequence                                                     *)

\* A set of positions up to n that has n in it has n as its greatest.
LEMMA MaxOf ==
  ASSUME NEW n \in Nat, NEW s \in SUBSET (1 .. n), n \in s
  PROVE  Max(s) = n
<1>1. \A y \in s : n >= y
  OBVIOUS
<1>2. \A x \in s : (\A y \in s : x >= y) => x = n
  OBVIOUS
<1>3. QED
  BY <1>1, <1>2 DEF Max

\* A set of positions that is not empty has a greatest one.
LEMMA MaxIn ==
  ASSUME NEW m \in Nat, NEW s \in SUBSET (1 .. m), s # {}
  PROVE  Max(s) \in s
<1> DEFINE Bounds == {k \in Nat : \A x \in s : x <= k}
<1>1. m \in Bounds
  OBVIOUS
<1>2. PICK k \in Bounds : \A j \in Bounds : k <= j
  <2>1. Bounds \in SUBSET Nat /\ Bounds # {}
    BY <1>1
  <2> HIDE DEF Bounds
  <2>2. QED
    BY <2>1, LeastElement
<1>3. k \in s
  <2>1. SUFFICES ASSUME k \notin s PROVE FALSE
    OBVIOUS
  <2>2. PICK x \in s : TRUE
    OBVIOUS
  <2>3. \A y \in s : y \in Nat \ {0} /\ y <= k /\ y # k
    BY <2>1
  <2>4. k # 0 /\ k - 1 \in Nat
    BY <2>2, <2>3
  <2>5. k - 1 \in Bounds
    BY <2>3, <2>4
  <2>6. QED
    BY <1>2, <2>4, <2>5
<1>4. \E x \in s : \A y \in s : x >= y
  BY <1>3
<1>5. QED
  BY <1>4 DEF Max

\* The fold of the positions up to m gives this value, one position at a time.
FoldRuns(T, c, m, step, value) ==
  \E f \in [0 .. m -> T] :
    f[0] = c /\ f[m] = value /\ \A i \in 1 .. m : f[i] = step[<<f[i - 1], i>>]

\* A fold that takes the greatest position last runs through the positions.
LEMMA FoldPositions ==
  ASSUME NEW T, NEW c \in T, NEW m \in Nat, NEW step \in [T \X (1 .. m) -> T],
         NEW g, g[{}] = c,
         \A s \in SUBSET (1 .. m) : s # {} /\ g[s \ {Max(s)}] \in T =>
            g[s] = step[<<g[s \ {Max(s)}], Max(s)>>]
  PROVE  FoldRuns(T, c, m, step, g[1 .. m])
<1> DEFINE f == [i \in 0 .. m |-> g[1 .. i]]
           S == {i \in Nat : i <= m => g[1 .. i] \in T}
<1>1. 1 .. 0 = {}
  OBVIOUS
<1>2. ASSUME NEW i \in 1 .. m, g[1 .. i - 1] \in T PROVE g[1 .. i] = step[<<g[1 .. i - 1], i>>]
  <2>1. Max(1 .. i) = i
    BY MaxOf
  <2>2. i \in 1 .. i /\ \A j : j \in (1 .. i) \ {i} <=> j \in 1 .. i - 1
    OBVIOUS
  <2>3. (1 .. i) \ {i} = 1 .. i - 1 /\ 1 .. i # {} /\ 1 .. i \in SUBSET (1 .. m)
    BY <2>2
  <2>4. QED
    BY <1>2, <2>1, <2>3
<1>3. \A i \in 0 .. m : g[1 .. i] \in T
  <2>1. 0 \in S
    BY <1>1
  <2>2. ASSUME NEW i \in Nat, i \in S PROVE i + 1 \in S
    <3>1. SUFFICES ASSUME i + 1 <= m PROVE g[1 .. i + 1] \in T
      OBVIOUS
    <3>2. g[1 .. i] \in T /\ i + 1 \in 1 .. m /\ (i + 1) - 1 = i
      BY <2>2, <3>1
    <3>3. g[1 .. i + 1] = step[<<g[1 .. i], i + 1>>]
      BY <1>2, <3>2
    <3>4. QED
      BY <3>2, <3>3
  <2>3. Nat \subseteq S
    <3> HIDE DEF S
    <3> QED BY <2>1, <2>2, InductionOverNat
  <2>4. QED
    BY <2>3
<1>4. f \in [0 .. m -> T] /\ f[0] = c /\ f[m] = g[1 .. m]
  BY <1>1, <1>3
<1>5. ASSUME NEW i \in 1 .. m PROVE f[i] = step[<<f[i - 1], i>>]
  BY <1>2, <1>3
<1>6. QED
  <2> HIDE DEF f
  <2> QED BY <1>4, <1>5 DEF FoldRuns

\* A fold over positions is defined when the greatest one comes last.
LEMMA FoldFromLeft ==
  ASSUME NEW T, NEW c \in T, NEW m \in Nat, NEW step \in [T \X (1 .. m) -> T]
  PROVE  FoldDefined(T, c, 1 .. m, step, [s \in SUBSET (1 .. m) |-> Max(s)])
<1> DEFINE pick == [s \in SUBSET (1 .. m) |-> Max(s)]
<1>1. \A s \in SUBSET (1 .. m) : s # {} => pick[s] \in s
  BY MaxIn
<1>2. IsFiniteSet(1 .. m)
  BY FS_Interval
<1> HIDE DEF pick
<1>3. FoldDefined(T, c, 1 .. m, step, pick)
  BY <1>1, <1>2, FoldExists
<1>4. QED
  BY <1>3 DEF pick

\* The fold of no positions is where it starts.
LEMMA FoldOfNone ==
  ASSUME NEW T, NEW c, NEW step, NEW value, FoldRuns(T, c, 0, step, value)
  PROVE  value = c
  BY DEF FoldRuns

\* What a fold gives has its type.
LEMMA FoldType ==
  ASSUME NEW T, NEW c, NEW m \in Nat, NEW step, NEW value, FoldRuns(T, c, m, step, value)
  PROVE  value \in T
  BY DEF FoldRuns

\* One more position takes one more step.
LEMMA FoldExtends ==
  ASSUME NEW T, NEW c, NEW m \in Nat, NEW step, NEW longer, NEW value, NEW last,
         FoldRuns(T, c, m, step, value), FoldRuns(T, c, m + 1, longer, last),
         \A a \in T, i \in 1 .. m : longer[<<a, i>>] = step[<<a, i>>]
  PROVE  last = longer[<<value, m + 1>>]
<1>1. PICK f \in [0 .. m -> T] :
        f[0] = c /\ f[m] = value /\ \A i \in 1 .. m : f[i] = step[<<f[i - 1], i>>]
  BY DEF FoldRuns
<1>2. PICK g \in [0 .. m + 1 -> T] :
        g[0] = c /\ g[m + 1] = last /\ \A i \in 1 .. m + 1 : g[i] = longer[<<g[i - 1], i>>]
  BY DEF FoldRuns
<1> DEFINE S == {i \in Nat : i <= m => g[i] = f[i]}
<1>3. 0 \in S
  BY <1>1, <1>2
<1>4. ASSUME NEW i \in Nat, i \in S PROVE i + 1 \in S
  <2>1. SUFFICES ASSUME i + 1 <= m PROVE g[i + 1] = f[i + 1]
    OBVIOUS
  <2>2. g[i] = f[i] /\ f[i] \in T /\ i + 1 \in 1 .. m /\ i + 1 \in 1 .. m + 1 /\ (i + 1) - 1 = i
    BY <1>4, <2>1
  <2>3. g[i + 1] = longer[<<f[i], i + 1>>] /\ f[i + 1] = step[<<f[i], i + 1>>]
    BY <1>1, <1>2, <2>2
  <2>4. QED
    BY <2>2, <2>3
<1>5. m \in S
  <2>1. Nat \subseteq S
    <3> HIDE DEF S
    <3> QED BY <1>3, <1>4, InductionOverNat
  <2>2. QED
    BY <2>1
<1>6. g[m] = f[m] /\ m + 1 \in 1 .. m + 1 /\ (m + 1) - 1 = m
  BY <1>5
<1>7. QED
  BY <1>1, <1>2, <1>6

-----------------------------------------------------------------------------
(* Sums over the subsets of a finite set                                   *)

\* The element of a set that the sum takes first.
Chosen(s) == CHOOSE x \in s : TRUE

\* What MapThenSumSet computes: the sum of the weights of every subset of D.
IsSum(sum, weight, D) ==
  /\ sum \in [SUBSET D -> Nat]
  /\ \A s \in SUBSET D :
       sum[s] = IF s = {} THEN 0 ELSE weight[Chosen(s)] + sum[s \ {Chosen(s)}]

\* The chosen element of a set that has any is one of them.
LEMMA ChosenIn == ASSUME NEW s, s # {} PROVE Chosen(s) \in s
  BY DEF Chosen

\* Such a sum exists.
LEMMA SumExists ==
  ASSUME NEW D, IsFiniteSet(D), NEW weight \in [D -> Nat]
  PROVE  \E sum : IsSum(sum, weight, D)
<1> DEFINE c == 0
           step == [x \in Nat \X D |-> weight[x[2]] + x[1]]
           pick == [s \in SUBSET D |-> Chosen(s)]
<1>1. step \in [Nat \X D -> Nat] /\ c \in Nat
  OBVIOUS
<1>2. \A s \in SUBSET D : s # {} => pick[s] \in s
  BY ChosenIn
<1>3. \A a \in Nat, x \in D : step[<<a, x>>] = weight[x] + a
  OBVIOUS
<1> HIDE DEF c, step
<1>4. FoldDefined(Nat, c, D, step, pick)
  <2> HIDE DEF pick
  <2> QED BY <1>1, <1>2, FoldExists
<1>5. PICK g \in [SUBSET D -> Nat] : \A s \in SUBSET D : g[s] = FoldStep(c, step, pick, g, s)
  BY <1>4 DEF FoldDefined
<1>6. ASSUME NEW s \in SUBSET D
      PROVE  g[s] = IF s = {} THEN 0 ELSE weight[Chosen(s)] + g[s \ {Chosen(s)}]
  <2>1. CASE s = {}
    BY <1>5, <2>1 DEF FoldStep, c
  <2>2. CASE s # {}
    <3>1. Chosen(s) \in D /\ g[s \ {Chosen(s)}] \in Nat /\ pick[s] = Chosen(s)
      BY <2>2, ChosenIn
    <3>2. g[s] = step[<<g[s \ {Chosen(s)}], Chosen(s)>>]
      BY <1>5, <2>2, <3>1 DEF FoldStep
    <3>3. QED
      BY <1>3, <2>2, <3>1, <3>2
  <2>3. QED
    BY <2>1, <2>2
<1>7. QED
  BY <1>6 DEF IsSum

\* A sum may take any of its elements first, not only the chosen one.
TakesAny(sum, weight, D) ==
  \A s \in SUBSET D : \A y \in s : sum[s] = weight[y] + sum[s \ {y}]

\* By induction on the set: two elements can be taken in either order.
LEMMA SumTakesAny ==
  ASSUME NEW D, IsFiniteSet(D), NEW weight \in [D -> Nat], NEW sum, IsSum(sum, weight, D)
  PROVE  TakesAny(sum, weight, D)
<1> DEFINE S == {s \in SUBSET D : \A y \in s : sum[s] = weight[y] + sum[s \ {y}]}
<1>1. /\ \A s \in SUBSET D : sum[s] \in Nat
      /\ \A s \in SUBSET D : s # {} => sum[s] = weight[Chosen(s)] + sum[s \ {Chosen(s)}]
  BY DEF IsSum
<1>2. ASSUME NEW s \in SUBSET D, \A x \in s : s \ {x} \in S PROVE s \in S
  <2> SUFFICES ASSUME NEW y \in s PROVE sum[s] = weight[y] + sum[s \ {y}]
    OBVIOUS
  <2>1. PICK x \in s : sum[s] = weight[x] + sum[s \ {x}]
    <3>1. s # {}
      OBVIOUS
    <3>2. QED
      BY <1>1, <3>1, ChosenIn
  <2>2. CASE y = x
    BY <2>1, <2>2
  <2>3. CASE y # x
    <3>1. sum[s \ {x}] = weight[y] + sum[(s \ {x}) \ {y}]
      BY <1>2, <2>3
    <3>2. sum[s \ {y}] = weight[x] + sum[(s \ {y}) \ {x}]
      BY <1>2, <2>3
    <3>3. (s \ {x}) \ {y} = (s \ {y}) \ {x} /\ (s \ {x}) \ {y} \in SUBSET D
      OBVIOUS
    <3>4. PICK rest \in Nat : rest = sum[(s \ {x}) \ {y}]
      BY <1>1, <3>3
    <3>5. weight[x] \in Nat /\ weight[y] \in Nat
      OBVIOUS
    <3>6. sum[s] = weight[x] + (weight[y] + rest) /\ sum[s \ {y}] = weight[x] + rest
      BY <2>1, <3>1, <3>2, <3>3, <3>4
    <3>7. QED
      BY <3>5, <3>6
  <2>4. QED
    BY <2>2, <2>3
<1>3. SUBSET D \subseteq S
  <2> HIDE DEF S
  <2> QED BY <1>2, InductionOverSubsets
<1>4. QED
  BY <1>3 DEF TakesAny

\* A smaller set has no greater sum.
LEMMA SumMonotone ==
  ASSUME NEW D, IsFiniteSet(D), NEW weight \in [D -> Nat], NEW sum, IsSum(sum, weight, D)
  PROVE  \A t \in SUBSET D, s \in SUBSET D : s \subseteq t => sum[s] <= sum[t]
<1> DEFINE S == {t \in SUBSET D : \A s \in SUBSET D : s \subseteq t => sum[s] <= sum[t]}
<1>1. /\ \A s \in SUBSET D : sum[s] \in Nat
      /\ TakesAny(sum, weight, D)
  <2>1. \A s \in SUBSET D : sum[s] \in Nat
    BY DEF IsSum
  <2>2. TakesAny(sum, weight, D)
    BY SumTakesAny
  <2>3. QED
    BY <2>1, <2>2, Zenon
<1>2. ASSUME NEW t \in SUBSET D, \A x \in t : t \ {x} \in S PROVE t \in S
  <2> SUFFICES ASSUME NEW s \in SUBSET D, s \subseteq t PROVE sum[s] <= sum[t]
    OBVIOUS
  <2>1. CASE s = t
    BY <1>1, <2>1
  <2>2. CASE s # t
    <3>1. PICK x \in t : x \notin s
      BY <2>2
    <3>2. s \subseteq t \ {x} /\ t \ {x} \in S
      BY <1>2, <3>1
    <3>3. sum[s] <= sum[t \ {x}]
      BY <3>2
    <3>4. /\ sum[t] = weight[x] + sum[t \ {x}]
          /\ weight[x] \in Nat /\ sum[t \ {x}] \in Nat /\ sum[s] \in Nat
      BY <1>1 DEF TakesAny
    <3>5. QED
      BY <3>3, <3>4
  <2>3. QED
    BY <2>1, <2>2
<1>3. SUBSET D \subseteq S
  <2> HIDE DEF S
  <2> QED BY <1>2, InductionOverSubsets
<1>4. QED
  BY <1>3

\* Sums of the same weights agree on the sets both know.
LEMMA SumAgrees ==
  ASSUME NEW D, NEW weight, NEW sum, IsSum(sum, weight, D),
         NEW E \in SUBSET D, IsFiniteSet(E), NEW other, NEW less, IsSum(less, other, E),
         \A x \in E : other[x] = weight[x]
  PROVE  less[E] = sum[E]
<1> DEFINE S == {s \in SUBSET E : less[s] = sum[s]}
<1>1. ASSUME NEW s \in SUBSET E, \A x \in s : s \ {x} \in S PROVE s \in S
  <2>1. CASE s = {}
    BY <2>1 DEF IsSum
  <2>2. CASE s # {}
    <3>1. Chosen(s) \in s
      BY <2>2, ChosenIn
    <3>2. less[s \ {Chosen(s)}] = sum[s \ {Chosen(s)}] /\ other[Chosen(s)] = weight[Chosen(s)]
      BY <1>1, <3>1
    <3>3. /\ less[s] = other[Chosen(s)] + less[s \ {Chosen(s)}]
          /\ sum[s] = weight[Chosen(s)] + sum[s \ {Chosen(s)}]
      BY <2>2 DEF IsSum
    <3>4. QED
      BY <3>2, <3>3
  <2>3. QED
    BY <2>1, <2>2
<1>2. SUBSET E \subseteq S
  <2> HIDE DEF S
  <2> QED BY <1>1, InductionOverSubsets
<1>3. QED
  BY <1>2
=============================================================================
