----------------------------- MODULE FoldProofs -----------------------------
(***************************************************************************)
(* Induction over numbers and finite sets, and what a fold over a sequence *)
(* and a sum over a finite set are, for the proofs about functions that    *)
(* run over their input.  A property to be shown by induction is given as  *)
(* the set of the numbers, or sets, that have it.                          *)
(***************************************************************************)
EXTENDS Integers, Sequences, SequencesExt, FiniteSetTheorems,
        WellFoundedInduction, TLAPS

(* A set of numbers with a bound has a largest one. *)
LEMMA LargestBelow ==
    ASSUME NEW m \in Int, NEW S, S \subseteq Int, S # {},
           \A k \in S : k <= m
    PROVE  \E k \in S : \A j \in S : j <= k
  <1> DEFINE T == {m - k : k \in S}
  <1>1. T \subseteq Nat /\ T # {}
    <2>1. \A k \in S : m - k \in Nat
      OBVIOUS
    <2>2. T # {}
      OBVIOUS
    <2>3. QED  BY <2>1, <2>2
  <1> HIDE DEF T
  <1>2. PICK x \in T : \A y \in T : ~(<<y, x>> \in OpToRel(<, Nat))
    BY <1>1, NatLessThanWellFounded, WFMin
  <1>3. \A y \in T : ~(y < x)
    BY <1>1, <1>2 DEF OpToRel
  <1>4. PICK k \in S : x = m - k
    BY DEF T
  <1>5. \A j \in S : m - j \in T
    BY DEF T
  <1>6. \A j \in S : j <= k
    BY <1>3, <1>4, <1>5
  <1>7. QED  BY <1>6

(* A sequence has its elements from its set, by position. *)
LEMMA SeqElements ==
    ASSUME NEW S, NEW s \in Seq(S)
    PROVE  /\ Len(s) \in Nat /\ DOMAIN s = 1 .. Len(s)
           /\ \A i \in 1 .. Len(s) : s[i] \in S
  OBVIOUS

(* A set of natural numbers has a smallest one. *)
LEMMA SmallestOf ==
    ASSUME NEW S, S \subseteq Nat, S # {}
    PROVE  \E k \in S : \A j \in S : k <= j
  <1>1. PICK k \in S : \A j \in S : ~(<<j, k>> \in OpToRel(<, Nat))
    BY NatLessThanWellFounded, WFMin
  <1>2. \A j \in S : ~(j < k)
    BY <1>1 DEF OpToRel
  <1>3. QED  BY <1>2

LEMMA NumberInduction ==
    ASSUME NEW N, 0 \in N, \A n \in Nat : n \in N => n + 1 \in N
    PROVE  \A n \in Nat : n \in N
  <1> DEFINE T == Nat \ N
  <1>1. SUFFICES ASSUME T # {} PROVE FALSE
    OBVIOUS
  <1>2. PICK x \in T : \A y \in T : ~(<<y, x>> \in OpToRel(<, Nat))
    BY <1>1, NatLessThanWellFounded, WFMin
  <1>3. \A y \in T : ~(y < x)
    BY <1>2 DEF OpToRel
  <1>4. x # 0 /\ x - 1 \in Nat /\ x - 1 \notin T
    BY <1>3
  <1>5. QED  BY <1>4

LEMMA SetInduction ==
    ASSUME NEW S, IsFiniteSet(S), NEW Good, {} \in Good,
           \A T \in SUBSET S, x \in S : T \in Good /\ x \notin T => T \cup {x} \in Good
    PROVE  S \in Good
  <1> DEFINE N == {n \in Nat : \A T \in SUBSET S : Cardinality(T) = n => T \in Good}
  <1>1. \A T \in SUBSET S : IsFiniteSet(T) /\ Cardinality(T) \in Nat
    BY FS_Subset, FS_CardinalityType
  <1>2. 0 \in N
    BY <1>1, FS_EmptySet
  <1>3. ASSUME NEW n \in Nat, n \in N PROVE n + 1 \in N
    <2> SUFFICES ASSUME NEW T \in SUBSET S, Cardinality(T) = n + 1 PROVE T \in Good
      OBVIOUS
    <2>1. PICK x : x \in T
      BY <1>1, FS_EmptySet
    <2>2. Cardinality(T \ {x}) = n
      <3> HIDE DEF N
      <3>1. IsFiniteSet(T)
        BY <1>1
      <3>2. Cardinality(T \ {x}) = Cardinality(T) - 1
        BY <2>1, <3>1, FS_RemoveElement
      <3>3. QED  BY <3>2
    <2>3. T \ {x} \in Good
      BY <1>3, <2>2
    <2>4. (T \ {x}) \cup {x} = T
      BY <2>1
    <2>5. QED  BY <2>1, <2>3, <2>4
  <1>4. \A n \in Nat : n \in N
    <2> HIDE DEF N
    <2>1. QED  BY <1>2, <1>3, NumberInduction
  <1>5. QED  BY <1>1, <1>4

(* The same, with the element that is taken out of a set being a given one. *)
Inductive(S, pick, Good) ==
    /\ IsFiniteSet(S)
    /\ {} \in Good
    /\ \A T \in SUBSET S : T # {} =>
          pick[T] \in T /\ (T \ {pick[T]} \in Good => T \in Good)

LEMMA PickInduction ==
    ASSUME NEW S, NEW pick, NEW Good, Inductive(S, pick, Good)
    PROVE  S \in Good
  <1> USE DEF Inductive
  <1> DEFINE N == {n \in Nat : \A T \in SUBSET S : Cardinality(T) = n => T \in Good}
  <1>1. \A T \in SUBSET S : IsFiniteSet(T) /\ Cardinality(T) \in Nat
    BY FS_Subset, FS_CardinalityType
  <1>2. 0 \in N
    BY <1>1, FS_EmptySet
  <1>3. ASSUME NEW n \in Nat, n \in N PROVE n + 1 \in N
    <2> SUFFICES ASSUME NEW T \in SUBSET S, Cardinality(T) = n + 1 PROVE T \in Good
      OBVIOUS
    <2>1. T # {} /\ pick[T] \in T
      <3>1. T # {}
        BY <1>1, FS_EmptySet
      <3>2. QED  BY <3>1
    <2>2. Cardinality(T \ {pick[T]}) = Cardinality(T) - 1
      <3>1. IsFiniteSet(T)
        BY <1>1
      <3> HIDE DEF N
      <3>2. QED  BY <2>1, <3>1, FS_RemoveElement
    <2>3. T \ {pick[T]} \in Good
      BY <1>3, <2>2
    <2>4. QED  BY <2>1, <2>3
  <1>4. \A n \in Nat : n \in N
    <2> HIDE DEF N
    <2>1. QED  BY <1>2, <1>3, NumberInduction
  <1>5. QED  BY <1>1, <1>4

(* A fold over a finite set is what its recursive equation says.           *)
Foldable(S, V, base, pick, F) ==
    /\ IsFiniteSet(S)
    /\ base \in V
    /\ \A T \in SUBSET S : T # {} => pick[T] \in T
    /\ \A x \in S, v \in V : F[x][v] \in V

IsFold(g, S, V, base, pick, F) ==
    /\ g \in [SUBSET S -> V]
    /\ \A T \in SUBSET S :
          g[T] = IF T = {} THEN base ELSE F[pick[T]][g[T \ {pick[T]}]]

LEMMA FoldExists ==
    ASSUME NEW S, NEW V, NEW base, NEW pick, NEW F, Foldable(S, V, base, pick, F)
    PROVE  \E g : IsFold(g, S, V, base, pick, F)
  <1> USE DEF Foldable
  <1> DEFINE Level(n) == {T \in SUBSET S : Cardinality(T) <= n}
             Upto(n, g) ==
                /\ g \in [Level(n) -> V]
                /\ \A T \in Level(n) :
                      g[T] = IF T = {} THEN base ELSE F[pick[T]][g[T \ {pick[T]}]]
             N == {n \in Nat : \E g : Upto(n, g)}
  <1>1. \A T \in SUBSET S : IsFiniteSet(T) /\ Cardinality(T) \in Nat
    BY FS_Subset, FS_CardinalityType
  <1>2. \A T \in SUBSET S : T # {} => Cardinality(T \ {pick[T]}) = Cardinality(T) - 1
    BY <1>1, FS_RemoveElement
  <1>3. 0 \in N
    <2>1. \A T \in Level(0) : T = {}
      BY <1>1, FS_EmptySet
    <2>2. Upto(0, [T \in Level(0) |-> base])
      BY <2>1
    <2>3. QED  BY <2>2
  <1>4. ASSUME NEW n \in Nat, n \in N PROVE n + 1 \in N
    <2>1. PICK g : Upto(n, g)
      BY <1>4
    <2> DEFINE h == [T \in Level(n + 1) |->
                       IF T = {} THEN base ELSE F[pick[T]][g[T \ {pick[T]}]]]
    <2>2. \A T \in Level(n + 1) : T # {} => T \ {pick[T]} \in Level(n)
      BY <1>1, <1>2
    <2>3. Level(n) \subseteq Level(n + 1)
      BY <1>1
    <2>4. \A T \in Level(n) : h[T] = g[T]
      BY <2>1, <2>3
    <2>5. h \in [Level(n + 1) -> V]
      BY <2>1, <2>2
    <2>6. \A T \in Level(n + 1) : T # {} => h[T \ {pick[T]}] = g[T \ {pick[T]}]
      BY <2>2, <2>4
    <2>7. Upto(n + 1, h)
      <3> HIDE DEF Level
      <3>1. QED  BY <2>5, <2>6
    <2>8. QED
      <3> HIDE DEF h, Upto
      <3>1. QED  BY <2>7
  <1>5. Cardinality(S) \in N
    <2> HIDE DEF N
    <2>1. QED  BY <1>1, <1>3, <1>4, NumberInduction
  <1>6. Level(Cardinality(S)) = SUBSET S
    BY <1>1, FS_Subset
  <1>7. QED  BY <1>5, <1>6 DEF IsFold
LEMMA MaxIn ==
    ASSUME NEW n \in Nat
    PROVE  /\ \A T \in SUBSET (1 .. n) : T # {} => Max(T) \in T
           /\ \A i \in 1 .. n : Max(1 .. i) = i
  <1>1. ASSUME NEW T \in SUBSET (1 .. n), T # {} PROVE Max(T) \in T
    <2>1. \E k \in T : \A j \in T : j <= k
      <3>1. n \in Int /\ T \subseteq Int /\ \A k \in T : k <= n
        OBVIOUS
      <3>2. QED  BY <1>1, <3>1, LargestBelow
    <2>2. \E k \in T : \A j \in T : k >= j
      BY <2>1
    <2>3. QED  BY <2>2 DEF Max
  <1>2. ASSUME NEW i \in 1 .. n PROVE Max(1 .. i) = i
    <2>1. i \in 1 .. i /\ \A y \in 1 .. i : i >= y
      OBVIOUS
    <2>2. \A x \in 1 .. i : (\A y \in 1 .. i : x >= y) => x = i
      OBVIOUS
    <2>3. QED  BY <2>1, <2>2 DEF Max
  <1>3. QED  BY <1>1, <1>2

Scannable(n, V, base, F) ==
    /\ n \in Nat
    /\ base \in V
    /\ \A i \in 1 .. n, v \in V : F[i][v] \in V

IsScan(g, n, V, base, F) ==
    /\ g \in [SUBSET (1 .. n) -> V]
    /\ \A T \in SUBSET (1 .. n) :
          g[T] = IF T = {} THEN base ELSE F[Max(T)][g[T \ {Max(T)}]]

LEMMA ScanExists ==
    ASSUME NEW n, NEW V, NEW base, NEW F, Scannable(n, V, base, F)
    PROVE  \E g : IsScan(g, n, V, base, F)
  <1> DEFINE pick == [T \in SUBSET (1 .. n) |-> Max(T)]
  <1>0. n \in Nat
    BY DEF Scannable
  <1>1. IsFiniteSet(1 .. n)
    BY <1>0, FS_Interval
  <1>2. \A T \in SUBSET (1 .. n) : pick[T] = Max(T)
    OBVIOUS
  <1>3. \A T \in SUBSET (1 .. n) : T # {} => pick[T] \in T
    BY <1>0, <1>2, MaxIn
  <1> HIDE DEF pick
  <1>4. Foldable(1 .. n, V, base, pick, F)
    BY <1>1, <1>3 DEF Foldable, Scannable
  <1>5. PICK g : IsFold(g, 1 .. n, V, base, pick, F)
    BY <1>4, FoldExists
  <1>6. IsScan(g, n, V, base, F)
    BY <1>2, <1>5 DEF IsFold, IsScan
  <1>7. QED  BY <1>6

(* The sets of the first numbers, one after the other. *)
LEMMA FirstNumbers ==
    ASSUME NEW n \in Nat
    PROVE  /\ {} \in SUBSET (1 .. n)
           /\ 1 .. 0 = {}
           /\ \A i \in 1 .. n : /\ 1 .. i \in SUBSET (1 .. n)
                                /\ 1 .. i # {}
                                /\ Max(1 .. i) = i
                                /\ (1 .. i) \ {Max(1 .. i)} = 1 .. (i - 1)
  <1>1. ASSUME NEW i \in 1 .. n
        PROVE  /\ 1 .. i \in SUBSET (1 .. n)
               /\ 1 .. i # {}
               /\ Max(1 .. i) = i
               /\ (1 .. i) \ {Max(1 .. i)} = 1 .. (i - 1)
    <2>1. 1 .. i \in SUBSET (1 .. n)
      OBVIOUS
    <2>2. i \in 1 .. i
      OBVIOUS
    <2>3. Max(1 .. i) = i
      BY MaxIn
    <2>4. (1 .. i) \ {i} = 1 .. (i - 1)
      OBVIOUS
    <2>5. QED  BY <2>1, <2>2, <2>3, <2>4
  <1>2. 1 .. 0 = {}
    OBVIOUS
  <1>3. QED  BY <1>1, <1>2

-----------------------------------------------------------------------------
(* Sums over finite sets. *)

Total(a, S) == MapThenSumSet(LAMBDA i : a[i], S)

Numbers(a, S) == IsFiniteSet(S) /\ \A i \in S : a[i] \in Int

AnyOf(S) == [T \in SUBSET S |-> CHOOSE x \in T : TRUE]
Adds(a, S) == [x \in S |-> [v \in Int |-> a[x] + v]]

LEMMA SumExists ==
    ASSUME NEW S, NEW a, Numbers(a, S)
    PROVE  \E g : IsFold(g, S, Int, 0, AnyOf(S), Adds(a, S))
  <1>1. Foldable(S, Int, 0, AnyOf(S), Adds(a, S))
    BY DEF Foldable, Numbers, AnyOf, Adds
  <1>2. QED  BY <1>1, FoldExists

LEMMA SumSteps ==
    ASSUME NEW S, NEW a, Numbers(a, S), NEW g,
           IsFold(g, S, Int, 0, AnyOf(S), Adds(a, S)), NEW U \in SUBSET S, U # {}
    PROVE  LET x == CHOOSE x \in U : TRUE IN x \in U /\ g[U] = a[x] + g[U \ {x}]
  <1> DEFINE x == CHOOSE x \in U : TRUE
  <1>1. g[U] = Adds(a, S)[AnyOf(S)[U]][g[U \ {AnyOf(S)[U]}]]
    BY DEF IsFold
  <1>2. AnyOf(S)[U] = x /\ x \in U
    BY DEF AnyOf
  <1>3. g[U \ {x}] \in Int
    BY DEF IsFold
  <1>4. QED  BY <1>1, <1>2, <1>3 DEF Adds

LEMMA SmallerSet ==
    ASSUME NEW S, NEW a, Numbers(a, S)
    PROVE  \A U \in SUBSET S :
              /\ IsFiniteSet(U) /\ Cardinality(U) \in Nat
              /\ U = {} <=> Cardinality(U) = 0
              /\ \A x \in U : Cardinality(U \ {x}) = Cardinality(U) - 1
  BY FS_Subset, FS_CardinalityType, FS_RemoveElement, FS_EmptySet DEF Numbers

(* What the recursive equation of a sum says of one set, it says of its    *)
(* subsets.                                                                *)
LEMMA TotalIs ==
    ASSUME NEW S, NEW a, Numbers(a, S), NEW g,
           IsFold(g, S, Int, 0, AnyOf(S), Adds(a, S)), NEW T \in SUBSET S
    PROVE  Total(a, T) = g[T]
  <1> DEFINE any(U) == CHOOSE x \in U : TRUE
             Eq(f) == f = [U \in SUBSET T |-> IF U = {} THEN 0
                             ELSE a[any(U)] + f[U \ {any(U)}]]
             it == CHOOSE f : Eq(f)
             r == [U \in SUBSET T |-> g[U]]
             N == {n \in Nat : \A U \in SUBSET T : Cardinality(U) = n => it[U] = g[U]}
  <1> HIDE DEF it, Eq, r, N
  <1>1. Total(a, T) = it[T]
    BY DEF Total, MapThenSumSet, MapThenFoldSet, it, Eq
  <1>2. \A U \in SUBSET S : U # {} => any(U) \in U
    OBVIOUS
  <1>3. \A U \in SUBSET S :
          g[U] = IF U = {} THEN 0 ELSE a[any(U)] + g[U \ {any(U)}]
    <2>1. g[{}] = 0
      BY DEF IsFold
    <2>2. QED  BY <2>1, SumSteps
  <1>4. Eq(r)
    <2>1. \A U \in SUBSET T : U \ {any(U)} \in SUBSET T
      OBVIOUS
    <2>2. QED  BY <1>3, <2>1 DEF Eq, r
  <1>5. Eq(it)
    BY <1>4 DEF it
  <1>6. \A U \in SUBSET T : it[U] = IF U = {} THEN 0 ELSE a[any(U)] + it[U \ {any(U)}]
    BY <1>5 DEF Eq
  <1>7. 0 \in N
    BY <1>3, <1>6, SmallerSet DEF N
  <1>8. ASSUME NEW n \in Nat, n \in N PROVE n + 1 \in N
    <2> SUFFICES ASSUME NEW U \in SUBSET T, Cardinality(U) = n + 1
                 PROVE  it[U] = g[U]
      BY DEF N
    <2>1. U # {}
      BY SmallerSet
    <2>2. Cardinality(U \ {any(U)}) = n /\ U \ {any(U)} \in SUBSET T
      <3>1. any(U) \in U /\ U \in SUBSET S
        BY <1>2, <2>1
      <3> HIDE DEF any
      <3>2. Cardinality(U \ {any(U)}) = Cardinality(U) - 1
        BY <3>1, SmallerSet
      <3>3. QED  BY <3>2
    <2>3. it[U \ {any(U)}] = g[U \ {any(U)}]
      BY <1>8, <2>2 DEF N
    <2>4. QED  BY <1>3, <1>6, <2>1, <2>3
  <1>9. Cardinality(T) \in N
    BY <1>7, <1>8, NumberInduction, SmallerSet
  <1>10. QED  BY <1>1, <1>9 DEF N

LEMMA TotalType ==
    ASSUME NEW S, NEW a, Numbers(a, S)
    PROVE  Total(a, S) \in Int /\ Total(a, {}) = 0
  <1>1. PICK g : IsFold(g, S, Int, 0, AnyOf(S), Adds(a, S))
    BY SumExists
  <1>2. Total(a, S) = g[S] /\ Total(a, {}) = g[{}]
    BY <1>1, TotalIs
  <1>3. QED  BY <1>1, <1>2 DEF IsFold

(* A sum takes its terms in any order. *)
LEMMA TotalRemove ==
    ASSUME NEW S, NEW a, Numbers(a, S), NEW x \in S
    PROVE  Total(a, S) = a[x] + Total(a, S \ {x})
  <1>1. PICK g : IsFold(g, S, Int, 0, AnyOf(S), Adds(a, S))
    BY SumExists
  <1> DEFINE N == {n \in Nat : \A U \in SUBSET S : Cardinality(U) = n =>
                                 \A y \in U : g[U] = a[y] + g[U \ {y}]}
  <1>2. \A U \in SUBSET S : g[U] \in Int
    BY <1>1 DEF IsFold
  <1>3. 0 \in N
    BY SmallerSet
  <1>4. ASSUME NEW n \in Nat, n \in N PROVE n + 1 \in N
    <2> SUFFICES ASSUME NEW U \in SUBSET S, Cardinality(U) = n + 1, NEW y \in U
                 PROVE  g[U] = a[y] + g[U \ {y}]
      OBVIOUS
    <2> HIDE DEF N
    <2>1. PICK p \in U : g[U] = a[p] + g[U \ {p}]
      <3>1. U # {}
        OBVIOUS
      <3>2. LET z == CHOOSE z \in U : TRUE IN z \in U /\ g[U] = a[z] + g[U \ {z}]
        BY <1>1, <3>1, SumSteps
      <3>3. QED  BY <3>2
    <2>2. CASE p = y
      BY <2>1, <2>2
    <2>3. CASE p # y
      <3>1. Cardinality(U \ {p}) = n /\ Cardinality(U \ {y}) = n
        BY SmallerSet
      <3>2. y \in U \ {p} /\ p \in U \ {y}
            /\ U \ {p} \in SUBSET S /\ U \ {y} \in SUBSET S
        BY <2>3
      <3> DEFINE w == (U \ {p}) \ {y}
      <3>3. w = (U \ {y}) \ {p} /\ w \in SUBSET S
        OBVIOUS
      <3>4. g[U \ {p}] = a[y] + g[(U \ {p}) \ {y}]
        BY <1>4, <3>1, <3>2 DEF N
      <3>5. g[U \ {y}] = a[p] + g[(U \ {y}) \ {p}]
        BY <1>4, <3>1, <3>2 DEF N
      <3>6. g[U \ {p}] = a[y] + g[w] /\ g[U \ {y}] = a[p] + g[w]
        BY <3>3, <3>4, <3>5
      <3>7. a[y] \in Int /\ a[p] \in Int /\ g[w] \in Int
        BY <1>2, <3>3 DEF Numbers
      <3> HIDE DEF w
      <3>8. QED  BY <2>1, <3>6, <3>7
    <2>4. QED  BY <2>2, <2>3
  <1> HIDE DEF N
  <1>5. Cardinality(S) \in N /\ S \in SUBSET S
    BY <1>3, <1>4, NumberInduction, SmallerSet
  <1>6. g[S] = a[x] + g[S \ {x}]
    BY <1>5 DEF N
  <1>7. Total(a, S) = g[S] /\ Total(a, S \ {x}) = g[S \ {x}]
    BY <1>1, TotalIs
  <1>8. QED  BY <1>6, <1>7

(* ... and may be cut in two. *)
LEMMA TotalUnion ==
    ASSUME NEW S, NEW a, Numbers(a, S), NEW A, NEW B,
           A \cup B = S, A \cap B = {}
    PROVE  Total(a, S) = Total(a, A) + Total(a, B)
  <1> DEFINE Good == {T \in SUBSET S : T \cap A = {} =>
                        Total(a, A \cup T) = Total(a, A) + Total(a, T)}
  <1>1. \A T \in SUBSET S : /\ Numbers(a, T)
                            /\ Total(a, T) \in Int
                            /\ \A x \in T : a[x] \in Int
    BY TotalType, FS_Subset DEF Numbers
  <1>2. {} \in Good
    BY <1>1, TotalType
  <1>3. ASSUME NEW T \in SUBSET S, NEW x \in S, T \in Good, x \notin T
        PROVE  T \cup {x} \in Good
    <2> SUFFICES ASSUME x \notin A, T \cap A = {}
                 PROVE  Total(a, A \cup T \cup {x}) = Total(a, A) + Total(a, T \cup {x})
      OBVIOUS
    <2>1. /\ A \cup T \cup {x} \in SUBSET S
          /\ T \cup {x} \in SUBSET S
          /\ (A \cup T \cup {x}) \ {x} = A \cup T
          /\ (T \cup {x}) \ {x} = T
          /\ A \in SUBSET S
      BY <1>3
    <2>2. Total(a, A \cup T \cup {x}) = a[x] + Total(a, A \cup T)
      BY <1>1, <2>1, TotalRemove
    <2>3. Total(a, T \cup {x}) = a[x] + Total(a, T)
      BY <1>1, <2>1, TotalRemove
    <2>4. Total(a, A \cup T) = Total(a, A) + Total(a, T)
      BY <1>3
    <2> HIDE DEF Good
    <2>5. a[x] \in Int /\ Total(a, A) \in Int /\ Total(a, T) \in Int
      BY <1>1, <2>1
    <2>6. QED  BY <2>2, <2>3, <2>4, <2>5
  <1> HIDE DEF Good
  <1>4. B \in Good
    <2>1. IsFiniteSet(B) /\ B \in SUBSET S
      BY FS_Subset DEF Numbers
    <2>2. \A T \in SUBSET B, x \in B : T \in Good /\ x \notin T => T \cup {x} \in Good
      BY <1>3, <2>1
    <2>3. QED  BY <1>2, <2>1, <2>2, SetInduction
  <1>5. QED  BY <1>4 DEF Good

(* A sum depends on its terms. *)
LEMMA TotalSame ==
    ASSUME NEW S, NEW a, Numbers(a, S), NEW b, \A i \in S : a[i] = b[i]
    PROVE  Total(a, S) = Total(b, S)
  <1> DEFINE Good == {T \in SUBSET S : Total(a, T) = Total(b, T)}
  <1>1. \A T \in SUBSET S : Numbers(a, T) /\ Numbers(b, T)
    BY FS_Subset DEF Numbers
  <1>2. {} \in Good
    BY <1>1, TotalType
  <1>3. ASSUME NEW T \in SUBSET S, NEW x \in S, T \in Good, x \notin T
        PROVE  T \cup {x} \in Good
    <2>1. T \cup {x} \in SUBSET S /\ x \in T \cup {x} /\ (T \cup {x}) \ {x} = T
      BY <1>3
    <2>2. Total(a, T \cup {x}) = a[x] + Total(a, (T \cup {x}) \ {x})
      BY <1>1, <2>1, TotalRemove
    <2>3. Total(b, T \cup {x}) = b[x] + Total(b, (T \cup {x}) \ {x})
      BY <1>1, <2>1, TotalRemove
    <2>4. QED  BY <1>3, <2>1, <2>2, <2>3
  <1> HIDE DEF Good
  <1>4. S \in Good
    BY <1>2, <1>3, SetInduction DEF Numbers
  <1>5. QED  BY <1>4 DEF Good

LEMMA TotalZero ==
    ASSUME NEW S, NEW a, IsFiniteSet(S), \A i \in S : a[i] = 0
    PROVE  Total(a, S) = 0
  <1> DEFINE Good == {T \in SUBSET S : Total(a, T) = 0}
  <1>1. \A T \in SUBSET S : Numbers(a, T)
    BY FS_Subset DEF Numbers
  <1>2. {} \in Good
    BY <1>1, TotalType
  <1>3. ASSUME NEW T \in SUBSET S, NEW x \in S, T \in Good, x \notin T
        PROVE  T \cup {x} \in Good
    <2>1. T \cup {x} \in SUBSET S /\ x \in T \cup {x} /\ (T \cup {x}) \ {x} = T
      BY <1>3
    <2>2. Total(a, T \cup {x}) = a[x] + Total(a, (T \cup {x}) \ {x})
      BY <1>1, <2>1, TotalRemove
    <2>3. QED  BY <1>3, <2>1, <2>2
  <1> HIDE DEF Good
  <1>4. S \in Good
    BY <1>2, <1>3, SetInduction
  <1>5. QED  BY <1>4 DEF Good

(* Sums of sums and differences, term by term. *)
LEMMA TotalPlus ==
    ASSUME NEW S, NEW a, NEW b, NEW c, Numbers(a, S), Numbers(b, S),
           \A i \in S : c[i] = a[i] + b[i]
    PROVE  Total(c, S) = Total(a, S) + Total(b, S)
  <1> DEFINE Good == {T \in SUBSET S : Total(c, T) = Total(a, T) + Total(b, T)}
  <1>1. \A T \in SUBSET S : Numbers(a, T) /\ Numbers(b, T) /\ Numbers(c, T)
    BY FS_Subset DEF Numbers
  <1>2. {} \in Good
    BY <1>1, TotalType
  <1>3. ASSUME NEW T \in SUBSET S, NEW x \in S, T \in Good, x \notin T
        PROVE  T \cup {x} \in Good
    <2>1. T \cup {x} \in SUBSET S /\ x \in T \cup {x} /\ (T \cup {x}) \ {x} = T
      BY <1>3
    <2>2. Total(a, T \cup {x}) = a[x] + Total(a, T)
      BY <1>1, <2>1, TotalRemove
    <2>3. Total(b, T \cup {x}) = b[x] + Total(b, T)
      BY <1>1, <2>1, TotalRemove
    <2>4. Total(c, T \cup {x}) = c[x] + Total(c, T)
      BY <1>1, <2>1, TotalRemove
    <2>5. /\ a[x] \in Int /\ b[x] \in Int /\ c[x] = a[x] + b[x]
          /\ Total(a, T) \in Int /\ Total(b, T) \in Int
      BY <1>1, TotalType DEF Numbers
    <2>6. Total(c, T) = Total(a, T) + Total(b, T)
      BY <1>3
    <2> HIDE DEF Good
    <2>7. Total(c, T \cup {x}) = Total(a, T \cup {x}) + Total(b, T \cup {x})
      BY <2>2, <2>3, <2>4, <2>5, <2>6
    <2>8. QED  BY <2>1, <2>7 DEF Good
  <1> HIDE DEF Good
  <1>4. S \in Good
    BY <1>2, <1>3, SetInduction DEF Numbers
  <1>5. QED  BY <1>4 DEF Good

(* Terms may be added up by groups: t[k] is the sum of those that f gives  *)
(* the group k.                                                            *)
Grouped(a, S, f, K, t) ==
    /\ Numbers(a, S)
    /\ IsFiniteSet(K)
    /\ \A i \in S : f[i] \in K
    /\ \A k \in K : t[k] = Total(a, {i \in S : f[i] = k})

LEMMA TotalGroups ==
    ASSUME NEW S, NEW a, NEW K, NEW f, NEW t, Grouped(a, S, f, K, t)
    PROVE  Total(t, K) = Total(a, S)
  <1> USE DEF Grouped
  <1> DEFINE Of(L) == {i \in S : f[i] \in L}
             Good == {L \in SUBSET K : Total(t, L) = Total(a, Of(L))}
  <1>1. \A T \in SUBSET S : Numbers(a, T) /\ Total(a, T) \in Int
    BY FS_Subset, TotalType DEF Numbers
  <1>2. \A L \in SUBSET K : Numbers(t, L)
    BY <1>1, FS_Subset DEF Numbers
  <1>3. {} \in Good
    <2>1. Of({}) = {}
      OBVIOUS
    <2>2. QED  BY <1>2, <2>1, TotalType
  <1>4. ASSUME NEW L \in SUBSET K, NEW k \in K, L \in Good, k \notin L
        PROVE  L \cup {k} \in Good
    <2> DEFINE A == {i \in S : f[i] = k}
    <2>1. L \cup {k} \in SUBSET K /\ k \in L \cup {k} /\ (L \cup {k}) \ {k} = L
      BY <1>4
    <2>2. Total(t, L \cup {k}) = t[k] + Total(t, L)
      BY <1>2, <2>1, TotalRemove
    <2>3. Of(L \cup {k}) = A \cup Of(L) /\ A \cap Of(L) = {}
      BY <1>4
    <2>4. Total(a, Of(L \cup {k})) = Total(a, A) + Total(a, Of(L))
      <3>1. Numbers(a, Of(L \cup {k}))
        BY <1>1
      <3> HIDE DEF Of, A
      <3>2. QED  BY <2>3, <3>1, TotalUnion
    <2>5. Total(t, L) = Total(a, Of(L)) /\ t[k] = Total(a, A)
      BY <1>4
    <2>6. Total(t, L \cup {k}) = Total(a, Of(L \cup {k}))
      <3> HIDE DEF Of, A
      <3>1. QED  BY <2>2, <2>4, <2>5
    <2>7. QED  BY <2>1, <2>6
  <1>5. K \in Good
    <2> HIDE DEF Good
    <2>1. QED  BY <1>3, <1>4, SetInduction
  <1>6. Of(K) = S
    OBVIOUS
  <1>7. QED  BY <1>5, <1>6
====
