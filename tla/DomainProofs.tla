---------------------------- MODULE DomainProofs ----------------------------
(***************************************************************************)
(* What the functions of internal/domain and the import return, for every  *)
(* input: texts and amounts of any width, pools, rules, months and files   *)
(* of any length.  First a function at a time, then as theorems of the     *)
(* specification.                                                          *)
(*                                                                         *)
(* A function that runs over its input is a fold.  Its values after each   *)
(* element are the h of the lemma that ends in Fold; what holds of the     *)
(* last of them is shown by induction.                                     *)
(***************************************************************************)
EXTENDS Domain, FoldProofs

-----------------------------------------------------------------------------
(* Amounts. *)

Digit == 0 .. 9

(* An amount that fits the type is not changed by the conversion to it,    *)
(* nor is the opposite of any but the smallest.                            *)
LEMMA WrappedFits ==
    ASSUME Half \in Nat \ {0}, NEW n \in Cents
    PROVE  Wrapped(n) = n
  <1> DEFINE x == n + Half
             M == 2 * Half
  <1>1. x \in 0 .. M - 1 /\ M \in Nat \ {0}
    BY DEF Cents, Smallest, Largest
  <1>2. Wrapped(n) = (x % M) - Half
    BY DEF Wrapped, Smallest, Cents, Largest
  <1> HIDE DEF x, M
  <1>3. x % M = x
    BY <1>1
  <1>4. QED  BY <1>2, <1>3 DEF x, Cents, Smallest, Largest

LEMMA NegatedFits ==
    ASSUME Half \in Nat \ {0}, NEW c \in Cents, c # Smallest
    PROVE  Negated(c) = -c
  <1>1. -c \in Cents
    BY DEF Cents, Smallest, Largest
  <1>2. QED  BY <1>1, WrappedFits DEF Negated

(* The digits behind the point, one after the other.                      *)
LEMMA DigitsFold ==
    ASSUME NEW s \in Seq(Digit)
    PROVE  \E h : /\ h[0] = 0
                  /\ \A i \in 1 .. Len(s) : h[i] = 10 * h[i - 1] + s[i]
                  /\ Digits(s) = h[Len(s)]
  <1> DEFINE n == Len(s)
             V == Int
             base == 0
             F == [i \in 1 .. n |-> [v \in V |-> 10 * v + s[i]]]
             Eq(g) == g = [T \in SUBSET (1 .. n) |-> IF T = {} THEN base
                             ELSE 10 * g[T \ {Max(T)}] + s[Max(T)]]
             it == CHOOSE g : Eq(g)
             h == [i \in 0 .. n |-> it[1 .. i]]
  <1> HIDE DEF F, Eq, it, h
  <1>1. n \in Nat
    OBVIOUS
  <1>2. \A i \in 1 .. n, v \in V : F[i][v] = 10 * v + s[i]
    BY DEF F
  <1>3. Digits(s) = it[1 .. n]
    <2>1. DOMAIN s = 1 .. n
      OBVIOUS
    <2>2. Digits(s)
          = (CHOOSE g : g = [T \in SUBSET DOMAIN s |-> IF T = {} THEN 0
                                ELSE 10 * g[T \ {Max(T)}] + s[Max(T)]])[DOMAIN s]
      BY DEF Digits, FoldLeft, MapThenFoldSet
    <2>3. QED  BY <2>1, <2>2 DEF it, Eq
  <1>4. base \in V /\ \A i \in 1 .. n, v \in V : F[i][v] \in V
    <2>1. \A i \in 1 .. n : s[i] \in Digit
      BY SeqElements
    <2>2. \A i \in 1 .. n, v \in Int : 10 * v + s[i] \in Int
      BY <2>1 DEF Digit
    <2>3. QED  BY <1>2, <2>2
  <1> HIDE DEF V, base, n
  <1>5. Scannable(n, V, base, F)
    BY <1>1, <1>4 DEF Scannable
  <1>6. PICK g : IsScan(g, n, V, base, F)
    BY <1>5, ScanExists
  <1>7. Eq(g)
    <2>1. \A T \in SUBSET (1 .. n) : T # {} => Max(T) \in 1 .. n /\ g[T \ {Max(T)}] \in V
      BY <1>1, <1>6, MaxIn DEF IsScan
    <2>2. \A T \in SUBSET (1 .. n) : T # {} =>
            F[Max(T)][g[T \ {Max(T)}]] = 10 * g[T \ {Max(T)}] + s[Max(T)]
      BY <1>2, <2>1
    <2>3. QED  BY <1>6, <2>2 DEF IsScan, Eq
  <1>8. Eq(it)
    BY <1>7 DEF it
  <1>9. \A T \in SUBSET (1 .. n) :
          it[T] = IF T = {} THEN base ELSE 10 * it[T \ {Max(T)}] + s[Max(T)]
    BY <1>8 DEF Eq
  <1>10. h[0] = base /\ h[n] = it[1 .. n]
    <2>1. h[0] = it[1 .. 0] /\ h[n] = it[1 .. n]
      BY <1>1 DEF h
    <2>2. it[{}] = base
      BY <1>9
    <2>3. QED  BY <1>1, <2>1, <2>2, FirstNumbers
  <1>11. \A i \in 1 .. n : h[i] = 10 * h[i - 1] + s[i]
    <2> TAKE i \in 1 .. n
    <2>1. 1 .. i \in SUBSET (1 .. n) /\ 1 .. i # {} /\ Max(1 .. i) = i
          /\ (1 .. i) \ {Max(1 .. i)} = 1 .. (i - 1)
      BY <1>1, FirstNumbers
    <2>2. it[1 .. i] = 10 * it[(1 .. i) \ {Max(1 .. i)}] + s[Max(1 .. i)]
      BY <1>9, <2>1
    <2>3. h[i] = it[1 .. i] /\ h[i - 1] = it[1 .. (i - 1)]
      BY <1>1 DEF h
    <2>4. QED  BY <2>1, <2>2, <2>3
  <1>12. QED  BY <1>3, <1>10, <1>11 DEF n, base

LEMMA DigitsOfTwo ==
    ASSUME NEW s \in Seq(Digit), Len(s) <= 2
    PROVE  /\ Hundredths(s) \in 0 .. 99 /\ Digits(s) \in Nat
           /\ \E t \in {1, 10, 100} : 10^Len(s) = t /\ Hundredths(s) * t = Digits(s) * 100
  <1>1. Len(s) \in Nat /\ DOMAIN s = 1 .. Len(s) /\ \A i \in 1 .. Len(s) : s[i] \in 0 .. 9
    BY SeqElements DEF Digit
  <1>2. PICK h : /\ h[0] = 0
                 /\ \A i \in 1 .. Len(s) : h[i] = 10 * h[i - 1] + s[i]
                 /\ Digits(s) = h[Len(s)]
    BY DigitsFold
  <1>3. CASE Len(s) = 0
    <2>1. s = <<>> /\ Digits(s) = 0
      BY <1>2, <1>3
    <2>2. Hundredths(s) = 0 /\ 10^Len(s) = 1
      BY <1>3, <2>1 DEF Hundredths
    <2>3. QED  BY <2>1, <2>2
  <1>4. CASE Len(s) = 1
    <2> DEFINE a == s[1]
    <2>1. 1 \in 1 .. Len(s) /\ a \in 0 .. 9 /\ s # <<>>
      <3>1. 1 \in 1 .. Len(s)
        BY <1>4
      <3>2. s = <<>> => Len(s) = 0
        OBVIOUS
      <3>3. QED  BY <1>1, <1>4, <3>1, <3>2
    <2>2. h[1] = 10 * h[1 - 1] + a
      BY <1>2, <2>1
    <2>3. Hundredths(s) = 10 * a
      BY <1>4, <2>1 DEF Hundredths
    <2>4. 10^Len(s) = 10
      BY <1>4
    <2> HIDE DEF a
    <2>5. Digits(s) = a
      BY <1>2, <1>4, <2>1, <2>2
    <2>6. QED  BY <2>1, <2>3, <2>4, <2>5
  <1>5. CASE Len(s) = 2
    <2> DEFINE a == s[1]
               b == s[2]
    <2>1. /\ 1 \in 1 .. Len(s) /\ 2 \in 1 .. Len(s) /\ s # <<>>
          /\ a \in 0 .. 9 /\ b \in 0 .. 9
      BY <1>1, <1>5
    <2>2. h[1] = 10 * h[1 - 1] + a /\ h[2] = 10 * h[2 - 1] + b
      BY <1>2, <2>1
    <2>3. Hundredths(s) = 10 * a + b
      BY <1>5, <2>1 DEF Hundredths
    <2>4. 10^Len(s) = 100
      BY <1>5
    <2> HIDE DEF a, b
    <2>5. Digits(s) = 10 * a + b
      BY <1>2, <1>5, <2>1, <2>2
    <2>6. QED  BY <2>1, <2>3, <2>4, <2>5
  <1>6. QED  BY <1>1, <1>3, <1>4, <1>5

(* An amount that fits is read, and printed so that it is read again.      *)
LEMMA ReadsFitting ==
    ASSUME Half \in Nat \ {0}, Invalid \notin Int, NEW s \in Text,
           Len(s.frac) <= 2, s.whole * 100 + Hundredths(s.frac) <= Largest
    PROVE  LET c == s.whole * 100 + Hundredths(s.frac)
           IN c \in 0 .. Largest /\ ParseCents(s) = (IF s.neg THEN -c ELSE c)
  <1> DEFINE f == Hundredths(s.frac)
             c == s.whole * 100 + f
  <1>1. s.whole \in Nat /\ s.frac \in Seq(Digit) /\ s.neg \in BOOLEAN
    BY DEF Text, Digit
  <1>2. f \in 0 .. 99
    BY <1>1, DigitsOfTwo
  <1> HIDE DEF f
  <1>3. c \in 0 .. Largest /\ s.whole <= Largest
    <2>1. Half \in Nat /\ c <= Half - 1
      BY DEF Largest, f
    <2>2. c \in Nat /\ s.whole <= c
      <3>1. \A w \in Nat, g \in 0 .. 99 : w * 100 + g \in Nat /\ w <= w * 100 + g
        OBVIOUS
      <3>2. QED  BY <1>1, <1>2, <3>1
    <2> HIDE DEF c
    <2>3. QED  BY <1>1, <2>1, <2>2 DEF Largest
  <1>4. c \in Cents /\ c # Smallest /\ Largest \in Int
    BY <1>3 DEF Cents, Smallest, Largest
  <1>5. Wrapped(c) = c /\ Negated(c) = -c
    BY <1>4, WrappedFits, NegatedFits
  <1>6. ~(Len(s.frac) > 2 \/ s.whole > Largest)
    BY <1>1, <1>3, <1>4
  <1>7. ParseCents(s) = IF s.neg THEN Negated(Wrapped(c)) ELSE Wrapped(c)
    BY <1>6 DEF ParseCents, f
  <1>8. QED  BY <1>3, <1>5, <1>7 DEF f

LEMMA PrintsFitting ==
    ASSUME Half \in Nat \ {0}, NEW c \in 0 .. Largest, NEW r, r = c \/ r = -c
    PROVE  /\ String(r) \in Text /\ Len(String(r).frac) = 2
           /\ String(r).whole * 100 + Hundredths(String(r).frac) = c
           /\ String(r).neg <=> r < 0
  <1>1. c \in Nat /\ r \in Cents /\ r # Smallest
    BY DEF Cents, Smallest, Largest
  <1>2. Abs(r) = c
    BY <1>1, NegatedFits DEF Abs
  <1> DEFINE a == (c \div 10) % 10
             b == c % 10
             p == [neg |-> r < 0, whole |-> c \div 100, frac |-> <<a, b>>]
  <1>3. a \in 0 .. 9 /\ b \in 0 .. 9 /\ c \div 100 \in Nat
    BY <1>1
  <1>4. (c \div 100) * 100 + 10 * a + b = c
    BY <1>1
  <1>5. String(r) = p
    BY <1>1, <1>2 DEF String
  <1> HIDE DEF a, b
  <1>6. Hundredths(p.frac) = 10 * a + b
    BY DEF Hundredths
  <1>7. p \in Text /\ Len(p.frac) = 2 /\ (p.neg <=> r < 0)
    <2>1. <<a, b>> \in Seq(0 .. 9) /\ Len(<<a, b>>) = 2
      BY <1>3
    <2>2. (r < 0) \in BOOLEAN
      OBVIOUS
    <2>3. QED  BY <1>3, <2>1, <2>2 DEF Text
  <1>8. p.whole * 100 + Hundredths(p.frac) = c
    BY <1>1, <1>3, <1>4, <1>6
  <1> HIDE DEF p
  <1>9. QED  BY <1>5, <1>7, <1>8

LEMMA ReadsWhatItPrints ==
    ASSUME Half \in Nat \ {0}, Invalid \notin Int, NEW s \in Text
    PROVE  /\ Len(s.frac) > 2 => ParseCents(s) = Invalid
           /\ Len(s.frac) <= 2 /\ s.whole * 100 + Hundredths(s.frac) <= Largest =>
                 /\ ParseCents(s) # Invalid
                 /\ ParseCents(s) * 10^Len(s.frac) = Exact(s)
                 /\ ParseCents(String(ParseCents(s))) = ParseCents(s)
  <1> DEFINE c == s.whole * 100 + Hundredths(s.frac)
             r == ParseCents(s)
             p == String(r)
  <1>1. Len(s.frac) > 2 => r = Invalid
    BY DEF ParseCents
  <1>2. ASSUME Len(s.frac) <= 2, c <= Largest
        PROVE  r # Invalid /\ r * 10^Len(s.frac) = Exact(s) /\ ParseCents(p) = r
    <2>1. c \in 0 .. Largest /\ r = (IF s.neg THEN -c ELSE c)
      BY <1>2, ReadsFitting
    <2>2. c \in Int /\ r \in Int
      BY <2>1 DEF Largest
    <2>3. r * 10^Len(s.frac) = Exact(s)
      <3> DEFINE f == Hundredths(s.frac)
                 d == Digits(s.frac)
                 w == s.whole
      <3>1. s.frac \in Seq(Digit)
        BY DEF Text, Digit
      <3>2. /\ f \in 0 .. 99 /\ d \in Nat
            /\ \E t \in {1, 10, 100} : 10^Len(s.frac) = t /\ f * t = d * 100
        BY <1>2, <3>1, DigitsOfTwo
      <3> HIDE DEF f, d, r
      <3>0. PICK t \in {1, 10, 100} : 10^Len(s.frac) = t /\ f * t = d * 100
        BY <3>2
      <3>3. w \in Nat
        BY DEF Text
      <3>4. Exact(s) = (IF s.neg THEN -1 ELSE 1) * (w * t + d) * 100
        BY <3>0 DEF Exact, d
      <3> HIDE DEF w
      <3>5. (w * t + d) * 100 = (w * 100 + f) * t
        BY <3>0, <3>2, <3>3
      <3>6. r = IF s.neg THEN -(w * 100 + f) ELSE w * 100 + f
        BY <2>1 DEF f, w
      <3>7. (w * 100 + f) * t \in Int /\ (w * t + d) \in Int /\ t \in Int
            /\ w * 100 + f \in Int
        BY <3>2, <3>3
      <3>8. CASE s.neg
        <4>1. Exact(s) = -((w * t + d) * 100)
          BY <3>4, <3>7, <3>8
        <4>2. r * t = -((w * 100 + f) * t)
          BY <3>6, <3>7, <3>8
        <4>3. QED  BY <3>0, <3>5, <4>1, <4>2
      <3>9. CASE ~s.neg
        <4>1. Exact(s) = (w * t + d) * 100
          BY <3>4, <3>7, <3>9
        <4>2. QED  BY <3>0, <3>5, <3>6, <3>9, <4>1
      <3>10. QED  BY <3>8, <3>9
    <2>4. r = c \/ r = -c
      BY <2>1
    <2>5. /\ p \in Text /\ Len(p.frac) = 2
          /\ p.whole * 100 + Hundredths(p.frac) = c
          /\ p.neg <=> r < 0
      <3> HIDE DEF c, r
      <3>1. QED  BY <2>1, <2>4, PrintsFitting
    <2>6. ParseCents(p) = IF p.neg THEN -c ELSE c
      <3> HIDE DEF c, p
      <3>1. Len(p.frac) <= 2 /\ p.whole * 100 + Hundredths(p.frac) <= Largest
        BY <2>1, <2>5
      <3>2. QED  BY <2>5, <3>1, ReadsFitting
    <2>7. QED
      <3> HIDE DEF c, p, r
      <3>1. c >= 0
        BY <2>1 DEF Largest
      <3>2. c \in Int /\ r \in Int /\ (r < 0 => r = -c) /\ (~(r < 0) => r = c)
        BY <2>2, <2>4, <3>1
      <3>3. ParseCents(p) = r
        BY <2>5, <2>6, <3>2
      <3>4. QED  BY <2>2, <2>3, <3>3
  <1>3. QED  BY <1>1, <1>2

(* What is booked of a transaction lies between nothing and all of it, on  *)
(* the other side of zero.                                                 *)
LEMMA BetweenNothingAndAll ==
    ASSUME Half \in Nat \ {0}, Invalid \notin Int,
           NEW tx \in Cents \ {Smallest}, NEW requested \in Cents \ {Smallest},
           entryAmount(tx, requested) # Invalid
    PROVE  IF tx <= 0
           THEN 0 <= entryAmount(tx, requested) /\ entryAmount(tx, requested) <= -tx
           ELSE -tx <= entryAmount(tx, requested) /\ entryAmount(tx, requested) <= 0
  <1>1. tx \in Int /\ requested \in Int /\ -tx \in Cents \ {Smallest}
    BY DEF Cents, Smallest, Largest
  <1>2. Negated(tx) = -tx /\ Negated(requested) = -requested /\ Negated(-tx) = tx
    BY <1>1, NegatedFits
  <1>3. CASE requested = 0
    BY <1>1, <1>2, <1>3 DEF entryAmount
  <1>4. CASE requested # 0
    <2>1. Abs(requested) = (IF requested < 0 THEN -requested ELSE requested)
          /\ Abs(-tx) = (IF -tx < 0 THEN tx ELSE -tx)
      BY <1>2 DEF Abs
    <2>2. ~(\/ tx = 0
            \/ (Negated(tx) > 0) # (requested > 0)
            \/ Abs(requested) > Abs(Negated(tx)))
          /\ entryAmount(tx, requested) = requested
      BY <1>4, Zenon DEF entryAmount
    <2>3. QED  BY <1>1, <1>2, <1>4, <2>1, <2>2
  <1>5. QED  BY <1>3, <1>4

-----------------------------------------------------------------------------
(* Rules. *)

HouseholdRule == [len : Nat, matches : BOOLEAN, says : Int]

(* The household rules, one after the other.                              *)
LEMMA RulesFold ==
    ASSUME NEW s \in Seq(HouseholdRule)
    PROVE  \E h : /\ h[0] = [len |-> -1, says |-> 0]
                  /\ \A i \in 1 .. Len(s) : h[i] = Longer(h[i - 1], s[i])
                  /\ FoldLeft(Longer, [len |-> -1, says |-> 0], s) = h[Len(s)]
  <1> DEFINE n == Len(s)
             V == [len : Int, says : Int]
             base == [len |-> -1, says |-> 0]
             F == [i \in 1 .. n |-> [v \in V |-> Longer(v, s[i])]]
             Eq(g) == g = [T \in SUBSET (1 .. n) |-> IF T = {} THEN base
                             ELSE Longer(g[T \ {Max(T)}], s[Max(T)])]
             it == CHOOSE g : Eq(g)
             h == [i \in 0 .. n |-> it[1 .. i]]
  <1> HIDE DEF F, Eq, it, h
  <1>1. n \in Nat
    OBVIOUS
  <1>2. \A i \in 1 .. n, v \in V : F[i][v] = Longer(v, s[i])
    BY DEF F
  <1>3. FoldLeft(Longer, [len |-> -1, says |-> 0], s) = it[1 .. n]
    <2>1. DOMAIN s = 1 .. n
      OBVIOUS
    <2>2. FoldLeft(Longer, base, s)
          = (CHOOSE g : g = [T \in SUBSET DOMAIN s |-> IF T = {} THEN base
                                ELSE Longer(g[T \ {Max(T)}], s[Max(T)])])[DOMAIN s]
      BY DEF FoldLeft, MapThenFoldSet
    <2>3. QED  BY <2>1, <2>2 DEF it, Eq
  <1>4. base \in V /\ \A i \in 1 .. n, v \in V : F[i][v] \in V
    <2> SUFFICES ASSUME NEW i \in 1 .. n, NEW v \in V PROVE Longer(v, s[i]) \in V
      BY <1>2
    <2>1. s[i] \in HouseholdRule
      OBVIOUS
    <2>2. [len |-> s[i].len, says |-> s[i].says] \in V
      BY <2>1 DEF HouseholdRule
    <2>3. QED  BY <2>2 DEF Longer
  <1> HIDE DEF V, base, n
  <1>5. Scannable(n, V, base, F)
    BY <1>1, <1>4 DEF Scannable
  <1>6. PICK g : IsScan(g, n, V, base, F)
    BY <1>5, ScanExists
  <1>7. Eq(g)
    <2>1. \A T \in SUBSET (1 .. n) : T # {} => Max(T) \in 1 .. n /\ g[T \ {Max(T)}] \in V
      BY <1>1, <1>6, MaxIn DEF IsScan
    <2>2. \A T \in SUBSET (1 .. n) : T # {} =>
            F[Max(T)][g[T \ {Max(T)}]] = Longer(g[T \ {Max(T)}], s[Max(T)])
      BY <1>2, <2>1
    <2>3. QED  BY <1>6, <2>2 DEF IsScan, Eq
  <1>8. Eq(it)
    BY <1>7 DEF it
  <1>9. \A T \in SUBSET (1 .. n) :
          it[T] = IF T = {} THEN base ELSE Longer(it[T \ {Max(T)}], s[Max(T)])
    BY <1>8 DEF Eq
  <1>10. h[0] = base /\ h[n] = it[1 .. n]
    <2>1. h[0] = it[1 .. 0] /\ h[n] = it[1 .. n]
      BY <1>1 DEF h
    <2>2. it[{}] = base
      BY <1>9
    <2>3. QED  BY <1>1, <2>1, <2>2, FirstNumbers
  <1>11. \A i \in 1 .. n : h[i] = Longer(h[i - 1], s[i])
    <2> TAKE i \in 1 .. n
    <2>1. 1 .. i \in SUBSET (1 .. n) /\ 1 .. i # {} /\ Max(1 .. i) = i
          /\ (1 .. i) \ {Max(1 .. i)} = 1 .. (i - 1)
      BY <1>1, FirstNumbers
    <2>2. it[1 .. i] = Longer(it[(1 .. i) \ {Max(1 .. i)}], s[Max(1 .. i)])
      BY <1>9, <2>1
    <2>3. h[i] = it[1 .. i] /\ h[i - 1] = it[1 .. (i - 1)]
      BY <1>1 DEF h
    <2>4. QED  BY <2>1, <2>2, <2>3
  <1>12. QED  BY <1>3, <1>10, <1>11 DEF n, base

(* What the best of the rules is, after any number of them.                *)
LEMMA BestOfRules ==
    ASSUME NEW s \in Seq(HouseholdRule)
    PROVE  LET hits == {i \in 1 .. Len(s) : s[i].matches}
               best == FoldLeft(Longer, [len |-> -1, says |-> 0], s)
           IN IF hits = {} THEN best.says = 0
              ELSE \E i \in hits : /\ best.says = s[i].says
                                   /\ \A j \in hits : s[j].len <= s[i].len
  <1> DEFINE n == Len(s)
             none == [len |-> -1, says |-> 0]
             hits(i) == {j \in 1 .. i : s[j].matches}
             Found(best, i) ==
                IF hits(i) = {} THEN best = none
                ELSE \E j \in hits(i) :
                        /\ best = [len |-> s[j].len, says |-> s[j].says]
                        /\ \A k \in hits(i) : s[k].len <= s[j].len
  <1>1. PICK h : /\ h[0] = none
                 /\ \A i \in 1 .. n : h[i] = Longer(h[i - 1], s[i])
                 /\ FoldLeft(Longer, none, s) = h[n]
    BY RulesFold
  <1> DEFINE N == {i \in Nat : i <= n => Found(h[i], i)}
  <1>2. \A i \in 1 .. n : s[i].len \in Nat /\ n \in Nat
    <2> TAKE i \in 1 .. n
    <2>1. s[i] \in HouseholdRule
      OBVIOUS
    <2>2. QED  BY <2>1 DEF HouseholdRule
  <1>3. 0 \in N
    BY <1>1
  <1>4. ASSUME NEW i \in Nat, i \in N PROVE i + 1 \in N
    <2> SUFFICES ASSUME i + 1 <= n PROVE Found(h[i + 1], i + 1)
      OBVIOUS
    <2> DEFINE k == i + 1
    <2>1. k \in 1 .. n /\ k - 1 = i /\ 1 .. k = 1 .. i \cup {k}
      OBVIOUS
    <2>2. h[k] = Longer(h[i], s[k])
      BY <1>1, <2>1
    <2>3. Found(h[i], i)
      BY <1>4, <2>1
    <2>4. hits(k) = hits(i) \cup (IF s[k].matches THEN {k} ELSE {})
      BY <2>1
    <2>5. \A j \in hits(k) : s[j].len \in Nat /\ hits(i) \subseteq hits(k)
      BY <1>2, <2>1, <2>4
    <2>6. CASE ~s[k].matches
      BY <2>2, <2>3, <2>4, <2>6 DEF Longer
    <2>7. CASE s[k].matches /\ hits(i) = {}
      BY <2>2, <2>3, <2>4, <2>5, <2>7 DEF Longer
    <2>8. CASE s[k].matches /\ hits(i) # {}
      <3>1. PICK j \in hits(i) : /\ h[i] = [len |-> s[j].len, says |-> s[j].says]
                                 /\ \A m \in hits(i) : s[m].len <= s[j].len
        BY <2>3, <2>8
      <3>2. h[k] = IF s[k].len > s[j].len
                   THEN [len |-> s[k].len, says |-> s[k].says] ELSE h[i]
        BY <2>2, <2>8, <3>1 DEF Longer
      <3>3. hits(k) = hits(i) \cup {k}
        BY <2>4, <2>8
      <3> HIDE DEF hits, k
      <3>4. k \in hits(k) /\ j \in hits(k) /\ hits(k) # {}
        BY <3>3
      <3>5. CASE s[k].len > s[j].len
        <4>1. \A m \in hits(k) : s[m].len <= s[k].len
          BY <2>5, <3>1, <3>3, <3>4, <3>5
        <4>2. h[k] = [len |-> s[k].len, says |-> s[k].says]
          BY <3>2, <3>5
        <4>3. QED  BY <3>4, <4>1, <4>2 DEF k
      <3>6. CASE ~(s[k].len > s[j].len)
        <4>1. \A m \in hits(k) : s[m].len <= s[j].len
          BY <2>5, <3>1, <3>3, <3>4, <3>6
        <4>2. h[k] = [len |-> s[j].len, says |-> s[j].says]
          BY <3>1, <3>2, <3>6
        <4>3. QED  BY <3>4, <4>1, <4>2 DEF k
      <3>7. QED  BY <3>5, <3>6
    <2>9. QED  BY <2>6, <2>7, <2>8
  <1>5. n \in N
    <2> HIDE DEF N, n
    <2>1. n \in Nat
      BY DEF n
    <2>2. QED  BY <1>3, <1>4, <2>1, NumberInduction
  <1>6. Found(h[n], n)
    BY <1>5
  <1>7. FoldLeft(Longer, none, s).says = h[n].says
    BY <1>1
  <1>8. IF hits(n) = {} THEN h[n].says = 0
        ELSE \E i \in hits(n) : /\ h[n].says = s[i].says
                                /\ \A j \in hits(n) : s[j].len <= s[i].len
    <2>1. CASE hits(n) = {}
      <3>1. h[n] = none
        BY <1>6, <2>1
      <3>2. QED  BY <2>1, <3>1
    <2>2. CASE hits(n) # {}
      <3>1. PICK i \in hits(n) : /\ h[n] = [len |-> s[i].len, says |-> s[i].says]
                                 /\ \A j \in hits(n) : s[j].len <= s[i].len
        BY <1>6, <2>2
      <3>2. h[n].says = s[i].says
        BY <3>1
      <3>3. QED  BY <2>2, <3>1, <3>2
    <2>3. QED  BY <2>1, <2>2
  <1>9. QED  BY <1>7, <1>8


-----------------------------------------------------------------------------
(* Transfers. *)

(* The transactions of a pool, one after the other.                       *)
LEMMA TransfersFold ==
    ASSUME NEW txs, Len(txs) \in Nat
    PROVE  \E h : /\ h[0] = {}
                  /\ \A i \in 1 .. Len(txs) : h[i] = Paired(txs, h[i - 1], i)
                  /\ DetectTransfers(txs) = h[Len(txs)]
  <1> DEFINE n == Len(txs)
             V == SUBSET (1 .. n)
             base == {}
             F == [i \in 1 .. n |-> [v \in V |-> Paired(txs, v, i)]]
             Eq(g) == g = [T \in SUBSET (1 .. n) |-> IF T = {} THEN base
                             ELSE Paired(txs, g[T \ {Max(T)}], Max(T))]
             it == CHOOSE g : Eq(g)
             h == [i \in 0 .. n |-> it[1 .. i]]
  <1> HIDE DEF F, Eq, it, h
  <1>1. n \in Nat
    OBVIOUS
  <1>2. \A i \in 1 .. n, v \in V : F[i][v] = Paired(txs, v, i)
    BY DEF F
  <1>3. DetectTransfers(txs) = it[1 .. n]
    <2> DEFINE s == [i \in 1 .. n |-> i]
    <2>1. DOMAIN s = 1 .. n /\ \A T \in SUBSET (1 .. n) : T # {} => s[Max(T)] = Max(T)
      BY <1>1, MaxIn
    <2>2. DetectTransfers(txs)
          = (CHOOSE g : g = [T \in SUBSET DOMAIN s |-> IF T = {} THEN {}
                                ELSE Paired(txs, g[T \ {Max(T)}], s[Max(T)])])[DOMAIN s]
      BY DEF DetectTransfers, FoldLeft, MapThenFoldSet
    <2> DEFINE P(g) == g = [T \in SUBSET DOMAIN s |-> IF T = {} THEN {}
                              ELSE Paired(txs, g[T \ {Max(T)}], s[Max(T)])]
    <2>3. \A g : P(g) <=> Eq(g)
      BY <2>1 DEF Eq
    <2>4. (CHOOSE g : P(g)) = (CHOOSE g : Eq(g))
      <3> HIDE DEF P
      <3>1. QED  BY <2>3
    <2>5. QED  BY <2>1, <2>2, <2>4 DEF it
  <1>4. base \in V /\ \A i \in 1 .. n, v \in V : F[i][v] \in V
    <2> SUFFICES ASSUME NEW i \in 1 .. n, NEW v \in V PROVE Paired(txs, v, i) \in V
      BY <1>2
    <2>1. Left(txs, v, i) \subseteq 1 .. n /\ Left(txs, v, i) \subseteq Nat
      BY <1>1 DEF Left
    <2>2. Left(txs, v, i) # {} =>
            (CHOOSE j \in Left(txs, v, i) : \A k \in Left(txs, v, i) : j <= k)
               \in Left(txs, v, i)
      BY <2>1, SmallestOf
    <2>3. QED  BY <2>1, <2>2 DEF Paired
  <1> HIDE DEF V, base, n
  <1>5. Scannable(n, V, base, F)
    BY <1>1, <1>4 DEF Scannable
  <1>6. PICK g : IsScan(g, n, V, base, F)
    BY <1>5, ScanExists
  <1>7. Eq(g)
    <2>1. \A T \in SUBSET (1 .. n) : T # {} => Max(T) \in 1 .. n /\ g[T \ {Max(T)}] \in V
      BY <1>1, <1>6, MaxIn DEF IsScan
    <2>2. \A T \in SUBSET (1 .. n) : T # {} =>
            F[Max(T)][g[T \ {Max(T)}]] = Paired(txs, g[T \ {Max(T)}], Max(T))
      BY <1>2, <2>1
    <2>3. QED  BY <1>6, <2>2 DEF IsScan, Eq
  <1>8. Eq(it)
    BY <1>7 DEF it
  <1>9. \A T \in SUBSET (1 .. n) :
          it[T] = IF T = {} THEN base ELSE Paired(txs, it[T \ {Max(T)}], Max(T))
    BY <1>8 DEF Eq
  <1>10. h[0] = base /\ h[n] = it[1 .. n]
    <2>1. h[0] = it[1 .. 0] /\ h[n] = it[1 .. n]
      BY <1>1 DEF h
    <2>2. it[{}] = base
      BY <1>9
    <2>3. QED  BY <1>1, <2>1, <2>2, FirstNumbers
  <1>11. \A i \in 1 .. n : h[i] = Paired(txs, h[i - 1], i)
    <2> TAKE i \in 1 .. n
    <2>1. 1 .. i \in SUBSET (1 .. n) /\ 1 .. i # {} /\ Max(1 .. i) = i
          /\ (1 .. i) \ {Max(1 .. i)} = 1 .. (i - 1)
      BY <1>1, FirstNumbers
    <2>2. it[1 .. i] = Paired(txs, it[(1 .. i) \ {Max(1 .. i)}], Max(1 .. i))
      BY <1>9, <2>1
    <2>3. h[i] = it[1 .. i] /\ h[i - 1] = it[1 .. (i - 1)]
      BY <1>1 DEF h
    <2>4. QED  BY <2>1, <2>2, <2>3
  <1>12. QED  BY <1>3, <1>10, <1>11 DEF n, base

(* Which of the remaining partners it takes. *)
LEMMA PairedCases ==
    ASSUME NEW txs, Len(txs) \in Nat, NEW used, NEW i \in Nat
    PROVE  \/ /\ Paired(txs, used, i) = used
              /\ i \in used \/ Left(txs, used, i) = {}
           \/ /\ i \notin used
              /\ \E j \in Left(txs, used, i) : Paired(txs, used, i) = used \cup {i, j}
  <1> DEFINE S == Left(txs, used, i)
             j == CHOOSE j \in S : \A k \in S : j <= k
  <1>1. S # {} => j \in S
    <2>1. S \subseteq Nat
      BY DEF Left
    <2> HIDE DEF S
    <2>2. QED  BY <2>1, SmallestOf
  <1>2. Paired(txs, used, i) = IF i \in used \/ S = {} THEN used ELSE used \cup {i, j}
    BY DEF Paired
  <1> HIDE DEF S, j
  <1>3. QED  BY <1>1, <1>2 DEF S

Transaction == [account : Int, amount : Int, posted : Int]
Pool == Seq(Transaction)

LEMMA PairsEitherWay ==
    ASSUME NEW txs \in Pool, NEW i \in 1 .. Len(txs), NEW j \in 1 .. Len(txs)
    PROVE  /\ Pairs(txs[i], txs[j]) <=> Pairs(txs[j], txs[i])
           /\ ~Pairs(txs[i], txs[i])
  <1> DEFINE a == txs[i]
             b == txs[j]
  <1>1. a \in Transaction /\ b \in Transaction
    BY DEF Pool
  <1>2. a.amount \in Int /\ b.amount \in Int /\ a.posted \in Int /\ b.posted \in Int
    BY <1>1 DEF Transaction
  <1>3. Apart(a, b) = Apart(b, a)
    BY <1>2 DEF Apart
  <1>4. QED  BY <1>2, <1>3 DEF Pairs

(* Those that are used come in pairs, and none of those that had their     *)
(* turn and are not used has a partner left.                               *)
Coupled(txs, used) ==
    \E other \in [used -> used] :
       \A i \in used : other[i] # i /\ other[other[i]] = i
                       /\ Pairs(txs[i], txs[other[i]])

LEMMA Couple ==
    ASSUME NEW txs \in Pool, NEW used \in SUBSET (1 .. Len(txs)), Coupled(txs, used),
           NEW i \in 1 .. Len(txs), NEW j \in 1 .. Len(txs), i # j,
           i \notin used, j \notin used, Pairs(txs[i], txs[j])
    PROVE  Coupled(txs, used \cup {i, j})
  <1>1. PICK other \in [used -> used] :
           \A k \in used : other[k] # k /\ other[other[k]] = k
                           /\ Pairs(txs[k], txs[other[k]])
    BY DEF Coupled
  <1> DEFINE both == used \cup {i, j}
             new == [k \in both |-> IF k = i THEN j ELSE IF k = j THEN i ELSE other[k]]
  <1>2. new \in [both -> both]
    BY <1>1
  <1>3. \A k \in both : new[k] # k /\ new[new[k]] = k /\ Pairs(txs[k], txs[new[k]])
    BY <1>1, PairsEitherWay
  <1>4. QED  BY <1>2, <1>3 DEF Coupled

LEMMA TransfersPaired ==
    ASSUME NEW txs \in Pool
    PROVE  LET used == DetectTransfers(txs) IN
              /\ Coupled(txs, used)
              /\ \A i, j \in DOMAIN txs \ used : ~Pairs(txs[i], txs[j])
  <1> DEFINE n == Len(txs)
             Done(used, i) ==
                /\ used \in SUBSET (1 .. n)
                /\ Coupled(txs, used)
                /\ \A a \in 1 .. i, b \in 1 .. n :
                      a < b /\ a \notin used /\ b \notin used
                         => ~Pairs(txs[a], txs[b])
  <1>1. n \in Nat /\ DOMAIN txs = 1 .. n
    BY DEF Pool
  <1>2. PICK h : /\ h[0] = {}
                 /\ \A i \in 1 .. n : h[i] = Paired(txs, h[i - 1], i)
                 /\ DetectTransfers(txs) = h[n]
    BY <1>1, TransfersFold
  <1> HIDE DEF n
  <1> DEFINE N == {i \in Nat : i <= n => Done(h[i], i)}
  <1>3. 0 \in N
    <2>1. Coupled(txs, {})
      <3>1. [k \in {} |-> k] \in [{} -> {}]
        OBVIOUS
      <3>2. QED  BY <3>1 DEF Coupled
    <2>2. QED  BY <1>2, <2>1
  <1>4. ASSUME NEW i \in Nat, i \in N PROVE i + 1 \in N
    <2> SUFFICES ASSUME i + 1 <= n PROVE Done(h[i + 1], i + 1)
      OBVIOUS
    <2> DEFINE k == i + 1
               used == h[i]
    <2>1. k \in 1 .. n /\ k - 1 = i /\ 1 .. k = 1 .. i \cup {k} /\ i <= n /\ k \in Nat
      BY <1>1
    <2>2. h[k] = Paired(txs, used, k)
      BY <1>2, <2>1
    <2>3. Done(used, i)
      BY <1>4, <2>1
    <2> HIDE DEF k, used
    <2>4. CASE h[k] = used /\ (k \in used \/ Left(txs, used, k) = {})
      <3>1. \A b \in 1 .. n : k < b /\ k \notin used /\ b \notin used
                                => ~Pairs(txs[k], txs[b])
        BY <1>1, <2>1, <2>4 DEF Left, n
      <3>2. QED  BY <2>1, <2>3, <2>4, <3>1 DEF k
    <2>5. ASSUME k \notin used, NEW j \in Left(txs, used, k), h[k] = used \cup {k, j}
          PROVE  Done(h[i + 1], i + 1)
      <3>1. j \in 1 .. n /\ j # k /\ j \notin used /\ Pairs(txs[k], txs[j])
        BY <1>1, <2>1 DEF Left, n
      <3>2. Coupled(txs, used \cup {k, j})
        BY <2>1, <2>3, <2>5, <3>1, Couple DEF n
      <3>3. QED  BY <2>1, <2>3, <2>5, <3>1, <3>2 DEF k
    <2>6. QED  BY <1>1, <2>1, <2>2, <2>4, <2>5, PairedCases DEF n
  <1>5. Done(h[n], n)
    <2>1. n \in N
      <3> HIDE DEF N
      <3>1. QED  BY <1>1, <1>3, <1>4, NumberInduction
    <2>2. QED  BY <1>1, <2>1
  <1> DEFINE used == h[n]
  <1>6. ASSUME NEW i \in DOMAIN txs \ used, NEW j \in DOMAIN txs \ used
        PROVE  ~Pairs(txs[i], txs[j])
    <2>1. i \in 1 .. n /\ j \in 1 .. n /\ (i < j \/ i = j \/ j < i)
      BY <1>1
    <2>2. Pairs(txs[i], txs[j]) <=> Pairs(txs[j], txs[i])
      BY <2>1, PairsEitherWay DEF n
    <2>3. ~Pairs(txs[i], txs[i])
      BY <2>1, PairsEitherWay DEF n
    <2>4. CASE i < j
      BY <1>5, <2>1, <2>4
    <2>5. CASE j < i
      BY <1>5, <2>1, <2>2, <2>5
    <2>6. QED  BY <2>1, <2>3, <2>4, <2>5
  <1>7. QED  BY <1>2, <1>5, <1>6

-----------------------------------------------------------------------------
(* The figures of a month, and the contribution that counts for it. *)

AmountsOf(rows) == [i \in DOMAIN rows |-> rows[i].amount]

LEMMA SumIs ==
    ASSUME NEW rows, NEW S \in SUBSET DOMAIN rows
    PROVE  Sum(rows, S) = Total(AmountsOf(rows), S)
  <1> DEFINE a == AmountsOf(rows)
             any(T) == CHOOSE x \in T : TRUE
             P(g) == g = [T \in SUBSET S |->
                            IF T = {} THEN 0 ELSE rows[any(T)].amount + g[T \ {any(T)}]]
             Q(g) == g = [T \in SUBSET S |->
                            IF T = {} THEN 0 ELSE a[any(T)] + g[T \ {any(T)}]]
  <1>1. \A T \in SUBSET S : T # {} => rows[any(T)].amount = a[any(T)]
    BY DEF AmountsOf
  <1>2. \A g : P(g) <=> Q(g)
    BY <1>1
  <1>3. (CHOOSE g : P(g)) = (CHOOSE g : Q(g))
    <2> HIDE DEF P, Q
    <2>1. QED  BY <1>2
  <1>4. Sum(rows, S) = (CHOOSE g : P(g))[S]
    BY DEF Sum, MapThenSumSet, MapThenFoldSet
  <1>5. Total(a, S) = (CHOOSE g : Q(g))[S]
    <2> HIDE DEF a
    <2>1. QED  BY DEF Total, MapThenSumSet, MapThenFoldSet
  <1>6. QED  BY <1>3, <1>4, <1>5

LEMMA SumNumbers ==
    ASSUME NEW rows, MonthlyRows(rows), NEW S \in SUBSET DOMAIN rows
    PROVE  Numbers(AmountsOf(rows), S) /\ Sum(rows, S) \in Int
  <1>1. IsFiniteSet(S)
    BY FS_Subset DEF MonthlyRows
  <1>2. Numbers(AmountsOf(rows), S)
    BY <1>1 DEF MonthlyRows, Numbers, AmountsOf
  <1>3. QED  BY <1>2, SumIs, TotalType

(* A sum over rows, by groups, for instance by who paid. *)
SumsOf(rows, S, f, K, t) ==
    /\ MonthlyRows(rows)
    /\ S \in SUBSET DOMAIN rows
    /\ IsFiniteSet(K)
    /\ \A i \in S : f[i] \in K
    /\ \A k \in K : t[k] = Sum(rows, {i \in S : f[i] = k})

LEMMA SumGroups ==
    ASSUME NEW rows, NEW S, NEW K, NEW f, NEW t, SumsOf(rows, S, f, K, t)
    PROVE  Total(t, K) = Sum(rows, S)
  <1> USE DEF SumsOf
  <1>1. \A k \in K : t[k] = Total(AmountsOf(rows), {i \in S : f[i] = k})
    <2> TAKE k \in K
    <2>1. {i \in S : f[i] = k} \in SUBSET DOMAIN rows
      OBVIOUS
    <2>2. QED  BY <2>1, SumIs
  <1>2. Numbers(AmountsOf(rows), S)
    BY SumNumbers
  <1>3. Grouped(AmountsOf(rows), S, f, K, t)
    BY <1>1, <1>2 DEF Grouped
  <1>4. Total(t, K) = Total(AmountsOf(rows), S)
    BY <1>3, TotalGroups
  <1>5. QED  BY <1>4, SumIs

(* What the members have left adds up to the margin. *)
LEMMA BalancesAddUp ==
    ASSUME IsFiniteSet(Users), NEW h, MonthlyRows(h.entries), MonthlyRows(h.planned),
           \A u \in Users : h.contribs[u] \in Int,
           NEW b, \A u \in Users : b[u] = Balance(h, u)
    PROVE  Total(b, Users) = Margin(h)
  <1> DEFINE spent == [u \in Users |-> Spent(h, u)]
             due == [u \in Users |-> PlannedUnmatched(h, u)]
             used == [u \in Users |-> spent[u] + due[u]]
             E == DOMAIN h.entries
             U == Unmatched(h)
  <1>1. Total(spent, Users) = Sum(h.entries, E)
    <2> DEFINE payer == [i \in E |-> h.entries[i].payer]
    <2>1. \A u \in Users : spent[u] = Sum(h.entries, {i \in E : payer[i] = u})
      <3> TAKE u \in Users
      <3>1. {i \in E : payer[i] = u} = PaidBy(h.entries, u)
        BY DEF PaidBy
      <3>2. QED  BY <3>1 DEF Spent
    <2>2. \A i \in E : payer[i] \in Users
      BY DEF MonthlyRows
    <2> HIDE DEF payer, spent
    <2>3. SumsOf(h.entries, E, payer, Users, spent)
      BY <2>1, <2>2 DEF SumsOf
    <2>4. QED  BY <2>3, SumGroups
  <1>2. Total(due, Users) = Sum(h.planned, U)
    <2> DEFINE payer == [i \in U |-> h.planned[i].payer]
    <2>1. U \in SUBSET DOMAIN h.planned
      BY DEF Unmatched
    <2>2. \A u \in Users : due[u] = Sum(h.planned, {i \in U : payer[i] = u})
      <3> TAKE u \in Users
      <3>1. {i \in U : payer[i] = u} = U \cap PaidBy(h.planned, u)
        BY <2>1 DEF PaidBy
      <3>2. QED  BY <3>1 DEF PlannedUnmatched
    <2>3. \A i \in U : payer[i] \in Users
      BY <2>1 DEF MonthlyRows
    <2> HIDE DEF payer, due, U
    <2>4. SumsOf(h.planned, U, payer, Users, due)
      BY <2>1, <2>2, <2>3 DEF SumsOf
    <2>5. QED  BY <2>4, SumGroups
  <1>3. \A u \in Users : spent[u] \in Int /\ due[u] \in Int
    <2> TAKE u \in Users
    <2>1. PaidBy(h.entries, u) \in SUBSET DOMAIN h.entries
          /\ U \cap PaidBy(h.planned, u) \in SUBSET DOMAIN h.planned
      BY DEF PaidBy
    <2>2. QED  BY <2>1, SumNumbers DEF Spent, PlannedUnmatched
  <1>4. Numbers(spent, Users) /\ Numbers(due, Users) /\ Numbers(used, Users)
        /\ Numbers(b, Users)
    <2>1. \A u \in Users : b[u] = h.contribs[u] - used[u] /\ used[u] = spent[u] + due[u]
      BY DEF Balance
    <2> HIDE DEF spent, due, used
    <2>2. QED  BY <1>3, <2>1 DEF Numbers
  <1>5. Total(used, Users) = Total(spent, Users) + Total(due, Users)
    <2>1. \A u \in Users : used[u] = spent[u] + due[u]
      OBVIOUS
    <2> HIDE DEF spent, due, used
    <2>2. QED  BY <1>4, <2>1, TotalPlus
  <1>6. Total(h.contribs, Users) = Total(b, Users) + Total(used, Users)
    <2>1. \A u \in Users : b[u] = h.contribs[u] - used[u]
      BY DEF Balance
    <2> HIDE DEF used
    <2>2. \A u \in Users : h.contribs[u] = b[u] + used[u]
      BY <1>4, <2>1 DEF Numbers
    <2>3. QED  BY <1>4, <2>2, TotalPlus
  <1>7. Margin(h) = Total(h.contribs, Users) - (Sum(h.entries, E) + Sum(h.planned, U))
    BY DEF Margin, Committed, Total
  <1>8. Total(b, Users) \in Int /\ Total(used, Users) \in Int
    BY <1>4, TotalType
  <1> HIDE DEF spent, due, used, E, U
  <1>9. QED  BY <1>1, <1>2, <1>5, <1>6, <1>7, <1>8

(* The categories add up to what was spent. *)
LEMMA CategoriesAddUp ==
    ASSUME NEW h, MonthlyRows(h.entries),
           NEW t, \A c \in CategoriesOf(h) : t[c] = CategoryTotal(h, c)
    PROVE  Total(t, CategoriesOf(h)) = Sum(h.entries, DOMAIN h.entries)
  <1> DEFINE E == DOMAIN h.entries
             category == [e \in E |-> h.entries[e].category]
             C == CategoriesOf(h)
  <1>1. IsFiniteSet(C)
    <2>1. C = {category[e] : e \in E}
      BY DEF CategoriesOf
    <2>2. IsFiniteSet(E)
      BY DEF MonthlyRows
    <2>3. category \in Surjection(E, C)
      BY <2>1 DEF Surjection
    <2> HIDE DEF C, category, E
    <2>4. QED  BY <2>2, <2>3, FS_Surjection
  <1>2. \A e \in E : category[e] \in C
    BY DEF CategoriesOf
  <1>3. \A c \in C : t[c] = Sum(h.entries, {e \in E : category[e] = c})
    <2> TAKE c \in C
    <2>1. {e \in E : category[e] = c} = InCategory(h, c)
      BY DEF InCategory
    <2>2. QED  BY <2>1 DEF CategoryTotal
  <1> HIDE DEF C, category
  <1>4. SumsOf(h.entries, E, category, C, t)
    BY <1>1, <1>2, <1>3 DEF SumsOf
  <1>5. QED  BY <1>4, SumGroups DEF C

(* What a plan costs: the entries linked to it or else, in an open month,  *)
(* what was planned.                                                       *)
Linked(h, p) == {e \in DOMAIN h.entries : h.entries[e].plan = p}
Cost(h) == [p \in DOMAIN h.planned |->
              IF Linked(h, p) # {} THEN Sum(h.entries, Linked(h, p))
              ELSE IF h.closed THEN 0 ELSE h.planned[p].amount]

LEMMA EachCountedOnce ==
    ASSUME NEW h, MonthlyRows(h.entries), MonthlyRows(h.planned)
    PROVE  Committed(h) =
              Sum(h.entries, {e \in DOMAIN h.entries : h.entries[e].plan \notin DOMAIN h.planned})
              + Total(Cost(h), DOMAIN h.planned)
  <1> DEFINE E == DOMAIN h.entries
             D == DOMAIN h.planned
             plan == [e \in E |-> h.entries[e].plan]
             unplanned == {e \in E : plan[e] \notin D}
             planned == {e \in E : plan[e] \in D}
             a == AmountsOf(h.entries)
             d == AmountsOf(h.planned)
             spent == [p \in D |-> Sum(h.entries, Linked(h, p))]
             U == Unmatched(h)
             due == [p \in D |-> IF p \in U THEN d[p] ELSE 0]
             cost == Cost(h)
  <1>1. \A p \in D : Linked(h, p) \in SUBSET E
    BY DEF Linked
  <1>2. unplanned \in SUBSET E /\ planned \in SUBSET E /\ U \in SUBSET D
    BY DEF Unmatched
  <1>3. \A p \in U : Linked(h, p) = {}
    BY DEF Unmatched, Occurred, Linked
  <1>4. \A p \in D \ U : h.closed \/ Linked(h, p) # {}
    BY DEF Unmatched, Occurred, Linked
  <1>5. Numbers(d, D) /\ Numbers(a, E) /\ IsFiniteSet(D)
    BY SumNumbers DEF MonthlyRows
  <1>6. Sum(h.entries, {}) = 0
    BY <1>5, SumIs, TotalType
  <1>7. \A p \in D : spent[p] \in Int
    BY <1>1, SumNumbers
  <1>8. \A p \in D : cost[p] = spent[p] + due[p]
    <2> TAKE p \in D
    <2>1. CASE p \in U
      <3>1. Linked(h, p) = {} /\ ~h.closed
        BY <1>3, <2>1 DEF Unmatched
      <3>2. spent[p] = 0 /\ due[p] = h.planned[p].amount /\ cost[p] = h.planned[p].amount
        BY <1>6, <2>1, <3>1 DEF Cost, AmountsOf
      <3>3. h.planned[p].amount \in Int
        BY DEF MonthlyRows
      <3>4. QED  BY <3>2, <3>3
    <2>2. CASE p \notin U
      <3>1. due[p] = 0
        BY <2>2
      <3>2. cost[p] = spent[p]
        BY <1>4, <1>6, <2>2 DEF Cost
      <3>3. QED  BY <1>7, <3>1, <3>2
    <2>3. QED  BY <2>1, <2>2
  <1>9. \A p \in D : due[p] \in Int
    BY <1>5 DEF Numbers
  <1>10. Total(cost, D) = Total(spent, D) + Total(due, D)
    <2>1. Numbers(spent, D) /\ Numbers(due, D)
      BY <1>5, <1>7, <1>9 DEF Numbers
    <2> HIDE DEF spent, due, cost, D
    <2>2. QED  BY <1>8, <2>1, TotalPlus
  <1>11. Total(due, D) = Sum(h.planned, U)
    <2>1. Numbers(due, D) /\ IsFiniteSet(D \ U) /\ IsFiniteSet(U)
      BY <1>2, <1>5, <1>9, FS_Subset DEF Numbers
    <2>2. Total(due, D) = Total(due, U) + Total(due, D \ U)
      <3>1. U \cup (D \ U) = D /\ U \cap (D \ U) = {}
        BY <1>2
      <3> HIDE DEF U, D, due
      <3>2. QED  BY <2>1, <3>1, TotalUnion
    <2>3. \A p \in D \ U : due[p] = 0
      OBVIOUS
    <2>4. Total(due, D \ U) = 0
      <3> HIDE DEF due
      <3>1. QED  BY <2>1, <2>3, TotalZero
    <2>5. \A p \in U : due[p] = d[p]
      BY <1>2
    <2>6. Numbers(due, U)
      BY <1>2, <1>9, <2>1 DEF Numbers
    <2>7. Total(due, U) = Total(d, U)
      <3> HIDE DEF due, U, d
      <3>1. QED  BY <2>5, <2>6, TotalSame
    <2>8. Total(d, U) = Sum(h.planned, U) /\ Total(d, U) \in Int
      BY <1>2, SumIs, SumNumbers
    <2> HIDE DEF due, U, d, D
    <2>9. QED  BY <2>2, <2>4, <2>7, <2>8
  <1>12. Total(spent, D) = Sum(h.entries, planned)
    <2>1. \A p \in D : spent[p] = Sum(h.entries, {e \in planned : plan[e] = p})
      <3> TAKE p \in D
      <3>1. {e \in planned : plan[e] = p} = Linked(h, p)
        BY DEF Linked
      <3>2. QED  BY <3>1
    <2>2. \A e \in planned : plan[e] \in D
      OBVIOUS
    <2> HIDE DEF spent, plan, planned, D
    <2>3. SumsOf(h.entries, planned, plan, D, spent)
      BY <1>2, <1>5, <2>1, <2>2 DEF SumsOf
    <2>4. QED  BY <2>3, SumGroups
  <1>13. Sum(h.entries, E) = Sum(h.entries, unplanned) + Sum(h.entries, planned)
    <2>1. unplanned \cup planned = E /\ unplanned \cap planned = {}
      OBVIOUS
    <2> HIDE DEF unplanned, planned, a
    <2>2. Total(a, E) = Total(a, unplanned) + Total(a, planned)
      BY <1>5, <2>1, TotalUnion
    <2>3. QED  BY <1>2, <2>2, SumIs DEF a
  <1>14. Committed(h) = Sum(h.entries, E) + Sum(h.planned, U)
    BY DEF Committed
  <1>15. {e \in E : h.entries[e].plan \notin D} = unplanned
    OBVIOUS
  <1>16. /\ Sum(h.entries, unplanned) \in Int /\ Sum(h.entries, planned) \in Int
         /\ Sum(h.planned, U) \in Int
    BY <1>2, SumNumbers
  <1> HIDE DEF E, D, unplanned, planned, U, cost, spent, due
  <1>17. Committed(h) = Sum(h.entries, unplanned) + Total(cost, D)
    BY <1>10, <1>11, <1>12, <1>13, <1>14, <1>16
  <1>18. QED  BY <1>15, <1>17 DEF E, D, cost

(* What counts for a month depends on what is set up to it.                *)
LEMMA ContributionUpTo ==
    ASSUME NEW a, NEW b, NEW m \in Int,
           DOMAIN a = DOMAIN b, DOMAIN a \subseteq Int,
           \A k \in DOMAIN a : k <= m => a[k] = b[k]
    PROVE  ContributionFor(a, m) = ContributionFor(b, m)
  <1>1. SetBy(a, m) = SetBy(b, m)
    BY DEF SetBy
  <1>2. CASE SetBy(a, m) = {}
    BY <1>1, <1>2 DEF ContributionFor
  <1>3. CASE SetBy(a, m) # {}
    <2> DEFINE S == SetBy(a, m)
               last == CHOOSE k \in S : \A j \in S : j <= k
    <2>1. S \subseteq Int /\ \A k \in S : k <= m
      BY DEF SetBy
    <2>2. \E k \in S : \A j \in S : j <= k
      <3> HIDE DEF S
      <3>1. QED  BY <1>3, <2>1, LargestBelow DEF S
    <2>3. last \in S
      BY <2>2
    <2>4. a[last] = b[last]
      BY <2>3 DEF SetBy
    <2>5. ContributionFor(a, m) = a[last] /\ ContributionFor(b, m) = b[last]
      BY <1>1, <1>3 DEF ContributionFor
    <2>6. QED  BY <2>4, <2>5
  <1>4. QED  BY <1>2, <1>3

(* The latest of the settings up to a month is what counts for it. *)
LEMMA LatestCounts ==
    ASSUME NEW a, NEW m, SetBy(a, m) \subseteq Int, NEW l \in SetBy(a, m),
           \A j \in SetBy(a, m) : j <= l
    PROVE  ContributionFor(a, m) = a[l]
  <1> DEFINE S == SetBy(a, m)
             last == CHOOSE k \in S : \A j \in S : j <= k
  <1>1. last \in S /\ \A j \in S : j <= last
    OBVIOUS
  <1>2. last <= l /\ l <= last /\ last \in Int /\ l \in Int
    BY <1>1
  <1>3. last = l
    <2> HIDE DEF last
    <2>1. QED  BY <1>2
  <1>4. S # {}
    OBVIOUS
  <1>5. QED  BY <1>3, <1>4 DEF ContributionFor

(* One more setting counts from its month to the next one that has its own.*)
CountsFrom(a, b, f, c, m) ==
    ContributionFor(b, m) =
        IF f <= m /\ \A k \in f + 1 .. m : a[k] = Unset
        THEN c ELSE ContributionFor(a, m)

LEMMA CountsToTheNext ==
    ASSUME NEW D, D \subseteq Int, NEW a, DOMAIN a = D, NEW f \in D, NEW c, c # Unset,
           NEW b, b = [a EXCEPT ![f] = c], NEW m \in Int, f + 1 .. m \subseteq D
    PROVE  CountsFrom(a, b, f, c, m)
  <1> DEFINE later == {k \in f + 1 .. m : a[k] # Unset}
  <1>1. /\ DOMAIN b = D /\ b[f] = c /\ f \in Int
        /\ \A k \in D : k # f => b[k] = a[k]
    OBVIOUS
  <1>2. /\ SetBy(a, m) \subseteq Int /\ SetBy(b, m) \subseteq Int
        /\ \A k \in SetBy(a, m) : k <= m
    BY <1>1 DEF SetBy
  <1>3. CASE m < f
    <2>1. \A k \in D : k <= m => b[k] = a[k]
      BY <1>1, <1>3
    <2>2. ContributionFor(b, m) = ContributionFor(a, m)
      BY <1>1, <2>1, ContributionUpTo
    <2>3. ~(f <= m)
      BY <1>1, <1>3
    <2>4. QED  BY <2>2, <2>3 DEF CountsFrom
  <1>4. CASE f <= m /\ later = {}
    <2>1. f \in SetBy(b, m)
      BY <1>1, <1>4 DEF SetBy
    <2>2. \A j \in SetBy(b, m) : j <= f
      <3> SUFFICES ASSUME NEW j \in SetBy(b, m) PROVE j <= f
        OBVIOUS
      <3>1. j \in D /\ j <= m /\ b[j] # Unset /\ j \in Int
        BY <1>1 DEF SetBy
      <3>2. f < j => j \in f + 1 .. m /\ a[j] # Unset
        BY <1>1, <3>1
      <3>3. ~(f < j)
        BY <1>4, <3>2
      <3>4. QED  BY <1>1, <3>1, <3>3
    <2>3. ContributionFor(b, m) = c
      BY <1>1, <1>2, <2>1, <2>2, LatestCounts
    <2>4. QED  BY <1>4, <2>3 DEF CountsFrom
  <1>5. CASE f <= m /\ later # {}
    <2>1. PICK k \in f + 1 .. m : a[k] # Unset
      BY <1>5
    <2>2. k \in SetBy(a, m)
      BY <1>1, <2>1 DEF SetBy
    <2>3. PICK l \in SetBy(a, m) : \A j \in SetBy(a, m) : j <= l
      BY <1>2, <2>2, LargestBelow
    <2>4. l \in Int /\ f < l
      BY <1>1, <1>2, <2>1, <2>2, <2>3
    <2>5. SetBy(b, m) \subseteq SetBy(a, m) \cup {f} /\ l \in SetBy(b, m)
      BY <1>1, <2>3, <2>4 DEF SetBy
    <2>6. \A j \in SetBy(b, m) : j <= l
      BY <1>1, <2>3, <2>4, <2>5
    <2>7. ContributionFor(b, m) = b[l] /\ ContributionFor(a, m) = a[l]
      BY <1>2, <2>3, <2>5, <2>6, LatestCounts
    <2>8. b[l] = a[l]
      BY <1>1, <2>3, <2>4 DEF SetBy
    <2>9. QED  BY <2>1, <2>7, <2>8 DEF CountsFrom
  <1>6. QED  BY <1>1, <1>3, <1>4, <1>5

-----------------------------------------------------------------------------
(* The import. *)

(* Of finitely many names one is the last. *)
LEMMA LastOfNames ==
    ASSUME NEW S, IsFiniteSet(S), S \subseteq Name
    PROVE  \A T \in SUBSET S : T # {} => LastOf(T) \in T
  <1> DEFINE IsLast(a, T) == \A b \in T : a = b \/ Before(b, a)
             Good == {T \in SUBSET S : T # {} => \E a \in T : IsLast(a, T)}
  <1>1. {} \in Good
    OBVIOUS
  <1>2. ASSUME NEW T \in SUBSET S, NEW x \in S, T \in Good, x \notin T
        PROVE  T \cup {x} \in Good
    <2>1. CASE T = {}
      BY <2>1
    <2>2. CASE T # {}
      <3>1. PICK a \in T : IsLast(a, T)
        BY <1>2, <2>2
      <3>2. \A b \in S : b \in [word : Int, caps : Int, wide : Int]
        BY DEF Name
      <3>3. \A b \in S : /\ b.word \in Int /\ b.caps \in Int /\ b.wide \in Int
                         /\ b = [word |-> b.word, caps |-> b.caps, wide |-> b.wide]
        BY <3>2
      <3>4. a \in S /\ (Before(x, a) \/ Before(a, x) \/ a = x)
        BY <3>3 DEF Before
      <3>5. \A b \in T : Before(b, a) /\ Before(a, x) => Before(b, x)
        BY <3>3, <3>4 DEF Before
      <3>6. IsLast(a, T \cup {x}) \/ IsLast(x, T \cup {x})
        BY <1>2, <3>1, <3>4, <3>5
      <3>7. QED  BY <3>1, <3>6
    <2>3. QED  BY <2>1, <2>2
  <1>3. ASSUME NEW T \in SUBSET S PROVE T \in Good
    <2>1. IsFiniteSet(T)
      BY FS_Subset
    <2>2. \A U \in SUBSET T, x \in T : U \in Good /\ x \notin U => U \cup {x} \in Good
      BY <1>2
    <2> HIDE DEF Good
    <2>3. QED  BY <1>1, <2>1, <2>2, SetInduction
  <1>4. QED  BY <1>3 DEF LastOf

(* The types of a file, one after the other. *)
ImportSteps(g, S, cats, m) ==
    /\ g \in [SUBSET S -> Seq(Name)]
    /\ g[{}] = cats
    /\ \A T \in SUBSET S : T # {} =>
          g[T] = WithCategory(g[T \ {LastOf(T)}], LastOf(T), m)
    /\ WithTypes(cats, S, m) = g[S]

LEMMA ImportFold ==
    ASSUME NEW S, IsFiniteSet(S), S \subseteq Name, NEW cats \in Seq(Name), NEW m
    PROVE  \E g : ImportSteps(g, S, cats, m)
  <1> DEFINE V == Seq(Name)
             pick == [T \in SUBSET S |-> LastOf(T)]
             F == [x \in S |-> [v \in V |-> WithCategory(v, x, m)]]
             Eq(g) == g = [T \in SUBSET S |-> IF T = {} THEN cats
                             ELSE WithCategory(g[T \ {LastOf(T)}], LastOf(T), m)]
             it == CHOOSE g : Eq(g)
  <1> HIDE DEF Eq, it
  <1>1. \A T \in SUBSET S : T # {} => pick[T] = LastOf(T) /\ LastOf(T) \in T
    BY LastOfNames
  <1>2. \A x \in S, v \in V : F[x][v] = WithCategory(v, x, m) /\ F[x][v] \in V
    BY DEF WithCategory
  <1> HIDE DEF V, F, pick
  <1>3. Foldable(S, V, cats, pick, F)
    BY <1>1, <1>2 DEF Foldable, V
  <1>4. PICK g : IsFold(g, S, V, cats, pick, F)
    BY <1>3, FoldExists
  <1>5. \A T \in SUBSET S : T # {} =>
          g[T] = WithCategory(g[T \ {LastOf(T)}], LastOf(T), m)
    <2> SUFFICES ASSUME NEW T \in SUBSET S, T # {}
                 PROVE  g[T] = WithCategory(g[T \ {LastOf(T)}], LastOf(T), m)
      OBVIOUS
    <2>1. g[T] = F[pick[T]][g[T \ {pick[T]}]]
      BY <1>4 DEF IsFold
    <2>2. pick[T] = LastOf(T) /\ LastOf(T) \in S /\ g[T \ {LastOf(T)}] \in V
      BY <1>1, <1>4 DEF IsFold
    <2>3. QED  BY <1>2, <2>1, <2>2
  <1>6. Eq(g)
    BY <1>4, <1>5 DEF IsFold, Eq
  <1>7. Eq(it)
    BY <1>6 DEF it
  <1>8. WithTypes(cats, S, m) = it[S]
    BY DEF WithTypes, MapThenFoldSet, it, Eq
  <1> DEFINE Good == {T \in SUBSET S : it[T] = g[T]}
  <1>9. {} \in Good
    BY <1>4, <1>7 DEF IsFold, Eq
  <1>10. \A T \in SUBSET S : T # {} /\ T \ {pick[T]} \in Good => T \in Good
    <2> SUFFICES ASSUME NEW T \in SUBSET S, T # {}, T \ {pick[T]} \in Good
                 PROVE  it[T] = g[T]
      OBVIOUS
    <2>1. it[T] = WithCategory(it[T \ {LastOf(T)}], LastOf(T), m)
      BY <1>7 DEF Eq
    <2>2. it[T \ {LastOf(T)}] = g[T \ {LastOf(T)}]
      BY <1>1
    <2>3. QED  BY <1>5, <2>1, <2>2
  <1>11. S \in Good
    <2> HIDE DEF Good
    <2>1. Inductive(S, pick, Good)
      BY <1>1, <1>9, <1>10 DEF Inductive
    <2>2. QED  BY <2>1, PickInduction
  <1>12. g \in [SUBSET S -> Seq(Name)] /\ g[{}] = cats
    BY <1>4 DEF IsFold, V
  <1>13. QED  BY <1>5, <1>8, <1>11, <1>12 DEF ImportSteps

(* What the categories are after some of the types had their turn: the     *)
(* earlier ones are where they were, a new one is called like a type that  *)
(* is not mapped and like no other category, and each type that is not     *)
(* mapped finds one.                                                       *)
Grown(cats, after, types, m) ==
    /\ after \in Seq(Name)
    /\ Len(cats) <= Len(after)
    /\ \A i \in 1 .. Len(cats) : after[i] = cats[i]
    /\ \A i \in Len(cats) + 1 .. Len(after), j \in 1 .. Len(after) :
          i # j => Folded(after[i]) # Folded(after[j])
    /\ \A i \in Len(cats) + 1 .. Len(after) :
          after[i] \in types /\ m.types[after[i]] = 0
    /\ \A name \in types : m.types[name] = 0 =>
          \E i \in 1 .. Len(after) : Folded(after[i]) = Folded(name)

LEMMA GrownByOne ==
    ASSUME NEW cats \in Seq(Name), NEW before, NEW types, NEW name \in types, name \in Name,
           NEW m,
           Grown(cats, before, types \ {name}, m)
    PROVE  Grown(cats, WithCategory(before, name, m), types, m)
  <1> DEFINE after == Append(before, name)
             n == Len(before)
  <1>1. Len(cats) \in Nat /\ n \in Nat /\ before \in Seq(Name)
    BY DEF Grown
  <1>2. CASE m.types[name] # 0 \/ CategoryByName(before, name) # {}
    <2>1. WithCategory(before, name, m) = before
      BY <1>2 DEF WithCategory
    <2>2. m.types[name] = 0 => \E i \in 1 .. n : Folded(before[i]) = Folded(name)
      BY <1>1, <1>2 DEF CategoryByName
    <2>3. QED  BY <2>1, <2>2 DEF Grown
  <1>3. CASE m.types[name] = 0 /\ CategoryByName(before, name) = {}
    <2>1. WithCategory(before, name, m) = after
      BY <1>3 DEF WithCategory
    <2>2. /\ after \in Seq(Name) /\ Len(after) = n + 1 /\ after[n + 1] = name
          /\ \A i \in 1 .. n : after[i] = before[i]
      BY <1>1
    <2>3. \A i \in 1 .. n : Folded(before[i]) # Folded(name)
      BY <1>1, <1>3 DEF CategoryByName
    <2>4. \A i \in 1 .. n + 1 : i \in 1 .. n \/ i = n + 1
      BY <1>1
    <2> HIDE DEF after, n
    <2>5. Len(cats) <= n /\ \A i \in 1 .. Len(cats) : i \in 1 .. n /\ after[i] = cats[i]
      BY <1>1, <2>2 DEF Grown, n
    <2>6. ASSUME NEW i \in Len(cats) + 1 .. n + 1, NEW j \in 1 .. n + 1, i # j
          PROVE  Folded(after[i]) # Folded(after[j])
      <3>1. i \in 1 .. n + 1 /\ (i \in Len(cats) + 1 .. n \/ i = n + 1)
        BY <1>1
      <3>2. CASE i = n + 1
        BY <2>2, <2>3, <2>4, <2>6, <3>2
      <3>3. CASE j = n + 1
        BY <2>2, <2>3, <2>4, <2>6, <3>1, <3>3
      <3>4. CASE i # n + 1 /\ j # n + 1
        BY <2>2, <2>4, <2>6, <3>1, <3>4 DEF Grown, n
      <3>5. QED  BY <3>2, <3>3, <3>4
    <2>7. ASSUME NEW x \in types, m.types[x] = 0
          PROVE  \E i \in 1 .. n + 1 : Folded(after[i]) = Folded(x)
      <3>1. n + 1 \in 1 .. n + 1 /\ \A i \in 1 .. n : i \in 1 .. n + 1
        BY <1>1
      <3>2. CASE x = name
        BY <2>2, <3>1, <3>2
      <3>3. CASE x # name
        <4>1. PICK i \in 1 .. n : Folded(before[i]) = Folded(x)
          BY <2>7, <3>3 DEF Grown, n
        <4>2. QED  BY <2>2, <3>1, <4>1
      <3>4. QED  BY <3>2, <3>3
    <2>8. Len(cats) <= n + 1
      BY <1>1, <2>5
    <2>9. ASSUME NEW i \in Len(cats) + 1 .. n + 1
          PROVE  after[i] \in types /\ m.types[after[i]] = 0
      <3>1. i \in Len(cats) + 1 .. n \/ i = n + 1
        BY <1>1
      <3>2. CASE i = n + 1
        BY <1>3, <2>2, <3>2
      <3>3. CASE i \in Len(cats) + 1 .. n
        <4>1. after[i] = before[i]
          BY <1>1, <2>2, <3>3
        <4>2. before[i] \in types /\ m.types[before[i]] = 0
          BY <3>3 DEF Grown, n
        <4>3. QED  BY <4>1, <4>2
      <3>4. QED  BY <3>1, <3>2, <3>3
    <2>10. QED  BY <2>1, <2>2, <2>5, <2>6, <2>7, <2>8, <2>9 DEF Grown
  <1>4. QED  BY <1>2, <1>3

LEMMA TypesGrow ==
    ASSUME NEW S, IsFiniteSet(S), S \subseteq Name, NEW cats \in Seq(Name), NEW m
    PROVE  Grown(cats, WithTypes(cats, S, m), S, m)
  <1>1. PICK g : ImportSteps(g, S, cats, m)
    BY ImportFold
  <1> DEFINE pick == [T \in SUBSET S |-> LastOf(T)]
             Good == {T \in SUBSET S : Grown(cats, g[T], T, m)}
  <1>2. {} \in Good
    <2>1. Len(cats) \in Nat
      OBVIOUS
    <2>2. Grown(cats, cats, {}, m)
      BY <2>1 DEF Grown
    <2>3. QED  BY <1>1, <2>2 DEF ImportSteps
  <1>3. \A T \in SUBSET S : T # {} => pick[T] = LastOf(T) /\ LastOf(T) \in T
    BY LastOfNames
  <1> HIDE DEF pick
  <1>4. \A T \in SUBSET S : T # {} /\ T \ {pick[T]} \in Good => T \in Good
    <2> SUFFICES ASSUME NEW T \in SUBSET S, T # {}, T \ {pick[T]} \in Good
                 PROVE  Grown(cats, g[T], T, m)
      OBVIOUS
    <2>1. LastOf(T) \in T /\ LastOf(T) \in Name /\ Grown(cats, g[T \ {LastOf(T)}], T \ {LastOf(T)}, m)
      BY <1>3
    <2>2. QED  BY <1>1, <2>1, GrownByOne DEF ImportSteps
  <1>5. S \in Good
    <2> HIDE DEF Good
    <2>1. Inductive(S, pick, Good)
      BY <1>2, <1>3, <1>4 DEF Inductive
    <2>2. QED  BY <2>1, PickInduction
  <1>6. QED  BY <1>1, <1>5 DEF ImportSteps

(* There is a new category for each name that was not there, and only for  *)
(* those.                                                                  *)
NewNames(cats, types, m) ==
    {Folded(x) : x \in {y \in types : m.types[y] = 0}}
    \ {Folded(cats[k]) : k \in DOMAIN cats}

OneForEach(cats, after, names) ==
    /\ Len(after) = Len(cats) + Cardinality(names)
    /\ {Folded(after[k]) : k \in Len(cats) + 1 .. Len(after)} = names

LEMMA OneForEachName ==
    ASSUME NEW types, NEW m, NEW cats \in Seq(Name), NEW after,
           Grown(cats, after, types, m)
    PROVE  OneForEach(cats, after, NewNames(cats, types, m))
  <1> DEFINE new == Len(cats) + 1 .. Len(after)
             added == NewNames(cats, types, m)
             f == [k \in new |-> Folded(after[k])]
  <1>1. /\ after \in Seq(Name) /\ Len(cats) \in Nat /\ Len(after) \in Nat
        /\ Len(cats) <= Len(after) /\ DOMAIN cats = 1 .. Len(cats)
    BY DEF Grown
  <1>2. \A k \in 1 .. Len(after) : k \in new \/ k \in 1 .. Len(cats)
    BY <1>1
  <1>3. \A k \in new : k \in 1 .. Len(after)
    BY <1>1
  <1>4. \A k \in 1 .. Len(cats) : k \in 1 .. Len(after) /\ k \notin new /\ after[k] = cats[k]
    BY <1>1 DEF Grown
  <1>5. /\ \A i \in new, k \in 1 .. Len(after) : i # k => Folded(after[i]) # Folded(after[k])
        /\ \A k \in new : after[k] \in types /\ m.types[after[k]] = 0
        /\ \A x \in types : m.types[x] = 0 =>
              \E k \in 1 .. Len(after) : Folded(after[k]) = Folded(x)
    BY DEF Grown
  <1> HIDE DEF new
  <1>6. \A k \in new : f[k] \in added
    <2> SUFFICES ASSUME NEW k \in new PROVE Folded(after[k]) \in added
      OBVIOUS
    <2>1. Folded(after[k]) \in {Folded(x) : x \in {y \in types : m.types[y] = 0}}
      BY <1>5
    <2>2. \A i \in DOMAIN cats : Folded(cats[i]) # Folded(after[k])
      BY <1>1, <1>4, <1>5
    <2>3. QED  BY <2>1, <2>2 DEF NewNames
  <1>7. \A x \in added : \E k \in new : f[k] = x
    <2> TAKE x \in added
    <2>1. PICK y \in types : m.types[y] = 0 /\ x = Folded(y)
      BY DEF NewNames
    <2>2. PICK k \in 1 .. Len(after) : Folded(after[k]) = x
      BY <1>5, <2>1
    <2>3. k \notin 1 .. Len(cats)
      BY <1>1, <1>4, <2>2 DEF NewNames
    <2>4. QED  BY <1>2, <2>2, <2>3
  <1>8. \A i, k \in new : f[i] = f[k] => i = k
    BY <1>3, <1>5
  <1> HIDE DEF added
  <1>9. f \in Bijection(new, added)
    <2>1. f \in [new -> added]
      BY <1>6
    <2> HIDE DEF f
    <2>2. QED  BY <1>7, <1>8, <2>1 DEF Bijection, Injection, Surjection, IsInjective
  <1>10. {Folded(after[k]) : k \in new} = added
    BY <1>6, <1>7
  <1> HIDE DEF f
  <1>11. IsFiniteSet(new) /\ Cardinality(new) = Len(after) - Len(cats)
    <2>1. Len(cats) + 1 \in Int /\ Len(after) \in Int
      BY <1>1
    <2>2. /\ IsFiniteSet(new)
          /\ Cardinality(new) = IF Len(cats) + 1 > Len(after) THEN 0
                                ELSE Len(after) - (Len(cats) + 1) + 1
      BY <2>1, FS_Interval DEF new
    <2>3. QED  BY <1>1, <2>2
  <1>12. Cardinality(added) = Cardinality(new)
    BY <1>9, <1>11, FS_Bijection DEF ExistsBijection
  <1>13. Len(after) = Len(cats) + Cardinality(added)
    BY <1>1, <1>11, <1>12
  <1>14. QED  BY <1>10, <1>13 DEF OneForEach, new, added

LEMMA ImportsWhole ==
    ASSUME NEW rows, IsFiniteSet(DOMAIN rows),
           \A i \in DOMAIN rows : rows[i].type \in Name,
           NEW before \in Seq(Name), NEW m
    PROVE  Entered(CommitImport(rows, m, before), rows, m, before)
  <1> DEFINE valid == {i \in DOMAIN rows : ~rows[i].err}
             unmapped == {i \in valid : m.types[rows[i].type] = 0}
             added == {Folded(rows[i].type) : i \in unmapped}
                      \ {Folded(before[k]) : k \in DOMAIN before}
             ids == 1 .. Len(before) + Cardinality(added)
             refused == \E i \in valid : \/ m.payers[rows[i].payer] \notin UserIds
                                         \/ m.types[rows[i].type] \notin ids \cup {0}
             types == TypesOf(rows)
             after == WithTypes(before, types, m)
             entries == [i \in valid |-> [payer |-> m.payers[rows[i].payer],
                                          category |-> CategoryOf(after, rows[i].type, m)]]
             r == CommitImport(rows, m, before)
             done == /\ DOMAIN r.entries = valid
                     /\ \A i \in valid :
                           /\ r.entries[i].payer = m.payers[rows[i].payer]
                           /\ r.entries[i].category \in ids
                           /\ IF i \in unmapped
                              THEN Folded(r.categories[r.entries[i].category])
                                      = Folded(rows[i].type)
                              ELSE r.entries[i].category = m.types[rows[i].type]
                     /\ DOMAIN r.categories = ids
                     /\ \A k \in DOMAIN before : r.categories[k] = before[k]
                     /\ {Folded(r.categories[k]) : k \in ids \ DOMAIN before} = added
  <1>0. Entered(r, rows, m, before) <=> IF refused THEN r = NotImported ELSE done
    BY Zenon DEF Entered
  <1>1. /\ types = {rows[i].type : i \in valid}
        /\ PayersOf(rows) = {rows[i].payer : i \in valid}
    BY DEF TypesOf, PayersOf, ValidRows
  <1>2. r = IF Refused(rows, m, after) THEN NotImported
            ELSE [categories |-> after, entries |-> entries]
    BY DEF CommitImport, ValidRows
  <1>3. IsFiniteSet(types) /\ types \subseteq Name
    <2> DEFINE type == [i \in valid |-> rows[i].type]
    <2>1. IsFiniteSet(valid)
      BY FS_Subset
    <2>2. types = {type[i] : i \in valid}
      BY <1>1
    <2>3. type \in Surjection(valid, types)
      BY <2>2 DEF Surjection
    <2>4. types \subseteq Name
      BY <2>2
    <2> HIDE DEF types, valid, type
    <2>5. QED  BY <2>1, <2>3, <2>4, FS_Surjection
  <1>4. Grown(before, after, types, m)
    <2> HIDE DEF types
    <2>1. QED  BY <1>3, TypesGrow
  <1>5. added = NewNames(before, types, m)
    BY <1>1 DEF NewNames
  <1> HIDE DEF types, after, entries, added, r
  <1>6. /\ Len(after) = Len(before) + Cardinality(added)
        /\ {Folded(after[k]) : k \in Len(before) + 1 .. Len(after)} = added
    <2>1. OneForEach(before, after, added)
      BY <1>4, <1>5, OneForEachName
    <2>2. QED  BY <2>1 DEF OneForEach
  <1>7. /\ after \in Seq(Name) /\ Len(before) \in Nat /\ Len(after) \in Nat
        /\ DOMAIN before = 1 .. Len(before) /\ DOMAIN after = 1 .. Len(after)
        /\ Len(before) <= Len(after)
    BY <1>4 DEF Grown
  <1>8. ids = DOMAIN after
    BY <1>6, <1>7
  <1>9. Refused(rows, m, after) <=> refused
    <2>1. (\E payer \in PayersOf(rows) : m.payers[payer] \notin UserIds)
          <=> \E i \in valid : m.payers[rows[i].payer] \notin UserIds
      BY <1>1
    <2> HIDE DEF ids
    <2>2. (\E name \in types : m.types[name] \notin ids \cup {0})
          <=> \E i \in valid : m.types[rows[i].type] \notin ids \cup {0}
      BY <1>1
    <2>3. TypesOf(rows) = types
      BY DEF types
    <2> HIDE DEF valid
    <2>4. QED  BY <1>8, <2>1, <2>2, <2>3 DEF Refused
  <1>10. ASSUME refused PROVE Entered(r, rows, m, before)
    <2>1. r = NotImported
      BY <1>2, <1>9, <1>10
    <2> HIDE DEF done, refused
    <2>2. QED  BY <1>0, <1>10, <2>1
  <1>11. ASSUME ~refused PROVE Entered(r, rows, m, before)
    <2>1. r.categories = after /\ r.entries = entries
      BY <1>2, <1>9, <1>11
    <2>2. DOMAIN entries = valid
      BY DEF entries
    <2>3. ASSUME NEW i \in valid
          PROVE  /\ entries[i].payer = m.payers[rows[i].payer]
                 /\ entries[i].category \in ids
                 /\ IF i \in unmapped
                    THEN Folded(after[entries[i].category]) = Folded(rows[i].type)
                    ELSE entries[i].category = m.types[rows[i].type]
      <3>1. /\ entries[i].payer = m.payers[rows[i].payer]
            /\ entries[i].category = CategoryOf(after, rows[i].type, m)
        BY DEF entries
      <3>2. rows[i].type \in types
        BY <1>1
      <3>3. CASE m.types[rows[i].type] # 0
        <4>1. m.types[rows[i].type] \in ids
          BY <1>11, <3>3
        <4>2. i \notin unmapped /\ entries[i].category = m.types[rows[i].type]
          BY <3>1, <3>3 DEF CategoryOf
        <4>3. QED  BY <3>1, <4>1, <4>2
      <3>4. CASE m.types[rows[i].type] = 0
        <4> DEFINE found == CategoryByName(after, rows[i].type)
        <4> HIDE DEF ids
        <4>1. /\ found \subseteq Nat /\ found \subseteq ids
              /\ \A k \in found : Folded(after[k]) = Folded(rows[i].type)
          <5>1. \A k \in found : k \in DOMAIN after
                                /\ Folded(after[k]) = Folded(rows[i].type)
            BY DEF CategoryByName
          <5> HIDE DEF found
          <5>2. QED  BY <1>7, <1>8, <5>1
        <4>2. \E k \in 1 .. Len(after) : Folded(after[k]) = Folded(rows[i].type)
          BY <1>4, <3>2, <3>4 DEF Grown
        <4>3. found # {}
          BY <1>7, <4>2 DEF CategoryByName
        <4> HIDE DEF found
        <4>4. First(found) \in found
          BY <4>1, <4>3, SmallestOf DEF First
        <4>5. entries[i].category = First(found)
          BY <3>1, <3>4 DEF CategoryOf, found
        <4>6. QED  BY <3>1, <3>4, <4>1, <4>4, <4>5
      <3>5. QED  BY <3>3, <3>4
    <2>4. \A k \in DOMAIN before : after[k] = before[k]
      BY <1>4, <1>7 DEF Grown
    <2>5. {Folded(after[k]) : k \in ids \ DOMAIN before} = added
      <3>1. DOMAIN after \ DOMAIN before = Len(before) + 1 .. Len(after)
        BY <1>7
      <3>2. QED  BY <1>6, <1>8, <3>1
    <2>6. done
      <3> HIDE DEF ids, valid, unmapped
      <3>1. QED  BY <1>8, <2>1, <2>2, <2>3, <2>4, <2>5
    <2> HIDE DEF done, refused
    <2>7. QED  BY <1>0, <1>11, <2>6
  <1>12. QED  BY <1>10, <1>11 DEF r

-----------------------------------------------------------------------------
(* The theorems. *)

(* What the properties need of the states in between: contributions are    *)
(* amounts by month, and what a call returned is what its function returns.*)
Figures(h) ==
    [committed |-> Committed(h), margin |-> Margin(h),
     balance |-> [u \in Users |-> Balance(h, u)],
     categories |-> [c \in CategoriesOf(h) |-> CategoryTotal(h, c)]]

Shape ==
    /\ set \in [Users -> [Months -> Contributions \cup {Unset}]]
    /\ call \in Calls \cup {Nothing}
    /\ Returned("ParseCents") => result = ParseCents(call.arg)
    /\ Returned("entryAmount") =>
          result = entryAmount(call.arg.tx, call.arg.requested)
    /\ Returned("DetectTransfers") => result = DetectTransfers(call.arg)
    /\ Returned("Evaluate") =>
          result = Evaluate(call.arg.card, call.arg.private, call.arg.household)
    /\ Returned("ComputeMonth") => result = Figures(call.arg)
    /\ Returned("CommitImport") =>
          result = CommitImport(call.arg.rows, call.arg.mapping, call.arg.categories)

LEMMA ShapeStep == ASSUME Shape, [Next]_vars PROVE Shape'
  <1> USE DEF Shape, Called, Return, Returned
  <1>1. CASE UNCHANGED vars
    BY <1>1 DEF vars
  <1>2. CASE DoParseCents
    BY <1>2 DEF DoParseCents
  <1>3. CASE DoEntryAmount
    BY <1>3 DEF DoEntryAmount
  <1>4. CASE DoDetectTransfers
    BY <1>4 DEF DoDetectTransfers
  <1>5. CASE DoEvaluate
    BY <1>5 DEF DoEvaluate
  <1>6. CASE DoComputeMonth
    BY <1>6 DEF DoComputeMonth, Figures
  <1>7. CASE DoCommitImport
    BY <1>7 DEF DoCommitImport
  <1>8. ASSUME NEW u \in Users, NEW from \in Months, NEW c \in Contributions,
               SetContribution(u, from, c)
        PROVE  Shape'
    <2>1. set' = [set EXCEPT ![u][from] = c] /\ UNCHANGED <<call, result>>
      BY <1>8 DEF SetContribution, Upserted
    <2>2. set' \in [Users -> [Months -> Contributions \cup {Unset}]]
      BY <2>1
    <2>3. QED  BY <2>1, <2>2
  <1>9. QED
    BY <1>1, <1>2, <1>3, <1>4, <1>5, <1>6, <1>7, <1>8 DEF Next

THEOREM ShapeKept == Spec => []Shape
  <1>1. Init => Shape
    BY DEF Init, Shape, Returned
  <1>2. QED  BY <1>1, ShapeStep, PTL DEF Spec

(* An amount of at most two decimals that fits is read as exactly that     *)
(* many cents, and read again from what is printed of it                   *)
(* (domain/money.go), for a type of any width.                             *)
THEOREM ReadExactly == Spec => []ParsedExactly
  <1>1. Shape => ParsedExactly
    <2> SUFFICES ASSUME Shape, Returned("ParseCents") PROVE ParsedExactly
      BY DEF ParsedExactly
    <2>1. call \in Calls /\ call.fn = "ParseCents"
      BY DEF Shape, Returned
    <2>2. call.arg \in Text
      BY <2>1, DomainAssumption DEF Calls
    <2>3. result = ParseCents(call.arg)
      BY DEF Shape
    <2>4. QED  BY <2>2, <2>3, ReadsWhatItPrints, DomainAssumption DEF ParsedExactly
  <1>2. QED  BY <1>1, ShapeKept, PTL

(* The ledger gets at most the transaction, whatever part is asked for     *)
(* (service/inbox.go, entryAmount), for a type of any width.               *)
THEOREM NoMoreThanTheWhole == Spec => []PartOfTheWhole
  <1>1. Shape => PartOfTheWhole
    <2> SUFFICES ASSUME Shape, Returned("entryAmount"), result # Invalid,
                        Smallest \notin {call.arg.tx, call.arg.requested}
                 PROVE  IF call.arg.tx <= 0
                        THEN 0 <= result /\ result <= -call.arg.tx
                        ELSE -call.arg.tx <= result /\ result <= 0
      BY DEF PartOfTheWhole
    <2>1. call \in Calls /\ call.fn = "entryAmount"
      BY DEF Shape, Returned
    <2>2. call.arg \in Requests
      BY <2>1 DEF Calls
    <2>3. call.arg.tx \in Cents /\ call.arg.requested \in Cents
      BY <2>2, DomainAssumption
    <2>4. result = entryAmount(call.arg.tx, call.arg.requested)
      BY DEF Shape
    <2>5. QED  BY <2>3, <2>4, BetweenNothingAndAll, DomainAssumption
  <1>2. QED  BY <1>1, ShapeKept, PTL

(* Transactions that are found to be transfers can be told apart into      *)
(* pairs, and none that could be one is left (domain/transfer.go), in a    *)
(* pool of any length.                                                     *)
THEOREM TransfersInPairs == Spec => []PairedOff
  <1>1. Shape => PairedOff
    <2> SUFFICES ASSUME Shape, Returned("DetectTransfers") PROVE PairedOff
      BY DEF PairedOff
    <2>1. call \in Calls /\ call.fn = "DetectTransfers"
      BY DEF Shape, Returned
    <2>2. call.arg \in Pool
      BY <2>1, DomainAssumption DEF Calls, Pool, Transaction
    <2>3. result = DetectTransfers(call.arg)
      BY DEF Shape
    <2>4. QED  BY <2>2, <2>3, TransfersPaired DEF PairedOff, Coupled
  <1>2. QED  BY <1>1, ShapeKept, PTL

(* The longest of the matching household rules decides, unless a rule that *)
(* dismisses matches (domain/rules.go), for any lists of rules.            *)
THEOREM LongestRuleWins == Spec => []LongestWins
  <1>1. Shape => LongestWins
    <2> SUFFICES ASSUME Shape, Returned("Evaluate") PROVE LongestWins
      BY DEF LongestWins
    <2> DEFINE rules == call.arg.household
               best == FoldLeft(Longer, [len |-> -1, says |-> 0], rules)
               hits == {i \in DOMAIN rules : rules[i].matches}
               longest == {i \in hits : \A j \in hits : rules[j].len <= rules[i].len}
               dismissed == call.arg.card
                            \/ \E i \in DOMAIN call.arg.private : call.arg.private[i].matches
    <2>1. call \in Calls /\ call.fn = "Evaluate"
      BY DEF Shape, Returned
    <2>2. call.arg \in RuleLists
      BY <2>1 DEF Calls
    <2>3. rules \in Seq(HouseholdRule) /\ DOMAIN rules = 1 .. Len(rules)
      BY <2>2, DomainAssumption DEF HouseholdRule
    <2>4. result = IF dismissed THEN Dismissal
                   ELSE [dismiss |-> FALSE, says |-> best.says]
      BY DEF Shape, Evaluate
    <2>5. IF hits = {} THEN best.says = 0
          ELSE \E i \in longest : best.says = rules[i].says
      BY <2>3, BestOfRules
    <2> HIDE DEF rules, best, dismissed
    <2>6. CASE dismissed
      BY <2>4, <2>6 DEF LongestWins, dismissed
    <2>7. CASE ~dismissed
      BY <2>4, <2>5, <2>7 DEF LongestWins, dismissed, rules, NoSuggestion
    <2>8. QED  BY <2>6, <2>7
  <1>2. QED  BY <1>1, ShapeKept, PTL

(* A planned expense counts once, with the entries linked to it or with    *)
(* what was planned (domain/report.go), for any entries and plans.         *)
THEOREM PlannedCountOnce == Spec => []CountedOnce
  <1>1. Shape => CountedOnce
    <2> SUFFICES ASSUME Shape, Returned("ComputeMonth") PROVE CountedOnce
      BY DEF CountedOnce
    <2>1. call.arg \in Households /\ result = Figures(call.arg)
      BY DEF Shape, Returned, Calls
    <2> DEFINE h == call.arg
               linked(p) == {e \in DOMAIN h.entries : h.entries[e].plan = p}
               cost(p) == IF linked(p) # {} THEN Sum(h.entries, linked(p))
                          ELSE IF h.closed THEN 0 ELSE h.planned[p].amount
    <2>2. MonthlyRows(h.entries) /\ MonthlyRows(h.planned)
      BY <2>1, DomainAssumption
    <2>3. \A p \in DOMAIN h.planned : Cost(h)[p] = cost(p)
      BY DEF Cost, Linked
    <2>4. MapThenSumSet(cost, DOMAIN h.planned) = Total(Cost(h), DOMAIN h.planned)
      <3> DEFINE D == DOMAIN h.planned
                 a == Cost(h)
                 any(T) == CHOOSE x \in T : TRUE
                 P(g) == g = [T \in SUBSET D |->
                                IF T = {} THEN 0 ELSE cost(any(T)) + g[T \ {any(T)}]]
                 Q(g) == g = [T \in SUBSET D |->
                                IF T = {} THEN 0 ELSE a[any(T)] + g[T \ {any(T)}]]
      <3>1. \A T \in SUBSET D : T # {} => cost(any(T)) = a[any(T)]
        <4> TAKE T \in SUBSET D
        <4>1. T # {} => any(T) \in D
          OBVIOUS
        <4> HIDE DEF cost, any, D
        <4>2. QED  BY <2>3, <4>1 DEF D
      <3>2. \A g : P(g) <=> Q(g)
        <4> HIDE DEF cost, a
        <4>1. QED  BY <3>1
      <3>3. (CHOOSE g : P(g)) = (CHOOSE g : Q(g))
        <4> HIDE DEF P, Q
        <4>1. QED  BY <3>2
      <3>4. MapThenSumSet(cost, D) = (CHOOSE g : P(g))[D]
        <4> HIDE DEF D, cost
        <4>1. QED  BY DEF MapThenSumSet, MapThenFoldSet
      <3>5. Total(a, D) = (CHOOSE g : Q(g))[D]
        <4> HIDE DEF D, a
        <4>1. QED  BY DEF Total, MapThenSumSet, MapThenFoldSet
      <3>6. QED  BY <3>3, <3>4, <3>5
    <2>5. result.committed = Committed(h)
      BY <2>1 DEF Figures
    <2>6. QED  BY <2>2, <2>4, <2>5, EachCountedOnce DEF CountedOnce
  <1>2. QED  BY <1>1, ShapeKept, PTL

(* What the members have left adds up to the margin, and the categories to *)
(* what was spent (domain/report.go, service/report.go), for any household.*)
THEOREM MonthAddsUp == Spec => []AddsUp
  <1>1. Shape => AddsUp
    <2> SUFFICES ASSUME Shape, Returned("ComputeMonth") PROVE AddsUp
      BY DEF AddsUp
    <2> DEFINE h == call.arg
    <2>1. h \in Households /\ result = Figures(h)
      BY DEF Shape, Returned, Calls
    <2>2. /\ MonthlyRows(h.entries) /\ MonthlyRows(h.planned) /\ IsFiniteSet(Users)
          /\ \A u \in Users : h.contribs[u] \in Int
      BY <2>1, DomainAssumption
    <2>3. /\ \A u \in Users : result.balance[u] = Balance(h, u)
          /\ \A c \in CategoriesOf(h) : result.categories[c] = CategoryTotal(h, c)
          /\ DOMAIN result.categories = CategoriesOf(h)
          /\ result.margin = Margin(h)
      BY <2>1 DEF Figures
    <2> HIDE DEF h
    <2>4. Total(result.balance, Users) = result.margin
      BY <2>2, <2>3, BalancesAddUp
    <2>5. Total(result.categories, CategoriesOf(h)) = Sum(h.entries, DOMAIN h.entries)
      BY <2>2, <2>3, CategoriesAddUp
    <2>6. QED  BY <2>3, <2>4, <2>5 DEF AddsUp, Total, h
  <1>2. QED  BY <1>1, ShapeKept, PTL

(* A file is refused as a whole, only for an id that no row has by then,   *)
(* or each row without an error becomes one entry, in the category of its  *)
(* type, and each name that is not there one category                      *)
(* (service/importcsv.go, CommitImport), for any file.                     *)
THEOREM ImportsEachRow == Spec => []ImportedWhole
  <1>1. Shape => ImportedWhole
    <2> SUFFICES ASSUME Shape, Returned("CommitImport") PROVE ImportedWhole
      BY DEF ImportedWhole
    <2> DEFINE f == call.arg
    <2>1. f \in Imports /\ result = CommitImport(f.rows, f.mapping, f.categories)
      BY DEF Shape, Returned, Calls
    <2>2. /\ IsFiniteSet(DOMAIN f.rows)
          /\ \A i \in DOMAIN f.rows : f.rows[i].type \in Name
          /\ f.categories \in Seq(Name)
      BY <2>1, DomainAssumption
    <2> HIDE DEF f
    <2>3. Entered(result, f.rows, f.mapping, f.categories)
      BY <2>1, <2>2, ImportsWhole
    <2>4. QED  BY <2>3 DEF ImportedWhole, f
  <1>2. QED  BY <1>1, ShapeKept, PTL

(* A contribution counts from the month it is set for to the next one that *)
(* has an amount of its own, for that member and no other month            *)
(* (store/planning.go), whatever was set before and for any months.        *)
THEOREM ContributionsCountOn == Spec => SetFromMonthOn
  <1>1. ASSUME Shape, NEW u \in Users, NEW from \in Months, NEW c \in Contributions,
               SetContribution(u, from, c), NEW v \in Users, NEW m \in Months
        PROVE  ContributionFor(set'[v], m) =
                  IF v = u /\ from <= m /\ \A k \in from + 1 .. m : set[u][k] = Unset
                  THEN c ELSE ContributionFor(set[v], m)
    <2>1. set' = [set EXCEPT ![u][from] = c] /\ c >= 0
      BY <1>1 DEF SetContribution, Upserted
    <2>2. set \in [Users -> [Months -> Contributions \cup {Unset}]]
      BY <1>1 DEF Shape
    <2>3. CASE v # u
      BY <2>1, <2>2, <2>3
    <2>4. CASE v = u
      <3>1. DOMAIN set[u] = Months /\ set'[u] = [set[u] EXCEPT ![from] = c]
        BY <2>1, <2>2
      <3>2. /\ Months \subseteq Int /\ m \in Int /\ c # Unset
            /\ from + 1 .. m \subseteq Months
        BY <2>1, DomainAssumption DEF Months
      <3>3. CountsFrom(set[u], set'[u], from, c, m)
        BY <3>1, <3>2, CountsToTheNext
      <3>4. QED  BY <2>4, <3>3 DEF CountsFrom
    <2>5. QED  BY <2>3, <2>4
  <1>2. Shape =>
           \A u \in Users, from \in Months, c \in Contributions :
              SetContribution(u, from, c) =>
                 \A v \in Users, m \in Months :
                    ContributionFor(set'[v], m) =
                       IF v = u /\ from <= m /\ \A k \in from + 1 .. m : set[u][k] = Unset
                       THEN c ELSE ContributionFor(set[v], m)
    BY <1>1
  <1>3. QED  BY <1>2, ShapeKept, PTL DEF Spec, SetFromMonthOn
=============================================================================
