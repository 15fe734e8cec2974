------------------------------ MODULE Amounts -------------------------------
(***************************************************************************)
(* Amounts of money: internal/domain/money.go, the part of a transaction   *)
(* that is flagged (service/inbox.go, entryAmount), and the tolerance of   *)
(* the matching (domain/planning.go).                                      *)
(*                                                                         *)
(* Cents is a signed integer of the width of int64, and its arithmetic     *)
(* wraps.  A text is what ParseCents finds in it after it has              *)
(* removed blanks, "$" and ",": a sign, the digits before the point as a   *)
(* number, and the digits behind the point one by one.                     *)
(***************************************************************************)
EXTENDS Integers, Sequences

CONSTANTS
    Half,           \* half of what Cents can hold, 2^63 in the code
    Invalid         \* an error instead of an amount

Largest == Half - 1
Smallest == -Half
Cents == Smallest .. Largest

(* Conversion to the signed type. *)
Wrapped(n) == ((n - Smallest) % (2 * Half)) + Smallest

Negated(c) == Wrapped(-c)
Abs(c) == IF c < 0 THEN Negated(c) ELSE c

-----------------------------------------------------------------------------
Text == [neg : BOOLEAN, whole : Nat, frac : Seq(0 .. 9)]

(* The digits behind the point as hundredths. *)
LastDigit(frac) ==                     \* mutant: "7.5" is read as 7.05
    IF frac = <<>> THEN 0
    ELSE IF Len(frac) = 1 THEN frac[1] ELSE 10 * frac[1] + frac[2]
Hundredths(frac) ==
    IF frac = <<>> THEN 0
    ELSE 10 * frac[1] + (IF Len(frac) = 1 THEN 0 ELSE frac[2])

(* ParseUint keeps one bit free, the product with 100 does not. *)
ParseCents(s) ==
    IF Len(s.frac) > 2 \/ s.whole > Largest
    THEN Invalid
    ELSE LET c == Wrapped(s.whole * 100 + Hundredths(s.frac))
         IN IF s.neg THEN Negated(c) ELSE c

(* The smallest amount has no opposite, and prints as no amount at all. *)
String(c) ==
    IF Abs(c) < 0 THEN Invalid
    ELSE [neg |-> c < 0, whole |-> Abs(c) \div 100,
          frac |-> <<(Abs(c) \div 10) % 10, Abs(c) % 10>>]

-----------------------------------------------------------------------------
(* A flagged part: 0 stands for the whole; otherwise on the same side as   *)
(* the whole, and no more than it.                                         *)
AnyPart(tx, requested) ==              \* mutant: only the sign is checked
    IF requested = 0 THEN Negated(tx)
    ELSE IF tx = 0 \/ (Negated(tx) > 0) # (requested > 0) THEN Invalid
    ELSE requested
entryAmount(tx, requested) ==
    IF requested = 0 THEN Negated(tx)
    ELSE IF \/ tx = 0
            \/ (Negated(tx) > 0) # (requested > 0)
            \/ Abs(requested) > Abs(Negated(tx))
         THEN Invalid
         ELSE requested
=============================================================================
