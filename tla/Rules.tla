------------------------------- MODULE Rules --------------------------------
(***************************************************************************)
(* What the rules say of a payee: internal/domain/rules.go.  A rule is the *)
(* length of its pattern, whether it matches the payee at hand, and what   *)
(* it suggests; lists are in the order the store returns them.             *)
(***************************************************************************)
EXTENDS Integers, Sequences, SequencesExt

NoSuggestion == [dismiss |-> FALSE, says |-> 0]
Dismissal == [dismiss |-> TRUE, says |-> 0]

Shorter(best, rule) ==                 \* mutant: the last match wins
    IF rule.matches THEN [len |-> rule.len, says |-> rule.says] ELSE best
Longer(best, rule) ==
    IF rule.matches /\ rule.len > best.len
    THEN [len |-> rule.len, says |-> rule.says]
    ELSE best

(* Built-in patterns, then private rules, then household rules. *)
Evaluate(card, private, household) ==
    IF card \/ \E i \in DOMAIN private : private[i].matches
    THEN Dismissal
    ELSE [dismiss |-> FALSE,
          says |-> FoldLeft(Longer, [len |-> -1, says |-> 0], household).says]
=============================================================================
