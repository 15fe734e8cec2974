---------------------------- MODULE MonthReport -----------------------------
(***************************************************************************)
(* The figures of a month: internal/domain/report.go, the totals that      *)
(* internal/service/report.go and ledger.go add up, and the contribution   *)
(* that counts for a month (store/planning.go, ContributionFor).           *)
(*                                                                         *)
(* A month is a record: its entries by id, each with a payer, an amount, a *)
(* category and a plan (0 for none); the plans that apply to it by id,     *)
(* each with a payer and an amount; the members' contributions; and        *)
(* whether it is closed.                                                   *)
(***************************************************************************)
EXTENDS Integers, FiniteSetsExt

CONSTANTS
    Users,          \* the members of the household
    Unset           \* no row in contributions

-----------------------------------------------------------------------------
(* set[m]: the amount set from month m on, by one member. *)

SetBy(set, m) == {k \in DOMAIN set : k <= m /\ set[k] # Unset}

ContributionFor(set, m) ==
    IF SetBy(set, m) = {} THEN 0
    ELSE set[CHOOSE k \in SetBy(set, m) : \A j \in SetBy(set, m) : j <= k]

-----------------------------------------------------------------------------
(* ComputeMonth. *)

Sum(rows, S) == MapThenSumSet(LAMBDA i : rows[i].amount, S)

PaidBy(rows, u) == {i \in DOMAIN rows : rows[i].payer = u}

Occurred(h) == {h.entries[e].plan : e \in DOMAIN h.entries}

(* Plans that still count with their own amount. *)
StillDue(h) == DOMAIN h.planned \ Occurred(h)        \* mutant: closed or not
Unmatched(h) == IF h.closed THEN {} ELSE DOMAIN h.planned \ Occurred(h)

Spent(h, u) == Sum(h.entries, PaidBy(h.entries, u))

DueOfPayer(h, u) ==                    \* mutant: matched with another's entry
    Sum(h.planned, PaidBy(h.planned, u)
        \ (IF h.closed THEN {}
           ELSE {h.entries[e].plan : e \in PaidBy(h.entries, u)}))
PlannedUnmatched(h, u) == Sum(h.planned, Unmatched(h) \cap PaidBy(h.planned, u))

Balance(h, u) == h.contribs[u] - (Spent(h, u) + PlannedUnmatched(h, u))

Committed(h) == Sum(h.entries, DOMAIN h.entries) + Sum(h.planned, Unmatched(h))

Margin(h) == MapThenSumSet(LAMBDA u : h.contribs[u], Users) - Committed(h)

-----------------------------------------------------------------------------
(* MonthReport's table of categories, and the ledger's totals. *)

InCategory(h, c) == {e \in DOMAIN h.entries : h.entries[e].category = c}
CategoryTotal(h, c) == Sum(h.entries, InCategory(h, c))
CategoriesOf(h) == {h.entries[e].category : e \in DOMAIN h.entries}
=============================================================================
