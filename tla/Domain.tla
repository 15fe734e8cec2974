------------------------------- MODULE Domain -------------------------------
(***************************************************************************)
(* The pure functions of internal/domain, called with every input of a     *)
(* bounded set, and the members' contributions as they are set.  A call is *)
(* in flight from the start and returns in one step; the properties relate *)
(* what it returns to what it was given, in terms other than those of its  *)
(* definition.                                                             *)
(***************************************************************************)
EXTENDS Amounts, Transfers, Rules, MonthReport, ImportCSV

CONSTANTS
    Texts,          \* inputs of ParseCents
    Requests,       \* inputs of entryAmount: the transaction, and the part
    Pools,          \* inputs of DetectTransfers
    RuleLists,      \* inputs of Evaluate
    Households,     \* inputs of ComputeMonth
    Imports,        \* inputs of CommitImport
    Contributions,  \* amounts a form may ask a member to contribute
    LastMonth,      \* bound on the months
    Nothing         \* no call, no result

Months == 1 .. LastMonth

(* Entries or plans, by id. *)
MonthlyRows(rows) ==
    /\ IsFiniteSet(DOMAIN rows)
    /\ \A i \in DOMAIN rows : rows[i].payer \in Users /\ rows[i].amount \in Int

ASSUME DomainAssumption ==
    /\ Half \in Nat \ {0}
    /\ Invalid \notin Int
    /\ Texts \subseteq Text
    /\ Requests \subseteq [tx : Cents, requested : Cents]
    /\ Contributions \subseteq Int
    /\ LastMonth \in Nat
    /\ Unset \notin Nat
    /\ Window \in Int
    /\ \A pool \in Pools : pool \in Seq([account : Int, amount : Int, posted : Int])
    /\ RuleLists \subseteq
          [card : BOOLEAN, private : Seq([matches : BOOLEAN]),
           household : Seq([len : Nat, matches : BOOLEAN, says : Int])]
    /\ IsFiniteSet(Users)
    /\ \A h \in Households :
          /\ MonthlyRows(h.entries) /\ MonthlyRows(h.planned)
          /\ \A u \in Users : h.contribs[u] \in Int
    /\ \A f \in Imports :
          /\ IsFiniteSet(DOMAIN f.rows)
          /\ \A i \in DOMAIN f.rows : f.rows[i].type \in Name
          /\ f.categories \in Seq(Name)

VARIABLES
    call,       \* the function that was called, and its input
    result,     \* what it returned
    set         \* contributions: set[u][m] is u's amount from month m on

vars == <<call, result, set>>

Calls ==
    [fn : {"ParseCents"}, arg : Texts]
    \cup [fn : {"entryAmount"}, arg : Requests]
    \cup [fn : {"DetectTransfers"}, arg : Pools]
    \cup [fn : {"Evaluate"}, arg : RuleLists]
    \cup [fn : {"ComputeMonth"}, arg : Households]
    \cup [fn : {"CommitImport"}, arg : Imports]

Init ==
    /\ call \in Calls \cup {Nothing}
    /\ result = Nothing
    /\ set = [u \in Users |-> [m \in Months |-> Unset]]

Called(fn) == call # Nothing /\ call.fn = fn /\ result = Nothing
Returned(fn) == call # Nothing /\ call.fn = fn /\ result # Nothing

Return(value) ==
    /\ result' = value
    /\ UNCHANGED <<call, set>>

DoParseCents == Called("ParseCents") /\ Return(ParseCents(call.arg))

DoEntryAmount ==
    Called("entryAmount") /\ Return(entryAmount(call.arg.tx, call.arg.requested))

DoDetectTransfers == Called("DetectTransfers") /\ Return(DetectTransfers(call.arg))

DoEvaluate ==
    /\ Called("Evaluate")
    /\ Return(Evaluate(call.arg.card, call.arg.private, call.arg.household))

DoComputeMonth ==
    /\ Called("ComputeMonth")
    /\ Return([committed |-> Committed(call.arg), margin |-> Margin(call.arg),
               balance |-> [u \in Users |-> Balance(call.arg, u)],
               categories |-> [c \in CategoriesOf(call.arg) |->
                                 CategoryTotal(call.arg, c)]])

DoCommitImport ==
    /\ Called("CommitImport")
    /\ Return(CommitImport(call.arg.rows, call.arg.mapping, call.arg.categories))

(* The one row of contributions a user has for a month is written. *)
EveryRow(user, from, amount) ==        \* mutant: every row of the user
    [set EXCEPT ![user] = [m \in Months |->
        IF m = from \/ set[user][m] # Unset THEN amount ELSE Unset]]
Upserted(user, from, amount) == [set EXCEPT ![user][from] = amount]

SetContribution(user, from, amount) ==
    /\ call = Nothing
    /\ amount >= 0
    /\ set' = Upserted(user, from, amount)
    /\ UNCHANGED <<call, result>>

Next ==
    \/ DoParseCents \/ DoEntryAmount \/ DoDetectTransfers \/ DoEvaluate
    \/ DoComputeMonth \/ DoCommitImport
    \/ \E u \in Users, from \in Months, c \in Contributions : SetContribution(u, from, c)

Spec == Init /\ [][Next]_vars

-----------------------------------------------------------------------------
(* The digits behind the point as the number they are. *)
Digits(frac) == FoldLeft(LAMBDA n, d : 10 * n + d, 0, frac)

Exact(s) == (IF s.neg THEN -1 ELSE 1)
            * (s.whole * 10^Len(s.frac) + Digits(s.frac)) * 100

(* domain/money.go: an amount of at most two decimals is read as exactly   *)
(* that many cents as long as they fit the type, and what is printed of it *)
(* is read as the same amount again.                                       *)
ParsedExactly ==
    Returned("ParseCents") =>
        LET s == call.arg IN
        /\ Len(s.frac) > 2 => result = Invalid
        /\ Len(s.frac) <= 2 /\ s.whole * 100 + Hundredths(s.frac) <= Largest =>
              /\ result # Invalid
              /\ result * 10^Len(s.frac) = Exact(s)
              /\ ParseCents(String(result)) = result

(* service/inbox.go, entryAmount: whatever part is asked for, the ledger   *)
(* gets no more than the transaction, as spent where it is money out and   *)
(* as earned where it is money in.  The smallest amount is left out: it    *)
(* has no opposite, and as a part of income it passes the comparison.      *)
PartOfTheWhole ==
    /\ Returned("entryAmount") /\ result # Invalid
    /\ Smallest \notin {call.arg.tx, call.arg.requested}
    => IF call.arg.tx <= 0
       THEN 0 <= result /\ result <= -call.arg.tx
       ELSE -call.arg.tx <= result /\ result <= 0

(* domain/transfer.go: "Each transaction is used at most once": those      *)
(* found can be told apart into pairs, each of two sides of one transfer,  *)
(* and no two that were left would have made another.                      *)
PairedOff ==
    Returned("DetectTransfers") =>
        LET fits(i, j) == Pairs(call.arg[i], call.arg[j])
        IN /\ \E other \in [result -> result] :
                 \A i \in result : other[i] # i /\ other[other[i]] = i
                                   /\ fits(i, other[i])
           /\ \A i, j \in DOMAIN call.arg \ result : ~fits(i, j)

(* domain/rules.go: "the longest matching pattern wins", wherever it is    *)
(* listed; a rule that dismisses goes before all of them.                  *)
LongestWins ==
    Returned("Evaluate") =>
        LET rules == call.arg.household
            hits == {i \in DOMAIN rules : rules[i].matches}
            longest == {i \in hits : \A j \in hits : rules[j].len <= rules[i].len}
        IN IF call.arg.card \/ \E i \in DOMAIN call.arg.private : call.arg.private[i].matches
           THEN result = Dismissal
           ELSE IF hits = {} THEN result = NoSuggestion
           ELSE ~result.dismiss /\ \E i \in longest : result.says = rules[i].says

(* domain/report.go: in an open month an expense that was planned counts   *)
(* once: with the entries that are linked to it or, as long as there are   *)
(* none, with what was planned.                                            *)
CountedOnce ==
    Returned("ComputeMonth") =>
        LET h == call.arg
            linked(p) == {e \in DOMAIN h.entries : h.entries[e].plan = p}
            unplanned == {e \in DOMAIN h.entries : h.entries[e].plan \notin DOMAIN h.planned}
            cost(p) == IF linked(p) # {} THEN Sum(h.entries, linked(p))
                       ELSE IF h.closed THEN 0 ELSE h.planned[p].amount
        IN result.committed =
              Sum(h.entries, unplanned) + MapThenSumSet(cost, DOMAIN h.planned)

(* domain/report.go and service/report.go: what the members have left adds *)
(* up to the margin, also where one of them paid what was planned for the  *)
(* other; and the table of categories adds up to what was spent.           *)
AddsUp ==
    Returned("ComputeMonth") =>
        /\ MapThenSumSet(LAMBDA u : result.balance[u], Users) = result.margin
        /\ MapThenSumSet(LAMBDA c : result.categories[c], DOMAIN result.categories)
              = Sum(call.arg.entries, DOMAIN call.arg.entries)

(* What an import of a file returns: r. *)
Entered(r, rows, m, before) ==
    LET valid == {i \in DOMAIN rows : ~rows[i].err}
        unmapped == {i \in valid : m.types[rows[i].type] = 0}
        added == {Folded(rows[i].type) : i \in unmapped}
                 \ {Folded(before[k]) : k \in DOMAIN before}
        ids == 1 .. Len(before) + Cardinality(added)
    IN IF \E i \in valid : \/ m.payers[rows[i].payer] \notin UserIds
                           \/ m.types[rows[i].type] \notin ids \cup {0}
       THEN r = NotImported
       ELSE /\ DOMAIN r.entries = valid
            /\ \A i \in valid :
                  /\ r.entries[i].payer = m.payers[rows[i].payer]
                  /\ r.entries[i].category \in ids
                  /\ IF i \in unmapped
                     THEN Folded(r.categories[r.entries[i].category]) = Folded(rows[i].type)
                     ELSE r.entries[i].category = m.types[rows[i].type]
            /\ DOMAIN r.categories = ids
            /\ \A k \in DOMAIN before : r.categories[k] = before[k]
            /\ {Folded(r.categories[k]) : k \in ids \ DOMAIN before} = added

(* service/importcsv.go, CommitImport: nothing is written if a row without *)
(* an error has a payer who is no user or a type mapped to an id that no   *)
(* category has, those the file itself adds included.  Otherwise each such *)
(* row becomes one entry of its user, in the category its type was mapped  *)
(* to or in one called like it.  One category is added for each name that  *)
(* is not there, however its letters of ASCII are capitalised in the file. *)
ImportedWhole ==
    Returned("CommitImport") =>
        Entered(result, call.arg.rows, call.arg.mapping, call.arg.categories)

(* store/planning.go, SetContribution and ContributionFor: setting what a  *)
(* member contributes from a month on changes what counts for that member  *)
(* in the months from there to the next one that has an amount of its own, *)
(* and in no other: "earlier months are never rewritten"                   *)
(* (docs/superpowers/specs/2026-09-11-so-budget-design.md:191), nor are    *)
(* later settings and those of the other member.                           *)
SetFromMonthOn ==
    [][\A u \in Users, from \in Months, c \in Contributions :
          SetContribution(u, from, c) =>
              \A v \in Users, m \in Months :
                  ContributionFor(set'[v], m) =
                      IF v = u /\ from <= m /\ \A k \in from + 1 .. m : set[u][k] = Unset
                      THEN c ELSE ContributionFor(set[v], m)]_vars
=============================================================================
