----------------------------- MODULE ImportCSV ------------------------------
(***************************************************************************)
(* A CSV file of the household's earlier expenses, previewed and entered   *)
(* into the ledger: internal/service/importcsv.go.                         *)
(*                                                                         *)
(* A row is its payer, its type and whether it has an error.  A name is a  *)
(* word, how its letters of ASCII are capitalised (caps) and how its other *)
(* letters are (wide): CategoryByName, which compares with COLLATE NOCASE, *)
(* overlooks the former only, and everything else neither.  Categories are *)
(* a sequence of names by row id.  A mapping gives payers a user and types *)
(* a category, or 0.  Left out: dates, notes, and amounts, which the entry *)
(* has as the row has them or, where the mapping says so, negated.         *)
(***************************************************************************)
EXTENDS Integers, Sequences, SequencesExt

CONSTANTS
    UserIds,        \* rows of users
    NotImported     \* an error, and nothing written

Name == [word : Int, caps : Int, wide : Int]

(* What of a name COLLATE NOCASE compares. *)
Folded(name) == [word |-> name.word, wide |-> name.wide]

(* ParseImportCSV: names are taken from the rows without an error.         *)
ValidRows(rows) == {i \in DOMAIN rows : ~rows[i].err}
PayersOf(rows) == {rows[i].payer : i \in ValidRows(rows)}
TypesOf(rows) == {rows[i].type : i \in ValidRows(rows)}

(* The last of some names in the order they are sorted in. *)
Before(a, b) == \/ a.wide < b.wide
                \/ a.wide = b.wide /\ a.caps < b.caps
                \/ a.wide = b.wide /\ a.caps = b.caps /\ a.word < b.word
LastOf(names) == CHOOSE a \in names : \A b \in names : a = b \/ Before(b, a)

ByExactName(cats, name) ==             \* mutant: without COLLATE NOCASE
    {i \in DOMAIN cats : cats[i] = name}
CategoryByName(cats, name) ==
    {i \in DOMAIN cats : Folded(cats[i]) = Folded(name)}

First(ids) == CHOOSE i \in ids : \A j \in ids : i <= j

(* Types that are not mapped get the category of their name, if need be a  *)
(* new one; they have their turns in order.                                *)
WithCategory(cats, name, m) ==
    IF m.types[name] = 0 /\ CategoryByName(cats, name) = {} THEN Append(cats, name)
    ELSE cats
WithTypes(cats, types, m) ==
    MapThenFoldSet(LAMBDA name, acc : WithCategory(acc, name, m), cats,
                   LAMBDA name : name, LastOf, types)

CategoryOf(cats, name, m) ==
    IF m.types[name] # 0 THEN m.types[name] ELSE First(CategoryByName(cats, name))

(* An id that is no row of its table breaks a foreign key of the entry, as *)
(* it is inserted: the new categories are there by then.                   *)
Refused(rows, m, cats) ==
    \/ \E payer \in PayersOf(rows) : m.payers[payer] \notin UserIds
    \/ \E name \in TypesOf(rows) : m.types[name] \notin DOMAIN cats \cup {0}

CommitImport(rows, m, cats) ==
    LET after == WithTypes(cats, TypesOf(rows), m)
    IN IF Refused(rows, m, after) THEN NotImported
       ELSE [categories |-> after,
             entries |-> [i \in ValidRows(rows) |->
                            [payer |-> m.payers[rows[i].payer],
                             category |-> CategoryOf(after, rows[i].type, m)]]]
=============================================================================
