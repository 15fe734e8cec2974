----------------------------- MODULE Transfers ------------------------------
(***************************************************************************)
(* Transfers between a member's own accounts: internal/domain/transfer.go. *)
(* A pool is a sequence of transactions; one is named by its position.     *)
(***************************************************************************)
EXTENDS Integers, Sequences, SequencesExt

CONSTANTS Window        \* how far apart in days the two sides may be posted

Apart(a, b) == IF a.posted < b.posted THEN b.posted - a.posted
               ELSE a.posted - b.posted

Pairs(a, b) ==
    /\ a.amount # 0
    /\ a.account # b.account
    /\ a.amount = -b.amount
    /\ Apart(a, b) <= Window

(* The partners that are left for a transaction, all behind it. *)
Left(txs, used, i) == {j \in i + 1 .. Len(txs) : j \notin used /\ Pairs(txs[i], txs[j])}

(* From the front, each transaction not used yet takes the first of them. *)
NeverUsed(txs, used, i) ==             \* mutant: used ones are paired again
    IF Left(txs, {}, i) = {} THEN used
    ELSE used \cup {i, CHOOSE j \in Left(txs, {}, i) :
                          \A k \in Left(txs, {}, i) : j <= k}
Paired(txs, used, i) ==
    IF i \in used \/ Left(txs, used, i) = {} THEN used
    ELSE used \cup {i, CHOOSE j \in Left(txs, used, i) :
                          \A k \in Left(txs, used, i) : j <= k}

DetectTransfers(txs) ==
    FoldLeft(LAMBDA used, i : Paired(txs, used, i), {},
             [i \in 1 .. Len(txs) |-> i])
=============================================================================
