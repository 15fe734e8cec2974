---------------------------- MODULE SharedLedger ----------------------------
(***************************************************************************)
(* What the inbox promises about one household, with no database, no       *)
(* requests in flight and no row identifiers: a bank transaction is        *)
(* private until its owner flags it, the shared ledger shows an entry for  *)
(* a transaction exactly while it is flagged, and each operation is one    *)
(* indivisible step.  Module Inbox is shown to implement it.               *)
(***************************************************************************)
CONSTANTS
    Txs,        \* bank transactions
    Owner,      \* Owner[t]: the user whose bank reports t, who pays for it
    Vals        \* what both users may edit of an entry

VARIABLES
    status,     \* status[t]: where t is in its life
    ledger      \* ledger[t]: the lines the shared ledger shows for t

vars == <<status, ledger>>

Init ==
    /\ status = [t \in Txs |-> "absent"]
    /\ ledger = [t \in Txs |-> {}]

Line(t, v) == {[payer |-> Owner[t], val |-> v]}

(* Bank data or rules sort transactions: new ones arrive in the inbox or   *)
(* already dismissed, and ones still in the inbox may be dismissed.  The   *)
(* ledger is not touched.                                                  *)
Triage ==
    /\ status' \in [Txs -> {"absent", "new", "flagged", "dismissed"}]
    /\ \A t \in Txs :
          \/ status'[t] = status[t]
          \/ status[t] = "absent" /\ status'[t] \in {"new", "dismissed"}
          \/ status[t] = "new" /\ status'[t] = "dismissed"
    /\ UNCHANGED ledger

Flag(t, v) ==
    /\ status[t] \in {"new", "dismissed"}
    /\ status' = [status EXCEPT ![t] = "flagged"]
    /\ ledger' = [ledger EXCEPT ![t] = Line(t, v)]

Edit(t, v) ==
    /\ status[t] = "flagged"
    /\ ledger' = [ledger EXCEPT ![t] = Line(t, v)]
    /\ UNCHANGED status

(* Unflagging, or deleting the ledger entry: one and the same promise. *)
Return(t) ==
    /\ status[t] = "flagged"
    /\ status' = [status EXCEPT ![t] = "new"]
    /\ ledger' = [ledger EXCEPT ![t] = {}]

Restore(t) ==
    /\ status[t] = "dismissed"
    /\ status' = [status EXCEPT ![t] = "new"]
    /\ UNCHANGED ledger

Next ==
    \/ Triage
    \/ \E t \in Txs : Return(t) \/ Restore(t)
    \/ \E t \in Txs, v \in Vals : Flag(t, v) \/ Edit(t, v)

Spec == Init /\ [][Next]_vars
=============================================================================
