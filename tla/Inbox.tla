------------------------------- MODULE Inbox --------------------------------
(***************************************************************************)
(* The inbox of bank transactions and the shared household ledger:         *)
(* internal/service/inbox.go, the write half of ledger.go and sync.go, and *)
(* the statements of internal/store they run.                              *)
(*                                                                         *)
(* The database handle has one connection (store.go: SetMaxOpenConns(1)),  *)
(* so a statement on its own and a whole WithTx closure are indivisible,   *)
(* and nothing else is: a request that reads first and writes later is     *)
(* here one action per statement or closure, and other requests run in     *)
(* between.  A request handler of the web layer is a member of Procs; it   *)
(* may stop after any step (client gone, context cancelled, process        *)
(* killed), which loses the request and nothing the database committed.    *)
(*                                                                         *)
(* Left out: the sealed contents of a transaction other than its           *)
(* suggestion, and an entry's link to a planned expense.  Vals stands for  *)
(* the fields both users may edit (amount, category, note).                *)
(***************************************************************************)
EXTENDS Naturals, FiniteSets

CONSTANTS
    Users,          \* the members of the household
    Txs,            \* bank transactions, named by their id_hash
    Owner,          \* Owner[t]: the user whose bank reports t
    Transfers,      \* what DetectTransfers pairs up: disjoint pairs of one user
    Vals,           \* amount, category and note of an entry
    SuggestedVal,   \* what AcceptAllSuggestions flags with
    MaxId,          \* bound on the row ids of household_entries
    Procs,          \* request handlers running at the same time
    Ops,            \* the operations that may be requested
    NoTx,           \* a NULL source_ref
    NoRow           \* no row with this id

AllOps == {"Sync", "Flag", "EditFlagged", "Dismiss", "Restore", "Unflag",
           "AcceptAll", "ReapplyRules", "AddManual", "UpdateEntry",
           "DeleteEntry"}

(* Operations that may run at once in any number and still keep the tables *)
(* in step: their closures check again what a stale read may have missed.  *)
SafeOps == {"Sync", "Flag", "Unflag", "AcceptAll", "AddManual"}

States == {"absent", "new", "flagged", "dismissed"}
Ids == 1 .. MaxId
Row == [payer : Users, ref : Txs \cup {NoTx}, val : Vals]

ASSUME InboxAssumption ==
    /\ Owner \in [Txs -> Users]
    /\ Transfers \subseteq SUBSET Txs
    /\ SuggestedVal \in Vals
    /\ MaxId \in Nat
    /\ Ops \subseteq AllOps
    /\ NoTx \notin Txs
    /\ NoRow \notin Row
    /\ NoRow \notin Vals

VARIABLES
    txState,    \* transactions.state by id_hash; "absent": no such row
    suggested,  \* the rows whose blob suggests a category and the household
    entries,    \* household_entries by id; NoRow: no such row
    req         \* req[p]: what handler p is in the middle of

vars == <<txState, suggested, entries, req>>

-----------------------------------------------------------------------------
(* Requests.  A record holds what the handler keeps in its local variables *)
(* between two database steps; op names the step that comes next.          *)

Idle == [op |-> "idle"]

Request ==
    {Idle}
    \cup [op : {"Flag"}, tx : Txs, val : Vals, todo : SUBSET Txs]
    \cup [op : {"Accept"}, todo : SUBSET Txs]
    \cup [op : {"SetState"}, tx : Txs, to : {"new", "dismissed"}]
    \cup [op : {"Unflag"}, tx : Txs]
    \cup [op : {"EditFlagged"}, tx : Txs, val : Vals]
    \cup [op : {"UpdateEntry", "DeleteEntry"}, id : Ids, row : Row]
    \cup [op : {"ReapplyRules"}, rows : SUBSET Txs]
    \cup [op : {"SyncPool"}, user : Users, fresh : SUBSET Txs]
    \cup [op : {"SyncWrite"}, fresh : SUBSET Txs, rows : SUBSET Txs]

Ready(p, op) == req[p] = Idle /\ op \in Ops
At(p, op) == req[p].op = op
Become(p, r) == req' = [req EXCEPT ![p] = r]

Init ==
    /\ txState = [t \in Txs |-> "absent"]
    /\ suggested = {}
    /\ entries = [id \in Ids |-> NoRow]
    /\ req = [p \in Procs |-> Idle]

-----------------------------------------------------------------------------
(* The two tables. *)

Used(id) == entries[id] # NoRow

(* INTEGER PRIMARY KEY without AUTOINCREMENT: one more than the largest id *)
(* in the table, so the id of a deleted last row is given out again.       *)
NextId(id) ==
    /\ \A i \in Ids : Used(i) => i < id
    /\ id = 1 \/ (id - 1 \in Ids /\ Used(id - 1))

(* A row of the index household_entries_source. *)
IsSource(id, user, t) ==
    Used(id) /\ entries[id].payer = user /\ entries[id].ref = t

NoIndex(user, t) == FALSE              \* mutant: no unique index
HasSource(user, t) == \E id \in Ids : IsSource(id, user, t)

(* UPDATE transactions SET state: the rows among S get state s. *)
SetState(S, s) ==
    [t \in Txs |-> IF t \in S /\ txState[t] # "absent" THEN s ELSE txState[t]]

InState(user, s) == {t \in Txs : Owner[t] = user /\ txState[t] = s}

-----------------------------------------------------------------------------
(* Flag and AcceptAllSuggestions. *)

Flaggable(t) == txState[t] \notin {"absent", "flagged"}

FlagLoad(p, t, v) ==
    /\ Ready(p, "Flag")
    /\ Flaggable(t)
    /\ Become(p, [op |-> "Flag", tx |-> t, val |-> v, todo |-> {}])
    /\ UNCHANGED <<txState, suggested, entries>>

(* The items of the inbox page that carry both suggestions. *)
Suggestions(user) == InState(user, "new") \cap suggested

AcceptList(p, user) ==
    /\ Ready(p, "AcceptAll")
    /\ Become(p, [op |-> "Accept", todo |-> Suggestions(user)])
    /\ UNCHANGED <<txState, suggested, entries>>

AcceptLoad(p, t) ==
    /\ At(p, "Accept")
    /\ t \in req[p].todo
    /\ Flaggable(t)
    /\ Become(p, [op |-> "Flag", tx |-> t, val |-> SuggestedVal,
                  todo |-> req[p].todo \ {t}])
    /\ UNCHANGED <<txState, suggested, entries>>

(* The list is exhausted, or its next item was flagged meanwhile. *)
AcceptEnd(p) ==
    /\ At(p, "Accept")
    /\ req[p].todo = {} \/ \E t \in req[p].todo : ~Flaggable(t)
    /\ Become(p, Idle)
    /\ UNCHANGED <<txState, suggested, entries>>

ForgottenState(t) == txState           \* mutant: the state is not set
MisspeltState(t) == SetState({t}, "Flagged")     \* mutant: no such state
FlagSetsState(t) == SetState({t}, "flagged")

FlagCommit(p) ==
    /\ At(p, "Flag")
    /\ LET t == req[p].tx IN
       /\ ~HasSource(Owner[t], t)
       /\ \E id \in Ids :
             /\ NextId(id)
             /\ entries' = [entries EXCEPT ![id] =
                   [payer |-> Owner[t], ref |-> t, val |-> req[p].val]]
       /\ txState' = FlagSetsState(t)
    /\ Become(p, IF req[p].todo = {} THEN Idle
                 ELSE [op |-> "Accept", todo |-> req[p].todo])
    /\ UNCHANGED suggested

(* The unique index refuses the entry and the closure is rolled back. *)
FlagConflict(p) ==
    /\ At(p, "Flag")
    /\ HasSource(Owner[req[p].tx], req[p].tx)
    /\ Become(p, Idle)
    /\ UNCHANGED <<txState, suggested, entries>>

-----------------------------------------------------------------------------
(* Dismiss, Restore: the state is read and checked, then set blindly. *)

DismissLoad(p, t) ==
    /\ Ready(p, "Dismiss")
    /\ txState[t] = "new"
    /\ Become(p, [op |-> "SetState", tx |-> t, to |-> "dismissed"])
    /\ UNCHANGED <<txState, suggested, entries>>

RestoreLoad(p, t) ==
    /\ Ready(p, "Restore")
    /\ txState[t] = "dismissed"
    /\ Become(p, [op |-> "SetState", tx |-> t, to |-> "new"])
    /\ UNCHANGED <<txState, suggested, entries>>

SetStateWrite(p) ==
    /\ At(p, "SetState")
    /\ txState' = SetState({req[p].tx}, req[p].to)
    /\ Become(p, Idle)
    /\ UNCHANGED <<suggested, entries>>

-----------------------------------------------------------------------------
(* Unflag. *)

UnflagLoad(p, t) ==
    /\ Ready(p, "Unflag")
    /\ txState[t] = "flagged"
    /\ Become(p, [op |-> "Unflag", tx |-> t])
    /\ UNCHANGED <<txState, suggested, entries>>

EntryKept(t) == entries                \* mutant: the entry stays
WithoutSource(t) ==
    [id \in Ids |-> IF IsSource(id, Owner[t], t) THEN NoRow ELSE entries[id]]

UnflagCommit(p) ==
    /\ At(p, "Unflag")
    /\ entries' = WithoutSource(req[p].tx)
    /\ txState' = SetState({req[p].tx}, "new")
    /\ Become(p, Idle)
    /\ UNCHANGED suggested

-----------------------------------------------------------------------------
(* The ledger's own operations, on an entry of either user. *)

(* AddManualEntry; a row of CommitImport is the same insertion. *)
AddManual(p, user, v) ==
    /\ Ready(p, "AddManual")
    /\ \E id \in Ids :
          /\ NextId(id)
          /\ entries' = [entries EXCEPT ![id] =
                [payer |-> user, ref |-> NoTx, val |-> v]]
    /\ UNCHANGED <<txState, suggested, req>>

(* UpdateEntryFields; MatchEntry is the same with v the value it read. *)
UpdateLoad(p, id, v) ==
    /\ Ready(p, "UpdateEntry")
    /\ Used(id)
    /\ Become(p, [op |-> "UpdateEntry", id |-> id,
                  row |-> [entries[id] EXCEPT !.val = v]])
    /\ UNCHANGED <<txState, suggested, entries>>

EditLoad(p, t, v) ==
    /\ Ready(p, "EditFlagged")
    /\ txState[t] = "flagged"
    /\ Become(p, [op |-> "EditFlagged", tx |-> t, val |-> v])
    /\ UNCHANGED <<txState, suggested, entries>>

EditFind(p) ==
    /\ At(p, "EditFlagged")
    /\ LET t == req[p].tx IN
       \/ \E id \in Ids :
             /\ IsSource(id, Owner[t], t)
             /\ Become(p, [op |-> "UpdateEntry", id |-> id,
                           row |-> [entries[id] EXCEPT !.val = req[p].val]])
       \/ ~HasSource(Owner[t], t) /\ Become(p, Idle)
    /\ UNCHANGED <<txState, suggested, entries>>

(* Every column but source and source_ref is written back, as it was read; *)
(* the unique index and a missing row refuse the statement.                *)
Written(id, row) == [row EXCEPT !.ref = entries[id].ref]
UpdateRefused(id, row) ==
    \/ ~Used(id)
    \/ /\ entries[id].ref # NoTx
       /\ \E i \in Ids \ {id} : IsSource(i, row.payer, entries[id].ref)

UpdateWrite(p) ==
    /\ At(p, "UpdateEntry")
    /\ LET id == req[p].id
           row == req[p].row
       IN IF UpdateRefused(id, row)
          THEN UNCHANGED entries
          ELSE entries' = [entries EXCEPT ![id] = Written(id, row)]
    /\ Become(p, Idle)
    /\ UNCHANGED <<txState, suggested>>

DeleteLoad(p, id) ==
    /\ Ready(p, "DeleteEntry")
    /\ Used(id)
    /\ Become(p, [op |-> "DeleteEntry", id |-> id, row |-> entries[id]])
    /\ UNCHANGED <<txState, suggested, entries>>

NothingReturned(row) == {}             \* mutant: the inbox is forgotten

(* The transaction the entry, as read earlier, came from. *)
SourceOf(row) == {t \in Txs : t = row.ref /\ Owner[t] = row.payer}

DeleteCommit(p) ==
    /\ At(p, "DeleteEntry")
    /\ IF Used(req[p].id)
       THEN /\ entries' = [entries EXCEPT ![req[p].id] = NoRow]
            /\ txState' = SetState(SourceOf(req[p].row), "new")
       ELSE UNCHANGED <<entries, txState>>
    /\ Become(p, Idle)
    /\ UNCHANGED suggested

-----------------------------------------------------------------------------
(* ReapplyRules and Sync.  Evaluate's verdict on the payees is any choice: *)
(* the rules may have changed, but never dismiss and suggest at once.      *)

Verdicts(S) ==
    {v \in [dismiss : SUBSET S, suggest : SUBSET S] :
        v.dismiss \cap v.suggest = {}}

ReapplyLoad(p, user) ==
    /\ Ready(p, "ReapplyRules")
    /\ Become(p, [op |-> "ReapplyRules", rows |-> InState(user, "new")])
    /\ UNCHANGED <<txState, suggested, entries>>

ReapplyCommit(p) ==
    /\ At(p, "ReapplyRules")
    /\ \E verdict \in Verdicts(req[p].rows) :
          /\ suggested' = (suggested \ req[p].rows) \cup verdict.suggest
          /\ txState' = SetState(verdict.dismiss, "dismissed")
    /\ Become(p, Idle)
    /\ UNCHANGED entries

(* The bank reported the settled transactions got; those already stored    *)
(* are left out.                                                           *)
SyncLoad(p, user, got) ==
    /\ Ready(p, "Sync")
    /\ \A t \in got : Owner[t] = user
    /\ Become(p, [op |-> "SyncPool", user |-> user,
                  fresh |-> {t \in got : txState[t] = "absent"}])
    /\ UNCHANGED <<txState, suggested, entries>>

SyncPool(p) ==
    /\ At(p, "SyncPool")
    /\ Become(p, [op |-> "SyncWrite", fresh |-> req[p].fresh,
                  rows |-> InState(req[p].user, "new")])
    /\ UNCHANGED <<txState, suggested, entries>>

InTransfer(pool) == UNION {pair \in Transfers : pair \subseteq pool}

Stored(S) == \E t \in S : txState[t] # "absent"

SyncCommit(p) ==
    /\ At(p, "SyncWrite")
    /\ LET fresh == req[p].fresh
           moved == InTransfer(fresh \cup req[p].rows)
       IN /\ ~Stored(fresh)
          /\ \E verdict \in Verdicts(fresh) :
                /\ suggested' = suggested \cup verdict.suggest
                /\ txState' = [t \in Txs |->
                      IF t \in verdict.dismiss \cup moved THEN "dismissed"
                      ELSE IF t \in fresh THEN "new" ELSE txState[t]]
    /\ Become(p, Idle)
    /\ UNCHANGED entries

(* Another sync inserted one of them first: the primary key refuses it and *)
(* the closure is rolled back.                                             *)
SyncConflict(p) ==
    /\ At(p, "SyncWrite")
    /\ Stored(req[p].fresh)
    /\ Become(p, Idle)
    /\ UNCHANGED <<txState, suggested, entries>>

Abort(p) ==
    /\ req[p] # Idle
    /\ Become(p, Idle)
    /\ UNCHANGED <<txState, suggested, entries>>

-----------------------------------------------------------------------------
TxStep(p, t) ==
    \/ AcceptLoad(p, t) \/ DismissLoad(p, t) \/ RestoreLoad(p, t)
    \/ UnflagLoad(p, t)
    \/ \E v \in Vals : FlagLoad(p, t, v) \/ EditLoad(p, t, v)

LedgerStep(p) ==
    \/ \E u \in Users, v \in Vals : AddManual(p, u, v)
    \/ \E id \in Ids : DeleteLoad(p, id) \/ \E v \in Vals : UpdateLoad(p, id, v)
    \/ UpdateWrite(p) \/ DeleteCommit(p)

BatchStep(p) ==
    \/ \E u \in Users :
          \/ AcceptList(p, u) \/ ReapplyLoad(p, u)
          \/ \E got \in SUBSET Txs : SyncLoad(p, u, got)
    \/ AcceptEnd(p) \/ ReapplyCommit(p)
    \/ SyncPool(p) \/ SyncCommit(p) \/ SyncConflict(p)

Step(p) ==
    \/ \E t \in Txs : TxStep(p, t)
    \/ LedgerStep(p)
    \/ BatchStep(p)
    \/ FlagCommit(p) \/ FlagConflict(p) \/ SetStateWrite(p)
    \/ EditFind(p) \/ UnflagCommit(p) \/ Abort(p)

Next == \E p \in Procs : Step(p)

Spec == Init /\ [][Next]_vars

-----------------------------------------------------------------------------
(* Every variable holds values of the tables' and the requests' shapes. *)
TypeOK ==
    /\ txState \in [Txs -> States]
    /\ suggested \in SUBSET Txs
    /\ entries \in [Ids -> Row \cup {NoRow}]
    /\ req \in [Procs -> Request]

(* A transaction is flagged exactly while its owner has a ledger entry for *)
(* it: Flag, Unflag, Dismiss, DeleteEntry and the rules keep the two       *)
(* tables, written by different statements, in step.                       *)
FlaggedIffEntry ==
    \A t \in Txs : txState[t] = "flagged" <=> HasSource(Owner[t], t)

(* The household pays for a transaction at most once, and books it on the  *)
(* user whose bank reported it, whoever edited or deleted entries.         *)
BookedOnceOnOwner ==
    \A i \in Ids : Used(i) /\ entries[i].ref # NoTx =>
        /\ entries[i].payer = Owner[entries[i].ref]
        /\ \A j \in Ids : Used(j) /\ entries[j].ref = entries[i].ref => i = j

(* The other user sees an entry made from a transaction. *)
Shared(t) == \E id \in Ids : Used(id) /\ entries[id].ref = t

(* Privacy: whatever requests run at once, stale ones included, a          *)
(* transaction becomes visible to the other user only in a step that       *)
(* flags it.                                                               *)
OnlyFlaggingShares ==
    [][\A t \in Txs : Shared(t)' /\ ~Shared(t) => txState'[t] = "flagged"]_vars

(* design.md, "Dismiss: transaction -> dismissed, no entry": a dismissed   *)
(* transaction has nothing in the ledger.  Dismiss checks the state in one *)
(* statement and sets it in another, so a Flag in between breaks it.       *)
DismissedHasNoEntry ==
    \A t \in Txs : txState[t] = "dismissed" => ~Shared(t)

(* inbox.go, DeleteEntry: "a synced entry's source transaction goes back   *)
(* to its owner's inbox": when an entry leaves the ledger, its own         *)
(* transaction is new again.  DeleteEntry reads the entry before its       *)
(* closure deletes whatever then has that id.                              *)
DeletedEntryReturnsTx ==
    [][\A t \in Txs : Shared(t) /\ ~Shared(t)' => txState'[t] = "new"]_vars

(* The lines the ledger shows for a transaction. *)
Shown(t) ==
    {[payer |-> entries[id].payer, val |-> entries[id].val] :
        id \in {i \in Ids : Used(i) /\ entries[i].ref = t}}

(* The abstract specification: an operation is one indivisible step. *)
Promise == INSTANCE SharedLedger WITH
    status <- txState, ledger <- [t \in Txs |-> Shown(t)]

(* Every operation, split in its database steps, is one of the promised    *)
(* steps on the status of the transactions and the shared ledger.          *)
KeepsPromise == Promise!Spec
=============================================================================
