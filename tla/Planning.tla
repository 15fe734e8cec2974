------------------------------ MODULE Planning ------------------------------
(***************************************************************************)
(* Planned expenses and their links from ledger entries:                   *)
(* internal/service/planning.go, internal/domain/planning.go and           *)
(* internal/store/planning.go.                                             *)
(*                                                                         *)
(* A new entry is matched with a plan in the closure that inserts it.      *)
(* Linking by hand and editing an entry read its row first and write the   *)
(* whole row later; deleting a plan is two statements that are not one     *)
(* transaction.  Those are the handlers' steps, and other requests run in  *)
(* between.  planned_expense_id is no foreign key: a link may name a plan  *)
(* that is gone, or another one that got its id.  Two auxiliary numbers    *)
(* tell plans with the same id apart: each plan has a serial number, and   *)
(* a link carries the one it was made for.                                 *)
(*                                                                         *)
(* Left out: names, notes and the day of the month, and where an entry     *)
(* comes from (see Inbox).  Plans from before created_at are not modelled. *)
(***************************************************************************)
EXTENDS Integers

CONSTANTS
    Users,          \* the members of the household
    Categories,     \* rows of categories
    NoCategory,     \* a NULL category_id
    EntryForms,     \* what members submit as an entry
    PlanForms,      \* what members submit as a planned expense
    EveryMonth,     \* recurring, no single_month
    LastMonth,      \* bound on the clock
    Floor,          \* an amount may always be off by this much ($5)
    Ahead,          \* the clock's zone is west of UTC
    MaxEntry,       \* bound on the row ids of household_entries
    MaxPlan,        \* bound on the row ids of planned_expenses
    MaxMade,        \* bound on the plans ever created
    Procs,          \* request handlers running at the same time
    NoRow           \* no row with this id

Months == 1 .. LastMonth
Ids == 1 .. MaxEntry
PlanIds == 1 .. MaxPlan
Serials == 1 .. MaxMade

EntryForm == [payer : Users, category : Categories \cup {NoCategory},
              amount : Int, month : Months]
PlanForm == [payer : Users, category : Categories, amount : Int,
             only : Months \cup {EveryMonth}]

(* plan = 0: a NULL planned_expense_id; meant is the serial number of the  *)
(* plan the link was made for, 0 when the plan was just being deleted.     *)
Row == [form : EntryForm, plan : PlanIds \cup {0}, meant : Serials \cup {0}]

(* created is the month of created_at, added the month in the clock's zone. *)
Plan == [form : PlanForm, active : BOOLEAN,
         created : Nat, added : Months, serial : Serials]

ASSUME PlanningAssumption ==
    /\ EntryForms \subseteq EntryForm
    /\ PlanForms \subseteq PlanForm
    /\ LastMonth \in Nat \ {0}
    /\ Floor \in Nat
    /\ Ahead \in BOOLEAN
    /\ MaxEntry \in Nat /\ MaxPlan \in Nat /\ MaxMade \in Nat
    /\ NoRow \notin Row \cup Plan
    /\ NoCategory \notin Categories
    /\ EveryMonth \notin Months

VARIABLES
    month,      \* the current month of the service's clock
    entries,    \* household_entries by id
    plans,      \* planned_expenses by id
    serial,     \* auxiliary: plans created so far
    auto,       \* auxiliary: entries as matchPlanned linked them
    req         \* req[p]: what handler p is in the middle of

vars == <<month, entries, plans, serial, auto, req>>

-----------------------------------------------------------------------------
Idle == [op |-> "idle"]

(* hit: the plans that were being deleted at some time since the handler   *)
(* read the entry (auxiliary).                                             *)
Request ==
    {Idle}
    \cup [op : {"Check"}, id : Ids, row : Row, to : PlanIds, hit : SUBSET PlanIds]
    \cup [op : {"Write"}, id : Ids, row : Row, hit : SUBSET PlanIds]
    \cup [op : {"Delete"}, plan : PlanIds]

At(p, op) == req[p].op = op
Become(p, r) == req' = [req EXCEPT ![p] = r]

UsedEntry(id) == entries[id] # NoRow
UsedPlan(id) == plans[id] # NoRow

(* INTEGER PRIMARY KEY without AUTOINCREMENT: one more than the largest. *)
NextId(id, table) ==
    /\ \A i \in DOMAIN table : table[i] # NoRow => i < id
    /\ id = 1 \/ (id - 1 \in DOMAIN table /\ table[id - 1] # NoRow)

BeingDeleted == {req[p].plan : p \in {q \in Procs : At(q, "Delete")}}

Init ==
    /\ month = 1
    /\ entries = [id \in Ids |-> NoRow]
    /\ plans = [id \in PlanIds |-> NoRow]
    /\ serial = 0
    /\ auto = {}
    /\ req = [p \in Procs |-> Idle]

-----------------------------------------------------------------------------
(* Matching. *)

Abs(n) == IF n < 0 THEN -n ELSE n

(* Within a tenth of what is expected, or Floor. *)
AmountWithinTolerance(actual, expected) ==
    \/ Abs(actual - expected) <= Abs(expected) \div 10
    \/ Abs(actual - expected) <= Floor

AppliesTo(id, m) ==
    /\ UsedPlan(id)
    /\ plans[id].active
    /\ plans[id].form.only \in {EveryMonth, m}

InMonth(m) == {e \in Ids : UsedEntry(e) /\ entries[e].form.month = m}

NoneTaken(m) == {}                     \* mutant: a plan may be matched again
takenPlanned(m) == {entries[e].plan : e \in InMonth(m)} \ {0}

Candidates(form) ==
    {id \in PlanIds :
        /\ id \notin takenPlanned(form.month)
        /\ AppliesTo(id, form.month)
        /\ plans[id].form.payer = form.payer
        /\ plans[id].form.category = form.category
        /\ AmountWithinTolerance(form.amount, plans[id].form.amount)}

(* The plan an entry pays for, 0 when none or several fit. *)
matchPlanned(form) ==
    IF form.category # NoCategory /\ \E id \in PlanIds : Candidates(form) = {id}
    THEN CHOOSE id \in PlanIds : Candidates(form) = {id}
    ELSE 0

(* The serial number of the plan with this id. *)
Serial(id) == IF id = 0 THEN 0 ELSE plans[id].serial

(* A row as it is written: a link to a plan that was being deleted since   *)
(* the row was read is meant for no plan in particular.                    *)
Settled(row, hit) ==
    IF row.plan \in hit THEN [row EXCEPT !.meant = 0] ELSE row

-----------------------------------------------------------------------------
(* The ledger. *)

(* AddManualEntry and Flag: match and insert, in one closure. *)
AddEntry(form) ==
    /\ \E id \in Ids :
          /\ NextId(id, entries)
          /\ entries' = [entries EXCEPT ![id] =
                Settled([form |-> form, plan |-> matchPlanned(form),
                         meant |-> Serial(matchPlanned(form))], BeingDeleted)]
          /\ auto' = auto \cup {id}
    /\ UNCHANGED <<month, plans, serial, req>>

(* DeleteEntry and Unflag. *)
DeleteEntry(id) ==
    /\ UsedEntry(id)
    /\ entries' = [entries EXCEPT ![id] = NoRow]
    /\ auto' = auto \ {id}
    /\ UNCHANGED <<month, plans, serial, req>>

(* UpdateEntryFields and EditFlagged: the row is read, category and amount *)
(* are set, and the whole row, with the link that was read, is written.    *)
ReadToEdit(p, id, form) ==
    /\ req[p] = Idle
    /\ UsedEntry(id)
    /\ Become(p, [op |-> "Write", id |-> id, hit |-> BeingDeleted,
                  row |-> [entries[id] EXCEPT !.form.category = form.category,
                                              !.form.amount = form.amount]])
    /\ UNCHANGED <<month, entries, plans, serial, auto>>

(* MatchEntry: the row is read, then the plan, unless it is to be unlinked. *)
ReadToMatch(p, id, to) ==
    /\ req[p] = Idle
    /\ UsedEntry(id)
    /\ Become(p,
          IF to = 0
          THEN [op |-> "Write", id |-> id, hit |-> BeingDeleted,
                row |-> [entries[id] EXCEPT !.plan = 0, !.meant = 0]]
          ELSE [op |-> "Check", id |-> id, hit |-> BeingDeleted,
                row |-> entries[id], to |-> to])
    /\ UNCHANGED <<month, entries, plans, serial, auto>>

CheckPlan(p) ==
    /\ At(p, "Check")
    /\ Become(p,
          IF UsedPlan(req[p].to)
          THEN [op |-> "Write", id |-> req[p].id, hit |-> req[p].hit,
                row |-> [req[p].row EXCEPT !.plan = req[p].to,
                                           !.meant = Serial(req[p].to)]]
          ELSE Idle)
    /\ UNCHANGED <<month, entries, plans, serial, auto>>

(* UpdateEntry: by id, whatever has become of the row. *)
WriteEntry(p) ==
    /\ At(p, "Write")
    /\ IF UsedEntry(req[p].id)
       THEN /\ entries' = [entries EXCEPT ![req[p].id] =
                              Settled(req[p].row, req[p].hit)]
            /\ auto' = auto \ {req[p].id}
       ELSE UNCHANGED <<entries, auto>>
    /\ Become(p, Idle)
    /\ UNCHANGED <<month, plans, serial>>

-----------------------------------------------------------------------------
(* Plans. *)

(* created_at is stamped with the date in UTC: west of it the last evening *)
(* of a month is in the next month.                                        *)
Stamps == IF Ahead THEN {month, month + 1} ELSE {month}

AddPlanned(form) ==
    /\ serial < MaxMade
    /\ serial' = serial + 1
    /\ \E id \in PlanIds, stamp \in Stamps :
          /\ NextId(id, plans)
          /\ plans' = [plans EXCEPT ![id] =
                [form |-> form, active |-> TRUE, created |-> stamp,
                 added |-> month, serial |-> serial + 1]]
    /\ UNCHANGED <<month, entries, auto, req>>

(* Everything but the id and created_at. *)
UpdatePlanned(id, form, active) ==
    /\ UsedPlan(id)
    /\ plans' = [plans EXCEPT ![id].form = form, ![id].active = active]
    /\ UNCHANGED <<month, entries, serial, auto, req>>

(* DeletePlanned, first statement: no entry keeps its link to the plan. *)
UnlinkedToNull(row, id) ==             \* mutant: NULL is not read as 0
    IF row # NoRow /\ row.plan = id THEN [row EXCEPT !.plan = NoRow, !.meant = 0] ELSE row
Unlinked(row, id) ==
    IF row # NoRow /\ row.plan = id THEN [row EXCEPT !.plan = 0, !.meant = 0] ELSE row

Struck(r, id) ==
    IF r.op \in {"Check", "Write"} THEN [r EXCEPT !.hit = @ \cup {id}] ELSE r

KeepLinks(p, id) ==                    \* mutant: the links are left alone
    /\ req[p] = Idle
    /\ req' = [q \in Procs |-> IF q = p THEN [op |-> "Delete", plan |-> id]
                               ELSE Struck(req[q], id)]
    /\ UNCHANGED <<month, entries, plans, serial, auto>>
ClearLinks(p, id) ==
    /\ req[p] = Idle
    /\ entries' = [e \in Ids |-> Unlinked(entries[e], id)]
    /\ req' = [q \in Procs |-> IF q = p THEN [op |-> "Delete", plan |-> id]
                               ELSE Struck(req[q], id)]
    /\ UNCHANGED <<month, plans, serial, auto>>

(* Second statement.  A plan that is gone already is reported not found. *)
DeletePlan(p) ==
    /\ At(p, "Delete")
    /\ plans' = [plans EXCEPT ![req[p].plan] = NoRow]
    /\ Become(p, Idle)
    /\ UNCHANGED <<month, entries, serial, auto>>

(* The client has gone, or the process is restarted, between two steps. *)
Abandon(p) ==
    /\ req[p] # Idle
    /\ Become(p, Idle)
    /\ UNCHANGED <<month, entries, plans, serial, auto>>

-----------------------------------------------------------------------------
(* The ghost counter. *)

Tick ==
    /\ month < LastMonth
    /\ month' = month + 1
    /\ UNCHANGED <<entries, plans, serial, auto, req>>

(* The ghost counter: closed months, at most two, without an entry linked. *)
AnyMonth(id, m) == TRUE                \* mutant: no look at created_at
ExistedBy(id, m) == plans[id].created <= m

Missed(id) ==
    {m \in {month - 1, month - 2} \cap Months :
        AppliesTo(id, m) /\ id \notin takenPlanned(m) /\ ExistedBy(id, m)}

-----------------------------------------------------------------------------
EntryStep ==
    \/ \E form \in EntryForms : AddEntry(form)
    \/ \E id \in Ids : DeleteEntry(id)
    \/ \E p \in Procs, id \in Ids :
          \/ \E form \in EntryForms : ReadToEdit(p, id, form)
          \/ \E to \in PlanIds \cup {0} : ReadToMatch(p, id, to)
    \/ \E p \in Procs : CheckPlan(p) \/ WriteEntry(p)

PlanStep ==
    \/ \E form \in PlanForms : AddPlanned(form)
    \/ \E id \in PlanIds, form \in PlanForms, active \in BOOLEAN :
          UpdatePlanned(id, form, active)
    \/ \E p \in Procs : \/ \E id \in PlanIds : ClearLinks(p, id)
                        \/ DeletePlan(p)

Next ==
    \/ EntryStep
    \/ PlanStep
    \/ \E p \in Procs : Abandon(p)
    \/ Tick

Spec == Init /\ [][Next]_vars

-----------------------------------------------------------------------------
TypeOK ==
    /\ month \in Months
    /\ entries \in [Ids -> Row \cup {NoRow}]
    /\ plans \in [PlanIds -> Plan \cup {NoRow}]
    /\ serial \in Serials \cup {0}
    /\ auto \subseteq Ids
    /\ req \in [Procs -> Request]

(* planning.go, matchPlanned: the lookup of the plans already taken runs   *)
(* in the closure that inserts the entry, so two entries of a month are    *)
(* never matched to one plan: not by requests at the same time, and not    *)
(* through a plan that was deleted and its id given to another.            *)
MatchedOnce ==
    \A e, f \in auto :
        /\ UsedEntry(e) /\ UsedEntry(f) /\ e # f
        /\ entries[e].form.month = entries[f].form.month
        /\ entries[e].plan # 0
        => entries[e].plan # entries[f].plan

(* store/planning.go, DeletePlanned and the reuse of ids: a link names the *)
(* plan it was made for, which still exists, unless the operation that     *)
(* wrote the link overlapped a deletion of the plan.                       *)
LinksMeant ==
    \A e \in Ids :
        UsedEntry(e) /\ entries[e].meant # 0
            => /\ UsedPlan(entries[e].plan)
               /\ plans[entries[e].plan].serial = entries[e].meant

(* domain/planning.go, ExistedBy: the ghost counter never holds a month    *)
(* against a plan that was added later, whatever the plan was changed to   *)
(* since and whatever links an earlier plan of that id has left.           *)
GhostsExisted ==
    \A id \in PlanIds : UsedPlan(id) => \A m \in Missed(id) : m >= plans[id].added
=============================================================================
