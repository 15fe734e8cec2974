--------------------------- MODULE PlanningProofs ---------------------------
(***************************************************************************)
(* Theorems about Planning, for every household, any forms, any number of  *)
(* rows and of requests at once, and either side of UTC.                   *)
(***************************************************************************)
EXTENDS Planning, TLAPS

-----------------------------------------------------------------------------
(* Shapes. *)

LEMMA IdleTyped == Idle \in Request /\ Idle.op = "idle"
  BY DEF Request, Idle

(* The operation a request names says which fields it has.                 *)
LEMMA RequestShape ==
    ASSUME NEW r \in Request
    PROVE  /\ r.op = "Check" =>
                 r \in [op : {"Check"}, id : Ids, row : Row, to : PlanIds, hit : SUBSET PlanIds]
           /\ r.op = "Write" =>
                 r \in [op : {"Write"}, id : Ids, row : Row, hit : SUBSET PlanIds]
           /\ r.op = "Delete" => r \in [op : {"Delete"}, plan : PlanIds]
  BY DEF Request, Idle

LEMMA BecomeTyped ==
    ASSUME req \in [Procs -> Request], NEW p \in Procs, NEW r \in Request, Become(p, r)
    PROVE  req' \in [Procs -> Request]
  BY DEF Become

LEMMA Ranges == Months \subseteq Int /\ 0 \notin PlanIds /\ 0 \notin Serials
  BY PlanningAssumption DEF Months, PlanIds, Serials

LEMMA BeingDeletedTyped == TypeOK => BeingDeleted \subseteq PlanIds
  BY RequestShape DEF TypeOK, BeingDeleted, At

(* A match is the one candidate, or none.                                  *)
LEMMA MatchShape ==
    ASSUME NEW form
    PROVE  \/ matchPlanned(form) = 0
           \/ matchPlanned(form) \in PlanIds /\ matchPlanned(form) \in Candidates(form)
  BY DEF matchPlanned

LEMMA SettledShape ==
    ASSUME NEW row \in Row, NEW hit
    PROVE  /\ Settled(row, hit) \in Row
           /\ Settled(row, hit).form = row.form
           /\ Settled(row, hit).plan = row.plan
           /\ Settled(row, hit).meant # 0 =>
                 Settled(row, hit).meant = row.meant /\ row.plan \notin hit
  BY DEF Settled, Row

LEMMA UnlinkedShape ==
    ASSUME NEW row \in Row \cup {NoRow}, NEW id \in PlanIds
    PROVE  /\ Unlinked(row, id) \in Row \cup {NoRow}
           /\ Unlinked(row, id) = NoRow <=> row = NoRow
           /\ row # NoRow =>
                 /\ Unlinked(row, id).form = row.form
                 /\ \/ Unlinked(row, id).plan = 0 /\ Unlinked(row, id).meant = 0
                    \/ Unlinked(row, id) = row /\ row.plan # id
  BY PlanningAssumption DEF Unlinked, Row

LEMMA StruckShape ==
    ASSUME NEW r \in Request, NEW id \in PlanIds
    PROVE  /\ Struck(r, id) \in Request
           /\ Struck(r, id).op = r.op
           /\ r.op \in {"Check", "Write"} =>
                 Struck(r, id).row = r.row /\ Struck(r, id).hit = r.hit \cup {id}
           /\ r.op \notin {"Check", "Write"} => Struck(r, id) = r
  <1>1. CASE r.op = "Check"
    <2>1. r \in [op : {"Check"}, id : Ids, row : Row, to : PlanIds, hit : SUBSET PlanIds]
      BY <1>1, RequestShape
    <2>2. [r EXCEPT !.hit = @ \cup {id}] \in
             [op : {"Check"}, id : Ids, row : Row, to : PlanIds, hit : SUBSET PlanIds]
      BY <2>1
    <2>3. QED  BY <1>1, <2>1, <2>2 DEF Struck, Request
  <1>2. CASE r.op = "Write"
    <2>1. r \in [op : {"Write"}, id : Ids, row : Row, hit : SUBSET PlanIds]
      BY <1>2, RequestShape
    <2>2. [r EXCEPT !.hit = @ \cup {id}] \in
             [op : {"Write"}, id : Ids, row : Row, hit : SUBSET PlanIds]
      BY <2>1
    <2>3. QED  BY <1>2, <2>1, <2>2 DEF Struck, Request
  <1>3. CASE r.op \notin {"Check", "Write"}
    BY <1>3 DEF Struck
  <1>4. QED  BY <1>1, <1>2, <1>3

(* The serial number of a plan, or 0.                                      *)
LEMMA SerialShape ==
    ASSUME TypeOK, NEW id \in PlanIds \cup {0}, id = 0 \/ UsedPlan(id)
    PROVE  /\ Serial(id) \in Serials \cup {0}
           /\ Serial(id) # 0 => id \in PlanIds /\ plans[id].serial = Serial(id)
  BY Ranges DEF Serial, UsedPlan, TypeOK, Plan

-----------------------------------------------------------------------------
(* Types. *)

(* The row a new entry gets, before a deletion under way is looked at.     *)
NewRow(form) ==
    [form |-> form, plan |-> matchPlanned(form), meant |-> Serial(matchPlanned(form))]

LEMMA NewRowTyped ==
    ASSUME TypeOK, NEW form \in EntryForms
    PROVE  /\ NewRow(form) \in Row
           /\ NewRow(form).meant # 0 =>
                 /\ NewRow(form).plan \in PlanIds /\ UsedPlan(NewRow(form).plan)
                 /\ plans[NewRow(form).plan].serial = NewRow(form).meant
  <1>1. matchPlanned(form) = 0
        \/ (matchPlanned(form) \in PlanIds /\ UsedPlan(matchPlanned(form)))
    BY MatchShape DEF Candidates, AppliesTo
  <1>2. /\ Serial(matchPlanned(form)) \in Serials \cup {0}
        /\ Serial(matchPlanned(form)) # 0 =>
              /\ matchPlanned(form) \in PlanIds
              /\ plans[matchPlanned(form)].serial = Serial(matchPlanned(form))
    BY <1>1, SerialShape
  <1>3. form \in EntryForm
    BY PlanningAssumption
  <1>4. QED  BY <1>1, <1>2, <1>3, Ranges DEF NewRow, Row

(* What a request holds after it has read an entry.                        *)
LEMMA EditTyped ==
    ASSUME TypeOK, NEW id \in Ids, UsedEntry(id), NEW form \in EntryForms
    PROVE  LET row == [entries[id] EXCEPT !.form.category = form.category,
                                          !.form.amount = form.amount]
           IN  /\ row \in Row
               /\ row.plan = entries[id].plan /\ row.meant = entries[id].meant
  <1>1. entries[id] \in Row /\ form \in EntryForm
    BY PlanningAssumption DEF TypeOK, UsedEntry
  <1>2. QED  BY <1>1 DEF Row, EntryForm

LEMMA TypeInit == Init => TypeOK
  BY PlanningAssumption, IdleTyped DEF Init, TypeOK, Months

LEMMA EntryTyped ==
    ASSUME TypeOK, EntryStep
    PROVE  TypeOK'
  <1> USE DEF TypeOK
  <1>1. ASSUME NEW form \in EntryForms, AddEntry(form) PROVE TypeOK'
    <2>1. PICK id \in Ids :
             /\ entries' = [entries EXCEPT ![id] = Settled(NewRow(form), BeingDeleted)]
             /\ auto' = auto \cup {id}
      BY <1>1 DEF AddEntry, NewRow
    <2>2. Settled(NewRow(form), BeingDeleted) \in Row
      BY NewRowTyped, SettledShape
    <2>3. QED  BY <1>1, <2>1, <2>2 DEF AddEntry
  <1>2. ASSUME NEW id \in Ids, DeleteEntry(id) PROVE TypeOK'
    BY <1>2 DEF DeleteEntry
  <1>3. ASSUME NEW p \in Procs, NEW id \in Ids, NEW form \in EntryForms,
               ReadToEdit(p, id, form)
        PROVE  TypeOK'
    <2> DEFINE row == [entries[id] EXCEPT !.form.category = form.category,
                                          !.form.amount = form.amount]
    <2>1. row \in Row
      BY <1>3, EditTyped DEF ReadToEdit
    <2>2. [op |-> "Write", id |-> id, hit |-> BeingDeleted, row |-> row] \in Request
      BY <2>1, BeingDeletedTyped DEF Request
    <2>3. req' \in [Procs -> Request]
      BY <1>3, <2>2, BecomeTyped DEF ReadToEdit
    <2>4. QED  BY <1>3, <2>3 DEF ReadToEdit
  <1>4. ASSUME NEW p \in Procs, NEW id \in Ids, NEW to \in PlanIds \cup {0},
               ReadToMatch(p, id, to)
        PROVE  TypeOK'
    <2>1. entries[id] \in Row
      BY <1>4 DEF ReadToMatch, UsedEntry
    <2>2. [entries[id] EXCEPT !.plan = 0, !.meant = 0] \in Row
      BY <2>1 DEF Row
    <2>3. [op |-> "Write", id |-> id, hit |-> BeingDeleted,
           row |-> [entries[id] EXCEPT !.plan = 0, !.meant = 0]] \in Request
      BY <2>2, BeingDeletedTyped DEF Request
    <2>4. to # 0 => [op |-> "Check", id |-> id, hit |-> BeingDeleted,
                     row |-> entries[id], to |-> to] \in Request
      BY <2>1, BeingDeletedTyped DEF Request
    <2>5. req' \in [Procs -> Request]
      BY <1>4, <2>3, <2>4, BecomeTyped DEF ReadToMatch
    <2>6. QED  BY <1>4, <2>5 DEF ReadToMatch
  <1>5. ASSUME NEW p \in Procs, CheckPlan(p) PROVE TypeOK'
    <2>1. req[p] \in [op : {"Check"}, id : Ids, row : Row, to : PlanIds, hit : SUBSET PlanIds]
      BY <1>5, RequestShape DEF CheckPlan, At
    <2>2. UsedPlan(req[p].to) => Serial(req[p].to) \in Serials \cup {0}
      BY <2>1, SerialShape
    <2>3. UsedPlan(req[p].to) =>
             [req[p].row EXCEPT !.plan = req[p].to, !.meant = Serial(req[p].to)] \in Row
      BY <2>1, <2>2 DEF Row
    <2>4. UsedPlan(req[p].to) =>
             [op |-> "Write", id |-> req[p].id, hit |-> req[p].hit,
              row |-> [req[p].row EXCEPT !.plan = req[p].to,
                                         !.meant = Serial(req[p].to)]] \in Request
      BY <2>1, <2>3 DEF Request
    <2>5. req' \in [Procs -> Request]
      BY <1>5, <2>4, IdleTyped, BecomeTyped DEF CheckPlan
    <2>6. QED  BY <1>5, <2>5 DEF CheckPlan
  <1>6. ASSUME NEW p \in Procs, WriteEntry(p) PROVE TypeOK'
    <2>1. req[p] \in [op : {"Write"}, id : Ids, row : Row, hit : SUBSET PlanIds]
      BY <1>6, RequestShape DEF WriteEntry, At
    <2>2. Settled(req[p].row, req[p].hit) \in Row
      BY <2>1, SettledShape
    <2>3. entries' \in [Ids -> Row \cup {NoRow}] /\ auto' \subseteq Ids
      BY <1>6, <2>1, <2>2 DEF WriteEntry
    <2>4. req' \in [Procs -> Request]
      BY <1>6, IdleTyped, BecomeTyped DEF WriteEntry
    <2>5. QED  BY <1>6, <2>3, <2>4 DEF WriteEntry
  <1>7. QED  BY <1>1, <1>2, <1>3, <1>4, <1>5, <1>6 DEF EntryStep

LEMMA PlanTyped ==
    ASSUME TypeOK, PlanStep
    PROVE  TypeOK'
  <1> USE DEF TypeOK
  <1>1. ASSUME NEW form \in PlanForms, AddPlanned(form) PROVE TypeOK'
    <2>1. PICK id \in PlanIds, stamp \in Stamps :
             plans' = [plans EXCEPT ![id] =
                [form |-> form, active |-> TRUE, created |-> stamp,
                 added |-> month, serial |-> serial + 1]]
      BY <1>1 DEF AddPlanned
    <2>2. serial + 1 \in Serials /\ serial' = serial + 1
      BY <1>1, PlanningAssumption DEF AddPlanned, Serials
    <2>3. stamp \in Nat /\ form \in PlanForm
      BY <2>1, PlanningAssumption DEF Stamps, Months
    <2>4. plans' \in [PlanIds -> Plan \cup {NoRow}]
      BY <2>1, <2>2, <2>3 DEF Plan
    <2>5. QED  BY <1>1, <2>2, <2>4 DEF AddPlanned
  <1>2. ASSUME NEW id \in PlanIds, NEW form \in PlanForms, NEW active \in BOOLEAN,
               UpdatePlanned(id, form, active)
        PROVE  TypeOK'
    <2>1. plans[id] \in Plan /\ form \in PlanForm
      BY <1>2, PlanningAssumption DEF UpdatePlanned, UsedPlan
    <2>2. [plans[id] EXCEPT !.form = form, !.active = active] \in Plan
      BY <2>1 DEF Plan
    <2>3. plans' = [plans EXCEPT ![id] = [plans[id] EXCEPT !.form = form, !.active = active]]
      BY <1>2, <2>1 DEF UpdatePlanned, Plan
    <2>4. QED  BY <1>2, <2>2, <2>3 DEF UpdatePlanned
  <1>3. ASSUME NEW p \in Procs, NEW id \in PlanIds, ClearLinks(p, id) PROVE TypeOK'
    <2>1. entries' \in [Ids -> Row \cup {NoRow}]
      BY <1>3, UnlinkedShape DEF ClearLinks
    <2>2. [op |-> "Delete", plan |-> id] \in Request
      BY DEF Request
    <2>3. req' \in [Procs -> Request]
      BY <1>3, <2>2, StruckShape DEF ClearLinks
    <2>4. QED  BY <1>3, <2>1, <2>3 DEF ClearLinks
  <1>4. ASSUME NEW p \in Procs, DeletePlan(p) PROVE TypeOK'
    <2>1. req' \in [Procs -> Request]
      BY <1>4, IdleTyped, BecomeTyped DEF DeletePlan
    <2>2. QED  BY <1>4, <2>1 DEF DeletePlan
  <1>5. QED  BY <1>1, <1>2, <1>3, <1>4 DEF PlanStep

LEMMA TypeStep == TypeOK /\ [Next]_vars => TypeOK'
  <1> SUFFICES ASSUME TypeOK, [Next]_vars PROVE TypeOK'
    OBVIOUS
  <1>1. ASSUME NEW p \in Procs, Abandon(p) PROVE TypeOK'
    <2>1. req' \in [Procs -> Request]
      BY <1>1, IdleTyped, BecomeTyped DEF Abandon, TypeOK
    <2>2. QED  BY <1>1, <2>1 DEF Abandon, TypeOK
  <1>2. CASE Tick
    BY <1>2, PlanningAssumption DEF Tick, TypeOK, Months
  <1>3. CASE UNCHANGED vars
    BY <1>3 DEF vars, TypeOK
  <1>4. QED  BY <1>1, <1>2, <1>3, EntryTyped, PlanTyped DEF Next

(* The tables of plans and entries, and what requests hold of them, keep   *)
(* their types.                                                            *)
THEOREM TypeCorrect == Spec => []TypeOK
  BY TypeInit, TypeStep, PTL DEF Spec

-----------------------------------------------------------------------------
(* A plan is matched once a month. *)

(* The steps that leave an automatic match alone, or end it.               *)
LEMMA MatchedStep ==
    ASSUME TypeOK, MatchedOnce, [Next]_vars
    PROVE  MatchedOnce'
  <1> USE DEF TypeOK
  <1>1. CASE UNCHANGED <<entries, auto>>
    BY <1>1 DEF MatchedOnce, UsedEntry
  <1>2. ASSUME NEW form \in EntryForms, AddEntry(form) PROVE MatchedOnce'
    <2>1. PICK id \in Ids :
             /\ NextId(id, entries)
             /\ entries' = [entries EXCEPT ![id] = Settled(NewRow(form), BeingDeleted)]
             /\ auto' = auto \cup {id}
      BY <1>2 DEF AddEntry, NewRow
    <2>2. /\ entries'[id].plan = matchPlanned(form)
          /\ entries'[id].form.month = form.month
      BY <2>1, NewRowTyped, SettledShape DEF NewRow
    <2>3. \A e \in InMonth(form.month) :
             entries[e].plan # 0 => entries[e].plan # matchPlanned(form)
      BY MatchShape DEF Candidates, takenPlanned
    <2>4. \A e \in Ids : e # id /\ entries'[e] # NoRow => entries'[e] = entries[e]
      BY <2>1
    <2>5. \A e \in auto : e # id /\ UsedEntry(e)' /\ entries'[e].form.month = form.month
             => e \in InMonth(form.month)
      BY <2>4 DEF InMonth, UsedEntry
    <2>6. QED  BY <2>1, <2>2, <2>3, <2>4, <2>5 DEF MatchedOnce, UsedEntry
  <1>3. ASSUME NEW id \in Ids, DeleteEntry(id) PROVE MatchedOnce'
    BY <1>3 DEF DeleteEntry, MatchedOnce, UsedEntry
  <1>4. ASSUME NEW p \in Procs, WriteEntry(p) PROVE MatchedOnce'
    <2>1. req[p].id \in Ids
      BY <1>4, RequestShape DEF WriteEntry, At
    <2>2. QED  BY <1>4, <2>1 DEF WriteEntry, MatchedOnce, UsedEntry
  <1>5. ASSUME NEW p \in Procs, NEW id \in PlanIds, ClearLinks(p, id)
        PROVE  MatchedOnce'
    <2>1. /\ entries' = [e \in Ids |-> Unlinked(entries[e], id)]
          /\ UNCHANGED auto
      BY <1>5 DEF ClearLinks
    <2>2. \A e \in Ids : UsedEntry(e)' =>
             /\ UsedEntry(e) /\ entries'[e].form = entries[e].form
             /\ entries'[e].plan \in {0, entries[e].plan}
      BY <2>1, UnlinkedShape DEF UsedEntry
    <2>3. QED  BY <2>1, <2>2 DEF MatchedOnce
  <1>6. QED
    <2>1. ASSUME NEW p \in Procs, NEW id \in Ids, NEW form \in EntryForms,
                 ReadToEdit(p, id, form)
          PROVE  UNCHANGED <<entries, auto>>
      BY <2>1 DEF ReadToEdit
    <2>2. ASSUME NEW p \in Procs, NEW id \in Ids, NEW to \in PlanIds \cup {0},
                 ReadToMatch(p, id, to)
          PROVE  UNCHANGED <<entries, auto>>
      BY <2>2 DEF ReadToMatch
    <2>3. ASSUME NEW p \in Procs, CheckPlan(p) \/ Abandon(p) \/ DeletePlan(p)
          PROVE  UNCHANGED <<entries, auto>>
      BY <2>3 DEF CheckPlan, Abandon, DeletePlan
    <2>4. (\E form \in PlanForms : AddPlanned(form)) => UNCHANGED <<entries, auto>>
      BY DEF AddPlanned
    <2>5. ASSUME NEW id \in PlanIds, NEW form \in PlanForms, NEW active \in BOOLEAN,
                 UpdatePlanned(id, form, active)
          PROVE  UNCHANGED <<entries, auto>>
      BY <2>5 DEF UpdatePlanned
    <2>6. Tick \/ UNCHANGED vars => UNCHANGED <<entries, auto>>
      BY DEF Tick, vars
    <2>7. QED
      BY <1>1, <1>2, <1>3, <1>4, <1>5, <2>1, <2>2, <2>3, <2>4, <2>5, <2>6
         DEF Next, EntryStep, PlanStep

(* Two entries of a month are never matched to one plan: what is taken is  *)
(* looked up where the entry is inserted, and deleting a plan takes its    *)
(* links away before its id can be given to another.                       *)
THEOREM PlansMatchedOnce == Spec => []MatchedOnce
  <1>1. Init => MatchedOnce
    BY DEF Init, MatchedOnce
  <1>2. QED  BY TypeInit, TypeStep, MatchedStep, <1>1, PTL DEF Spec

-----------------------------------------------------------------------------
(* A link names the plan it was made for. *)

Names(row) ==
    /\ row.plan \in PlanIds /\ UsedPlan(row.plan)
    /\ plans[row.plan].serial = row.meant

(* Neither a row of the table nor one a request is about to write names a  *)
(* plan that is being deleted, or that was since the request read it.      *)
Meant ==
    /\ \A e \in Ids : UsedEntry(e) /\ entries[e].meant # 0 =>
          Names(entries[e]) /\ entries[e].plan \notin BeingDeleted
    /\ \A p \in Procs : req[p].op \in {"Check", "Write"} =>
          /\ BeingDeleted \subseteq req[p].hit
          /\ req[p].row.meant # 0 /\ req[p].row.plan \notin req[p].hit => Names(req[p].row)

(* A request that is not a deletion changes nothing of what is deleted.    *)
LEMMA NotDeleting ==
    ASSUME TypeOK, NEW p \in Procs, ~At(p, "Delete"),
           NEW r \in Request, r.op # "Delete", Become(p, r)
    PROVE  BeingDeleted' = BeingDeleted
  BY DEF TypeOK, BeingDeleted, At, Become

LEMMA MeantEntryStep ==
    ASSUME TypeOK, Meant, EntryStep
    PROVE  Meant'
  <1> USE DEF TypeOK
  <1>0. UNCHANGED plans
    BY DEF EntryStep, AddEntry, DeleteEntry, ReadToEdit, ReadToMatch, CheckPlan, WriteEntry
  <1>1. ASSUME NEW form \in EntryForms, AddEntry(form) PROVE Meant'
    <2>1. PICK id \in Ids :
             entries' = [entries EXCEPT ![id] = Settled(NewRow(form), BeingDeleted)]
      BY <1>1 DEF AddEntry, NewRow
    <2>2. UNCHANGED req /\ BeingDeleted' = BeingDeleted
      BY <1>1 DEF AddEntry, BeingDeleted, At
    <2>3. entries'[id].meant # 0 =>
             Names(entries'[id]) /\ entries'[id].plan \notin BeingDeleted
      BY <2>1, NewRowTyped, SettledShape DEF Names
    <2>4. QED  BY <1>0, <2>1, <2>2, <2>3 DEF Meant, Names, UsedEntry, UsedPlan
  <1>2. ASSUME NEW id \in Ids, DeleteEntry(id) PROVE Meant'
    <2>1. UNCHANGED req /\ BeingDeleted' = BeingDeleted
      BY <1>2 DEF DeleteEntry, BeingDeleted, At
    <2>2. entries' = [entries EXCEPT ![id] = NoRow]
      BY <1>2 DEF DeleteEntry
    <2>3. QED  BY <1>0, <2>1, <2>2 DEF Meant, Names, UsedEntry, UsedPlan
  (* A request reads a row, or goes on with the one it has.                *)
  <1>3. ASSUME NEW p \in Procs, NEW r \in Request, UNCHANGED entries, Become(p, r),
               ~At(p, "Delete"), r.op # "Delete",
               r.op \in {"Check", "Write"} =>
                  /\ BeingDeleted \subseteq r.hit
                  /\ r.row.meant # 0 /\ r.row.plan \notin r.hit => Names(r.row)
        PROVE  Meant'
    <2>1. BeingDeleted' = BeingDeleted
      BY <1>3, NotDeleting
    <2>2. req' = [req EXCEPT ![p] = r]
      BY <1>3 DEF Become
    <2>3. QED  BY <1>0, <1>3, <2>1, <2>2 DEF Meant, Names, UsedEntry, UsedPlan
  <1>4. ASSUME NEW p \in Procs, NEW id \in Ids, NEW form \in EntryForms,
               ReadToEdit(p, id, form)
        PROVE  Meant'
    <2> DEFINE row == [entries[id] EXCEPT !.form.category = form.category,
                                          !.form.amount = form.amount]
               r == [op |-> "Write", id |-> id, hit |-> BeingDeleted, row |-> row]
    <2>1. /\ row \in Row /\ UsedEntry(id)
          /\ row.plan = entries[id].plan /\ row.meant = entries[id].meant
      BY <1>4, EditTyped DEF ReadToEdit
    <2>2. r \in Request
      BY <2>1, BeingDeletedTyped DEF Request
    <2>3. row.meant # 0 => Names(row)
      BY <2>1 DEF Meant, Names
    <2>4. ~At(p, "Delete") /\ UNCHANGED entries /\ Become(p, r)
      BY <1>4 DEF ReadToEdit, At, Idle
    <2>5. r.op = "Write" /\ r.hit = BeingDeleted /\ r.row = row
      OBVIOUS
    <2> HIDE DEF r, row
    <2>6. QED  BY <1>3, <2>2, <2>3, <2>4, <2>5
  <1>5. ASSUME NEW p \in Procs, NEW id \in Ids, NEW to \in PlanIds \cup {0},
               ReadToMatch(p, id, to)
        PROVE  Meant'
    <2>1. /\ entries[id] \in Row /\ UsedEntry(id)
          /\ ~At(p, "Delete") /\ UNCHANGED entries
      BY <1>5 DEF ReadToMatch, UsedEntry, At, Idle
    <2>2. CASE to = 0
      <3> DEFINE row == [entries[id] EXCEPT !.plan = 0, !.meant = 0]
                 r == [op |-> "Write", id |-> id, hit |-> BeingDeleted, row |-> row]
      <3>1. row \in Row /\ row.meant = 0
        BY <2>1 DEF Row
      <3>2. r \in Request
        BY <3>1, BeingDeletedTyped DEF Request
      <3>3. Become(p, r)
        BY <1>5, <2>2 DEF ReadToMatch
      <3>4. r.op = "Write" /\ r.hit = BeingDeleted /\ r.row = row
        OBVIOUS
      <3> HIDE DEF r, row
      <3>5. QED  BY <1>3, <2>1, <3>1, <3>2, <3>3, <3>4
    <2>3. CASE to # 0
      <3> DEFINE r == [op |-> "Check", id |-> id, hit |-> BeingDeleted,
                       row |-> entries[id], to |-> to]
      <3>1. r \in Request
        BY <2>1, <2>3, BeingDeletedTyped DEF Request
      <3>2. Become(p, r)
        BY <1>5, <2>3 DEF ReadToMatch
      <3>3. entries[id].meant # 0 => Names(entries[id])
        BY <2>1 DEF Meant
      <3>4. r.op = "Check" /\ r.hit = BeingDeleted /\ r.row = entries[id]
        OBVIOUS
      <3> HIDE DEF r
      <3>5. QED  BY <1>3, <2>1, <3>1, <3>2, <3>3, <3>4
    <2>4. QED  BY <2>2, <2>3
  <1>6. ASSUME NEW p \in Procs, CheckPlan(p) PROVE Meant'
    <2>1. /\ req[p] \in [op : {"Check"}, id : Ids, row : Row, to : PlanIds, hit : SUBSET PlanIds]
          /\ ~At(p, "Delete") /\ UNCHANGED entries
      BY <1>6, RequestShape DEF CheckPlan, At
    <2>2. CASE ~UsedPlan(req[p].to)
      <3>1. Become(p, Idle)
        BY <1>6, <2>2 DEF CheckPlan
      <3>2. QED  BY <1>3, <2>1, <3>1, IdleTyped
    <2>3. CASE UsedPlan(req[p].to)
      <3> DEFINE row == [req[p].row EXCEPT !.plan = req[p].to, !.meant = Serial(req[p].to)]
                 r == [op |-> "Write", id |-> req[p].id, hit |-> req[p].hit, row |-> row]
      <3>1. /\ Serial(req[p].to) \in Serials \cup {0}
            /\ plans[req[p].to].serial = Serial(req[p].to) \/ Serial(req[p].to) = 0
        BY <2>1, <2>3, SerialShape
      <3>2. row \in Row /\ row.plan = req[p].to /\ row.meant = Serial(req[p].to)
        BY <2>1, <3>1 DEF Row
      <3>3. r \in Request
        BY <2>1, <3>2 DEF Request
      <3>4. row.meant # 0 => Names(row)
        BY <2>1, <2>3, <3>1, <3>2 DEF Names
      <3>5. Become(p, r)
        BY <1>6, <2>3 DEF CheckPlan
      <3>6. r.op = "Write" /\ r.hit = req[p].hit /\ r.row = row
        OBVIOUS
      <3>7. BeingDeleted \subseteq req[p].hit
        BY <2>1 DEF Meant
      <3> HIDE DEF r, row
      <3>8. QED  BY <1>3, <2>1, <3>3, <3>4, <3>5, <3>6, <3>7
    <2>4. QED  BY <2>2, <2>3
  <1>7. ASSUME NEW p \in Procs, WriteEntry(p) PROVE Meant'
    <2>1. /\ req[p] \in [op : {"Write"}, id : Ids, row : Row, hit : SUBSET PlanIds]
          /\ ~At(p, "Delete") /\ Become(p, Idle)
      BY <1>7, RequestShape DEF WriteEntry, At
    <2>2. BeingDeleted' = BeingDeleted
      BY <2>1, IdleTyped, NotDeleting
    <2>3. req' = [req EXCEPT ![p] = Idle]
      BY <2>1 DEF Become
    <2>4. \A e \in Ids : UsedEntry(e)' /\ entries'[e].meant # 0 =>
             Names(entries'[e]) /\ entries'[e].plan \notin BeingDeleted
      <3> DEFINE row == Settled(req[p].row, req[p].hit)
      <3>1. row.meant # 0 => Names(row) /\ row.plan \notin BeingDeleted
        BY <2>1, SettledShape DEF Meant, Names
      <3>2. \A e \in Ids : entries'[e] = row \/ entries'[e] = entries[e]
        BY <1>7 DEF WriteEntry
      <3> HIDE DEF row
      <3>3. QED  BY <3>1, <3>2 DEF Meant, UsedEntry
    <2>5. QED  BY <1>0, <2>2, <2>3, <2>4, IdleTyped DEF Meant, Names, UsedPlan
  <1>8. QED  BY <1>1, <1>2, <1>4, <1>5, <1>6, <1>7 DEF EntryStep

LEMMA MeantPlanStep ==
    ASSUME TypeOK, Meant, PlanStep
    PROVE  Meant'
  <1> USE DEF TypeOK
  (* Plans that exist keep their serial numbers.                           *)
  <1>1. ASSUME UNCHANGED <<entries, req>>,
               \A id \in PlanIds : UsedPlan(id) =>
                  UsedPlan(id)' /\ plans'[id].serial = plans[id].serial
        PROVE  Meant'
    BY <1>1 DEF Meant, Names, UsedEntry, BeingDeleted, At
  <1>2. ASSUME NEW form \in PlanForms, AddPlanned(form) PROVE Meant'
    <2>1. PICK id \in PlanIds, stamp \in Stamps :
             /\ NextId(id, plans)
             /\ plans' = [plans EXCEPT ![id] =
                  [form |-> form, active |-> TRUE, created |-> stamp,
                   added |-> month, serial |-> serial + 1]]
      BY <1>2 DEF AddPlanned
    <2>2. plans[id] = NoRow
      BY <2>1 DEF NextId, PlanIds
    <2>3. QED  BY <1>1, <1>2, <2>1, <2>2 DEF AddPlanned, UsedPlan
  <1>3. ASSUME NEW id \in PlanIds, NEW form \in PlanForms, NEW active \in BOOLEAN,
               UpdatePlanned(id, form, active)
        PROVE  Meant'
    <2>1. plans[id] \in Plan /\ form \in PlanForm
      BY <1>3, PlanningAssumption DEF UpdatePlanned, UsedPlan
    <2>2. [plans[id] EXCEPT !.form = form, !.active = active] \in Plan
      BY <2>1 DEF Plan
    <2>3. /\ plans' = [plans EXCEPT ![id] = [plans[id] EXCEPT !.form = form, !.active = active]]
          /\ [plans[id] EXCEPT !.form = form, !.active = active].serial = plans[id].serial
      BY <1>3, <2>1 DEF UpdatePlanned, Plan
    <2>4. QED  BY <1>1, <1>3, <2>2, <2>3, PlanningAssumption DEF UpdatePlanned, UsedPlan
  <1>4. ASSUME NEW p \in Procs, NEW id \in PlanIds, ClearLinks(p, id) PROVE Meant'
    <2>1. /\ entries' = [e \in Ids |-> Unlinked(entries[e], id)]
          /\ req' = [q \in Procs |-> IF q = p THEN [op |-> "Delete", plan |-> id]
                                      ELSE Struck(req[q], id)]
          /\ UNCHANGED plans /\ req[p] = Idle
      BY <1>4 DEF ClearLinks
    <2>2. BeingDeleted' \subseteq BeingDeleted \cup {id}
      <3>1. ASSUME NEW q \in Procs, q # p, At(q, "Delete")'
            PROVE  At(q, "Delete") /\ req'[q] = req[q]
        <4>1. req'[q] = Struck(req[q], id) /\ req[q] \in Request
          BY <2>1, <3>1
        <4>2. req[q].op = "Delete"
          BY <3>1, <4>1, StruckShape DEF At
        <4>3. QED  BY <4>1, <4>2, StruckShape DEF At
      <3>2. req'[p].plan = id
        BY <2>1
      <3>3. QED  BY <3>1, <3>2 DEF BeingDeleted
    <2>3. ASSUME NEW e \in Ids, UsedEntry(e)', entries'[e].meant # 0
          PROVE  Names(entries'[e]) /\ entries'[e].plan \notin BeingDeleted'
      <3>1. UsedEntry(e) /\ entries'[e] = entries[e] /\ entries[e].plan # id
        <4>1. entries'[e] = Unlinked(entries[e], id) /\ entries'[e] # NoRow
          BY <2>1, <2>3 DEF UsedEntry
        <4>2. /\ entries[e] # NoRow
              /\ \/ entries'[e].meant = 0
                 \/ entries'[e] = entries[e] /\ entries[e].plan # id
          <5>1. entries[e] \in Row \cup {NoRow}
            OBVIOUS
          <5> HIDE DEF TypeOK
          <5>2. QED  BY <4>1, <5>1, UnlinkedShape
        <4>3. QED  BY <2>3, <4>2 DEF UsedEntry
      <3>2. QED  BY <2>2, <2>3, <3>1 DEF Meant
    <2>4. ASSUME NEW q \in Procs, req'[q].op \in {"Check", "Write"}
          PROVE  /\ BeingDeleted' \subseteq req'[q].hit
                 /\ req'[q].row.meant # 0 /\ req'[q].row.plan \notin req'[q].hit
                       => Names(req'[q].row)
      <3>1. q # p
        BY <2>1, <2>4
      <3>2. /\ req[q].op \in {"Check", "Write"}
            /\ req'[q].row = req[q].row /\ req'[q].hit = req[q].hit \cup {id}
        BY <2>1, <2>4, <3>1, StruckShape
      <3>3. QED  BY <2>2, <3>2 DEF Meant
    <2>5. QED  BY <2>1, <2>3, <2>4 DEF Meant, Names, UsedPlan
  <1>5. ASSUME NEW p \in Procs, DeletePlan(p) PROVE Meant'
    <2>1. /\ req[p].op = "Delete" /\ req[p].plan \in PlanIds
          /\ req[p].plan \in BeingDeleted
          /\ plans' = [plans EXCEPT ![req[p].plan] = NoRow]
          /\ req' = [req EXCEPT ![p] = Idle] /\ UNCHANGED entries
      BY <1>5, RequestShape DEF DeletePlan, At, Become, BeingDeleted
    <2>2. BeingDeleted' \subseteq BeingDeleted
      BY <2>1, IdleTyped DEF BeingDeleted, At
    <2>3. \A q \in Procs : req'[q].op \in {"Check", "Write"} => q # p /\ req'[q] = req[q]
      BY <2>1, IdleTyped
    <2>4. ASSUME NEW row, Names(row), row.plan # req[p].plan PROVE Names(row)'
      BY <2>1, <2>4 DEF Names, UsedPlan
    <2>5. ASSUME NEW e \in Ids, UsedEntry(e)', entries'[e].meant # 0
          PROVE  Names(entries[e])' /\ entries'[e].plan \notin BeingDeleted'
      <3>1. Names(entries[e]) /\ entries[e].plan \notin BeingDeleted
        BY <2>1, <2>5 DEF Meant, UsedEntry
      <3>2. entries' = entries
        BY <2>1
      <3>3. QED  BY <2>1, <2>2, <3>1, <3>2 DEF Names, UsedPlan
    <2>6. ASSUME NEW q \in Procs, req'[q].op \in {"Check", "Write"}
          PROVE  /\ BeingDeleted' \subseteq req'[q].hit
                 /\ req'[q].row.meant # 0 /\ req'[q].row.plan \notin req'[q].hit
                       => Names(req[q].row)'
      <3>1. req'[q] = req[q]
        BY <2>3, <2>6
      <3>2. /\ BeingDeleted \subseteq req[q].hit
            /\ req[q].row.meant # 0 /\ req[q].row.plan \notin req[q].hit => Names(req[q].row)
        BY <2>6, <3>1 DEF Meant
      <3>3. QED  BY <2>1, <2>2, <3>1, <3>2 DEF Names, UsedPlan
    <2>7. QED  BY <2>5, <2>6 DEF Meant
  <1>6. QED  BY <1>2, <1>3, <1>4, <1>5 DEF PlanStep

(* A link names the plan it was made for, whose id it is to this day,      *)
(* unless what wrote the link overlapped the plan's deletion: a plan's     *)
(* links are gone before the plan is, and only a request that was under    *)
(* way in between can bring one back.                                      *)
THEOREM LinksNamePlans == Spec => []LinksMeant
  <1>1. Init => TypeOK /\ Meant
    BY TypeInit, IdleTyped DEF Init, Meant, UsedEntry
  <1>2. TypeOK /\ Meant /\ [Next]_vars => (TypeOK /\ Meant)'
    <2> SUFFICES ASSUME TypeOK, Meant, [Next]_vars PROVE TypeOK' /\ Meant'
      OBVIOUS
    <2>1. ASSUME NEW p \in Procs, Abandon(p) PROVE Meant'
      <3>1. /\ req' = [req EXCEPT ![p] = Idle] /\ UNCHANGED <<entries, plans>>
        BY <2>1 DEF Abandon, Become
      <3>2. BeingDeleted' \subseteq BeingDeleted
        BY <3>1, IdleTyped DEF BeingDeleted, At, TypeOK
      <3>3. \A q \in Procs : req'[q].op \in {"Check", "Write"} => req'[q] = req[q]
        BY <3>1, IdleTyped DEF TypeOK
      <3>4. QED  BY <3>1, <3>2, <3>3 DEF Meant, Names, UsedEntry, UsedPlan
    <2>2. Tick \/ UNCHANGED vars => Meant'
      BY DEF Tick, vars, Meant, Names, UsedEntry, UsedPlan, BeingDeleted, At
    <2>3. QED  BY <2>1, <2>2, TypeStep, MeantEntryStep, MeantPlanStep DEF Next
  <1>3. Meant => LinksMeant
    BY DEF Meant, Names, LinksMeant
  <1>4. QED  BY <1>1, <1>2, <1>3, PTL DEF Spec

-----------------------------------------------------------------------------
(* The ghost counter. *)

(* A plan is never stamped with a month before the one it was added in.    *)
StampedLate == \A id \in PlanIds : UsedPlan(id) => plans[id].created >= plans[id].added

(* No month before a plan was added is held against it.                    *)
THEOREM NoGhostBeforePlan == Spec => []GhostsExisted
  <1>1. Init => TypeOK /\ StampedLate
    BY TypeInit DEF Init, StampedLate, UsedPlan
  <1>2. TypeOK /\ StampedLate /\ [Next]_vars => (TypeOK /\ StampedLate)'
    <2> SUFFICES ASSUME TypeOK, StampedLate, [Next]_vars PROVE TypeOK' /\ StampedLate'
      OBVIOUS
    <2>1. CASE UNCHANGED plans
      BY <2>1, TypeStep DEF StampedLate, UsedPlan
    <2>2. ASSUME NEW form \in PlanForms, AddPlanned(form) PROVE StampedLate'
      <3>1. PICK id \in PlanIds, stamp \in Stamps :
               plans' = [plans EXCEPT ![id] =
                  [form |-> form, active |-> TRUE, created |-> stamp,
                   added |-> month, serial |-> serial + 1]]
        BY <2>2 DEF AddPlanned
      <3>2. stamp >= month
        BY Ranges DEF Stamps, TypeOK
      <3>3. QED  BY <3>1, <3>2 DEF StampedLate, UsedPlan, TypeOK
    <2>3. ASSUME NEW id \in PlanIds, NEW form \in PlanForms, NEW active \in BOOLEAN,
                 UpdatePlanned(id, form, active)
          PROVE  StampedLate'
      <3>1. plans[id] \in Plan
        BY <2>3 DEF UpdatePlanned, UsedPlan, TypeOK
      <3>2. /\ plans'[id].created = plans[id].created /\ plans'[id].added = plans[id].added
            /\ \A i \in PlanIds : i # id => plans'[i] = plans[i]
        BY <2>3, <3>1 DEF UpdatePlanned, TypeOK, Plan
      <3>3. QED  BY <2>3, <3>1, <3>2 DEF UpdatePlanned, StampedLate, UsedPlan
    <2>4. ASSUME NEW p \in Procs, DeletePlan(p) PROVE StampedLate'
      BY <2>4 DEF DeletePlan, StampedLate, UsedPlan, TypeOK
    <2>5. EntryStep => UNCHANGED plans
      BY DEF EntryStep, AddEntry, DeleteEntry, ReadToEdit, ReadToMatch, CheckPlan, WriteEntry
    <2>6. (\E p \in Procs : Abandon(p) \/ \E id \in PlanIds : ClearLinks(p, id)) \/ Tick
          \/ UNCHANGED vars => UNCHANGED plans
      BY DEF Abandon, ClearLinks, Tick, vars
    <2>7. QED  BY <2>1, <2>2, <2>3, <2>4, <2>5, <2>6, TypeStep DEF Next, PlanStep
  <1>3. TypeOK /\ StampedLate => GhostsExisted
    <2> SUFFICES ASSUME TypeOK, StampedLate, NEW id \in PlanIds, UsedPlan(id),
                        NEW m \in Missed(id)
                 PROVE  m >= plans[id].added
      BY DEF GhostsExisted
    <2>1. m \in Int /\ plans[id].created <= m
      BY Ranges DEF Missed, ExistedBy
    <2>2. plans[id] \in Plan
      BY DEF TypeOK, UsedPlan
    <2>3. plans[id].created \in Nat /\ plans[id].added \in Months
      BY <2>2 DEF Plan
    <2>4. plans[id].created >= plans[id].added
      BY DEF StampedLate
    <2>5. plans[id].added \in Int
      BY <2>3, PlanningAssumption DEF Months
    <2>6. QED  BY <2>1, <2>3, <2>4, <2>5
  <1>4. QED  BY <1>1, <1>2, <1>3, PTL DEF Spec
=============================================================================
