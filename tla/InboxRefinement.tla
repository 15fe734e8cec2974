-------------------------- MODULE InboxRefinement --------------------------
(***************************************************************************)
(* Inbox implements SharedLedger: each write of a request is one of the    *)
(* promised steps, or changes nothing the promise speaks of.               *)
(***************************************************************************)
EXTENDS InboxProofs

LedgerShown == [t \in Txs |-> Shown(t)]

Promised == [Promise!Next]_(Promise!vars)

LEMMA SameShown ==
    ASSUME UNCHANGED entries
    PROVE  LedgerShown' = LedgerShown
  BY DEF LedgerShown, Shown, Used

(* The lines shown of an unflagged transaction, and of a flagged one. *)
LEMMA UnflaggedShown ==
    ASSUME Agree, NEW t \in Txs, txState[t] # "flagged"
    PROVE  Shown(t) = {}
  BY SharedIsSource, InboxAssumption DEF Agree, FlaggedIffEntry, Shown, Shared

LEMMA InitPromised == Init => Promise!Init
  BY DEF Init, Promise!Init, Shown, Used

LEMMA TriagePromised ==
    ASSUME TypeOK', UNCHANGED entries,
           \A t \in Txs :
              \/ txState'[t] = txState[t]
              \/ txState[t] = "absent" /\ txState'[t] \in {"new", "dismissed"}
              \/ txState[t] = "new" /\ txState'[t] = "dismissed"
    PROVE  Promised
  BY SameShown DEF Promised, Promise!Next, Promise!Triage, LedgerShown, TypeOK,
                   States

LEMMA StutterPromised ==
    ASSUME UNCHANGED <<txState, entries>>
    PROVE  Promised
  BY SameShown DEF Promised, Promise!vars, LedgerShown

LEMMA AddPromised ==
    ASSUME TypeOK, NEW p \in Procs, NEW u \in Users, NEW v \in Vals,
           AddManual(p, u, v)
    PROVE  Promised
  <1>1. PICK id \in Ids :
           /\ NextId(id)
           /\ entries' = [entries EXCEPT ![id] =
                 [payer |-> u, ref |-> NoTx, val |-> v]]
    BY DEF AddManual
  <1>2. ~Used(id)
    BY <1>1, FreshIdUnused
  <1>3. \A i \in Ids \ {id} : entries'[i] = entries[i]
    BY <1>1 DEF TypeOK
  <1>4. entries'[id].ref = NoTx
    BY <1>1 DEF TypeOK
  <1>5. \A t \in Txs :
           {i \in Ids : Used(i)' /\ entries'[i].ref = t}
             = {i \in Ids : Used(i) /\ entries[i].ref = t}
    BY <1>2, <1>3, <1>4, InboxAssumption DEF Used
  <1>6. \A t \in Txs : Shown(t)' = Shown(t)
    BY <1>2, <1>3, <1>5 DEF Shown
  <1>7. QED
    BY <1>6 DEF AddManual, Promised, Promise!vars

LEMMA FlagPromised ==
    ASSUME TypeOK, Agree, NEW p \in Procs, FlagCommit(p),
           txState[req[p].tx] # "absent"
    PROVE  Promised
  <1>t. PICK t \in Txs, v \in Vals : t = req[p].tx /\ v = req[p].val
    BY RequestShape DEF FlagCommit, At, TypeOK
  <1>1. PICK id \in Ids :
           /\ NextId(id)
           /\ entries' = [entries EXCEPT ![id] =
                 [payer |-> Owner[t], ref |-> t, val |-> v]]
    BY <1>t DEF FlagCommit
  <1>2. ~Used(id) /\ ~Shared(t)
    BY <1>t, <1>1, FreshIdUnused, SharedIsSource, InboxAssumption
       DEF Agree, FlagCommit
  <1>3. \A i \in Ids \ {id} : entries'[i] = entries[i]
    BY <1>1 DEF TypeOK
  <1>4. entries'[id] = [payer |-> Owner[t], ref |-> t, val |-> v]
    BY <1>1 DEF TypeOK
  <1>5. entries'[id] # NoRow
    BY <1>4, InboxAssumption DEF Row
  <1>6. {i \in Ids : Used(i)' /\ entries'[i].ref = t} = {id}
    BY <1>2, <1>3, <1>4, <1>5 DEF Shared, Used
  <1>7. Shown(t)' = {[payer |-> Owner[t], val |-> v]}
    BY <1>4, <1>6 DEF Shown
  <1>8. \A w \in Txs \ {t} :
           {i \in Ids : Used(i)' /\ entries'[i].ref = w}
             = {i \in Ids : Used(i) /\ entries[i].ref = w}
    BY <1>2, <1>3, <1>4 DEF Used
  <1>9. \A w \in Txs \ {t} : Shown(w)' = Shown(w)
    BY <1>2, <1>3, <1>8 DEF Shown
  <1>10. txState' = [txState EXCEPT ![t] = "flagged"]
    BY <1>t DEF FlagCommit, FlagSetsState, SetState, TypeOK
  <1>11. txState[t] \in {"new", "dismissed"}
    BY <1>t, <1>2, SharedIsSource, InboxAssumption
       DEF Agree, FlaggedIffEntry, TypeOK, States
  <1>12. Promise!Flag(t, v)
    BY <1>7, <1>9, <1>10, <1>11 DEF Promise!Flag, Promise!Line
  <1>13. QED
    BY <1>12 DEF Promised, Promise!Next

(* A stale Unflag is Restore, or nothing. *)
LEMMA UnflagPromised ==
    ASSUME TypeOK, Agree, NEW p \in Procs, UnflagCommit(p)
    PROVE  Promised
  <1>t. PICK t \in Txs : t = req[p].tx
    BY RequestShape DEF UnflagCommit, At, TypeOK
  <1>1. \A i \in Ids : entries'[i] = IF IsSource(i, Owner[t], t) THEN NoRow
                                     ELSE entries[i]
    BY <1>t DEF UnflagCommit, WithoutSource
  <1>2. Shown(t)' = {}
    <2>1. {i \in Ids : Used(i)' /\ entries'[i].ref = t} = {}
      BY <1>1, InboxAssumption DEF IsSource, Used, Agree, BookedOnceOnOwner
    <2>2. QED  BY <2>1 DEF Shown
  <1>3. \A w \in Txs \ {t} : Shown(w)' = Shown(w)
    <2>1. \A w \in Txs \ {t} :
             {i \in Ids : Used(i)' /\ entries'[i].ref = w}
               = {i \in Ids : Used(i) /\ entries[i].ref = w}
      BY <1>1 DEF IsSource, Used
    <2>2. \A w \in Txs \ {t} : \A i \in Ids :
             Used(i) /\ entries[i].ref = w => entries'[i] = entries[i]
      BY <1>1 DEF IsSource
    <2>3. QED  BY <2>1, <2>2 DEF Shown
  <1>4. txState' = IF txState[t] = "absent" THEN txState
                   ELSE [txState EXCEPT ![t] = "new"]
    BY <1>t DEF UnflagCommit, SetState, TypeOK
  <1>5. CASE txState[t] = "flagged"
    <2>1. Promise!Return(t)
      BY <1>2, <1>3, <1>4, <1>5 DEF Promise!Return
    <2>2. QED  BY <2>1 DEF Promised, Promise!Next
  <1>6. CASE txState[t] # "flagged"
    <2>1. LedgerShown' = LedgerShown
      BY <1>2, <1>3, <1>6, UnflaggedShown DEF LedgerShown
    <2>2. CASE txState[t] = "dismissed"
      <3>1. Promise!Restore(t)
        BY <1>4, <2>1, <2>2 DEF Promise!Restore, LedgerShown
      <3>2. QED  BY <3>1 DEF Promised, Promise!Next
    <2>3. CASE txState[t] # "dismissed"
      <3>1. txState' = txState
        BY <1>4, <1>6, <2>3 DEF TypeOK, States
      <3>2. QED  BY <2>1, <3>1 DEF Promised, Promise!vars, LedgerShown
    <2>4. QED  BY <2>2, <2>3
  <1>7. QED
    BY <1>5, <1>6

LEMMA UpdatePromised ==
    ASSUME TypeOK, Agree, NEW p \in Procs, UpdateWrite(p),
           /\ Used(req[p].id)
           /\ req[p].row.payer = entries[req[p].id].payer
    PROVE  Promised
  <1>t. PICK id \in Ids, row \in Row : id = req[p].id /\ row = req[p].row
    BY RequestShape DEF UpdateWrite, At, TypeOK
  <1>1. CASE UpdateRefused(id, row)
    BY <1>t, <1>1, StutterPromised DEF UpdateWrite
  <1>2. CASE ~UpdateRefused(id, row)
    <2>1. Used(id) /\ row.payer = entries[id].payer /\ UNCHANGED txState
      BY <1>t DEF UpdateWrite
    <2>2. \A i \in Ids \ {id} : entries'[i] = entries[i]
      BY <1>t, <1>2 DEF UpdateWrite, TypeOK
    <2>3. /\ entries'[id] \in Row
          /\ entries'[id].payer = entries[id].payer
          /\ entries'[id].ref = entries[id].ref
          /\ entries'[id].val = row.val
      BY <1>t, <1>2, <2>1 DEF UpdateWrite, Written, Used, TypeOK, Row
    <2>4. \A i \in Ids : Used(i)' <=> Used(i)
      BY <2>1, <2>2, <2>3, InboxAssumption DEF Used
    <2>5. \A t \in Txs :
             {i \in Ids : Used(i)' /\ entries'[i].ref = t}
               = {i \in Ids : Used(i) /\ entries[i].ref = t}
      BY <2>2, <2>3, <2>4
    <2>6. \A t \in Txs : t # entries[id].ref => Shown(t)' = Shown(t)
      BY <2>2, <2>5 DEF Shown
    <2>7. CASE entries[id].ref \in Txs
      <3>t. PICK t \in Txs, v \in Vals : t = entries[id].ref /\ v = row.val
        BY <2>7 DEF Row
      <3>1. entries[id].payer = Owner[t]
        BY <2>1, <3>t, InboxAssumption DEF Agree, BookedOnceOnOwner
      <3>2. {i \in Ids : Used(i) /\ entries[i].ref = t} = {id}
        BY <2>1, <3>t, InboxAssumption DEF Agree, BookedOnceOnOwner
      <3>3. Shown(t)' = {[payer |-> Owner[t], val |-> v]}
        BY <2>3, <2>5, <3>t, <3>1, <3>2 DEF Shown
      <3>4. txState[t] = "flagged"
        BY <2>1, <3>t, <3>1 DEF Agree, FlaggedIffEntry, HasSource, IsSource
      <3>5. Promise!Edit(t, v)
        BY <2>1, <2>6, <3>t, <3>3, <3>4 DEF Promise!Edit, Promise!Line
      <3>6. QED  BY <3>5 DEF Promised, Promise!Next
    <2>8. CASE entries[id].ref \notin Txs
      BY <2>1, <2>6, <2>8 DEF Promised, Promise!vars
    <2>9. QED  BY <2>7, <2>8
  <1>3. QED
    BY <1>1, <1>2

LEMMA DeletePromised ==
    ASSUME TypeOK, Agree, NEW p \in Procs, DeleteCommit(p),
           Used(req[p].id) /\ req[p].row = entries[req[p].id]
    PROVE  Promised
  <1>t. PICK id \in Ids, row \in Row :
           id = req[p].id /\ row = req[p].row /\ Used(id) /\ row = entries[id]
    BY RequestShape DEF DeleteCommit, At, TypeOK
  <1>1. \A i \in Ids : entries'[i] = IF i = id THEN NoRow ELSE entries[i]
    BY <1>t DEF DeleteCommit, TypeOK
  <1>2. txState' = SetState(SourceOf(row), "new")
    BY <1>t DEF DeleteCommit
  <1>3. \A t \in Txs : t # row.ref => Shown(t)' = Shown(t)
    <2>1. \A t \in Txs : t # row.ref =>
             {i \in Ids : Used(i)' /\ entries'[i].ref = t}
               = {i \in Ids : Used(i) /\ entries[i].ref = t}
      BY <1>t, <1>1 DEF Used
    <2>2. QED  BY <1>t, <1>1, <2>1 DEF Shown
  <1>4. CASE row.ref \in Txs
    <2>t. PICK t \in Txs : t = row.ref
      BY <1>4
    <2>1. row.payer = Owner[t]
      BY <1>t, <2>t, InboxAssumption DEF Agree, BookedOnceOnOwner
    <2>2. SourceOf(row) = {t}
      BY <2>t, <2>1 DEF SourceOf
    <2>3. {i \in Ids : Used(i)' /\ entries'[i].ref = t} = {}
      BY <1>t, <1>1, <2>t, InboxAssumption DEF Used, Agree, BookedOnceOnOwner
    <2>4. Shown(t)' = {}
      BY <2>3 DEF Shown
    <2>5. txState[t] = "flagged"
      BY <1>t, <2>t, <2>1 DEF Agree, FlaggedIffEntry, HasSource, IsSource
    <2>6. txState' = [txState EXCEPT ![t] = "new"]
      BY <1>2, <2>2, <2>5 DEF SetState, TypeOK
    <2>7. Promise!Return(t)
      BY <1>3, <2>t, <2>4, <2>5, <2>6 DEF Promise!Return
    <2>8. QED  BY <2>7 DEF Promised, Promise!Next
  <1>5. CASE row.ref \notin Txs
    <2>1. txState' = txState
      BY <1>2, <1>5 DEF SourceOf, SetState, TypeOK
    <2>2. QED  BY <1>3, <1>5, <2>1 DEF Promised, Promise!vars
  <1>6. QED
    BY <1>4, <1>5

LEMMA SyncPromised ==
    ASSUME TypeOK, TypeOK', NEW p \in Procs, SyncCommit(p),
           \A t \in InTransfer(req[p].fresh \cup req[p].rows) \ req[p].fresh :
              txState[t] = "new"
    PROVE  Promised
  BY TriagePromised DEF SyncCommit, Stored, Verdicts

-----------------------------------------------------------------------------
(* Any number of concurrent flags, unflags, accept-alls, manual entries    *)
(* and pulls of bank data behave like the promised indivisible steps.      *)
THEOREM ConcurrentRefinement ==
    ASSUME Ops \subseteq SafeOps, Transfers = {}
    PROVE  Spec => KeepsPromise
  <1> DEFINE Inv == Agree /\ OnlySafe
  <1>1. Init => Inv
    BY InitAgree DEF Init, OnlySafe, Idle
  <1>2. TypeOK /\ PendingStored /\ Inv /\ [Next]_vars => Inv' /\ Promised
    <2> SUFFICES ASSUME TypeOK, TypeOK', PendingStored, Inv, [Next]_vars
                 PROVE  Inv' /\ Promised
      BY TypeStep
    <2>1. CASE UNCHANGED vars
      BY <2>1, SameFlagged, StutterPromised DEF OnlySafe, vars
    <2> SUFFICES ASSUME NEW p \in Procs, Step(p) PROVE Inv' /\ Promised
      BY <2>1 DEF Next
    <2>2. Inv'
      BY OnlySafeStep, SafeStepKeeps
    <2>3. CASE \E u \in Users, v \in Vals : AddManual(p, u, v)
      BY <2>2, <2>3, AddPromised
    <2>4. CASE FlagCommit(p)
      BY <2>2, <2>4, FlagPromised DEF PendingStored, FlagCommit
    <2>5. CASE UnflagCommit(p)
      BY <2>2, <2>5, UnflagPromised
    <2>6. CASE SyncCommit(p)
      BY <2>2, <2>6, SyncPromised DEF InTransfer
    <2>7. ~UpdateWrite(p) /\ ~DeleteCommit(p) /\ ~SetStateWrite(p)
          /\ ~ReapplyCommit(p)
      BY DEF OnlySafe, UpdateWrite, DeleteCommit, SetStateWrite,
             ReapplyCommit, At
    <2>8. CASE UNCHANGED <<txState, entries>>
      BY <2>2, <2>8, StutterPromised
    <2>9. QED
      BY <2>3, <2>4, <2>5, <2>6, <2>7, <2>8, EntriesWriters, StateWriters
  <1>3. QED
    BY <1>1, <1>2, InitPromised, TypeCorrect, PendingStoredAlways, PTL
       DEF Spec, KeepsPromise, Promise!Spec, Promised

(* One request at a time, every operation of the inbox and the ledger is   *)
(* one of the promised indivisible steps.                                  *)
THEOREM SerialRefinement ==
    ASSUME \A p, q \in Procs : p = q
    PROVE  Spec => KeepsPromise
  <1>1. TypeOK /\ Agree /\ AllCurrent /\ [Next]_vars => Promised
    <2> SUFFICES ASSUME TypeOK, TypeOK', Agree, AllCurrent, [Next]_vars
                 PROVE  Promised
      BY TypeStep
    <2>1. CASE UNCHANGED vars
      BY <2>1, StutterPromised DEF vars
    <2> SUFFICES ASSUME NEW p \in Procs, Step(p) PROVE Promised
      BY <2>1 DEF Next
    <2>2. Current(p)
      BY DEF AllCurrent
    <2>3. CASE \E u \in Users, v \in Vals : AddManual(p, u, v)
      BY <2>3, AddPromised
    <2>4. CASE FlagCommit(p)
      BY <2>2, <2>4, FlagPromised DEF Current, Flaggable, FlagCommit
    <2>5. CASE UnflagCommit(p)
      BY <2>5, UnflagPromised
    <2>6. CASE SyncCommit(p)
      BY <2>2, <2>6, SyncPromised DEF InTransfer, Current, SyncCommit
    <2>7. CASE UpdateWrite(p)
      BY <2>2, <2>7, UpdatePromised DEF Current, UpdateWrite
    <2>8. CASE DeleteCommit(p)
      BY <2>2, <2>8, DeletePromised DEF Current, DeleteCommit
    <2>9. CASE SetStateWrite(p)
      <3>t. PICK t \in Txs : t = req[p].tx
        BY <2>9, RequestShape DEF SetStateWrite, At, TypeOK
      <3>1. UNCHANGED entries /\ LedgerShown' = LedgerShown
        BY <2>9, SameShown DEF SetStateWrite
      <3>2. CASE req[p].to = "dismissed" /\ txState[t] = "new"
        BY <2>9, <3>t, <3>1, <3>2, TriagePromised DEF SetStateWrite, SetState
      <3>3. CASE req[p].to = "new" /\ txState[t] = "dismissed"
        <4>1. txState' = [txState EXCEPT ![t] = "new"]
          BY <2>9, <3>t, <3>3 DEF SetStateWrite, SetState, TypeOK
        <4>2. Promise!Restore(t)
          BY <3>1, <3>3, <4>1 DEF Promise!Restore, LedgerShown
        <4>3. QED  BY <4>2 DEF Promised, Promise!Next
      <3>4. QED
        BY <2>2, <2>9, <3>t, <3>2, <3>3 DEF Current, SetStateWrite
    <2>10. CASE ReapplyCommit(p)
      BY <2>2, <2>10, TriagePromised DEF Current, ReapplyCommit, SetState, Verdicts
    <2>11. CASE UNCHANGED <<txState, entries>>
      BY <2>11, StutterPromised
    <2>12. QED
      BY <2>3, <2>4, <2>5, <2>6, <2>7, <2>8, <2>9, <2>10, <2>11,
         EntriesWriters, StateWriters
  <1>2. QED
    BY <1>1, InitPromised, TypeCorrect, SerialInvariant, PTL
       DEF Spec, KeepsPromise, Promise!Spec, Promised
=============================================================================
