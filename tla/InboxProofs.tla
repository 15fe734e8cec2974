---------------------------- MODULE InboxProofs -----------------------------
(***************************************************************************)
(* Theorems about Inbox, for every household, every set of transactions    *)
(* and any number of requests at once.                                     *)
(***************************************************************************)
EXTENDS Inbox, TLAPS

-----------------------------------------------------------------------------
(* Requests. *)

(* The operation a request names says which fields it has. *)
LEMMA RequestShape ==
    ASSUME NEW r \in Request
    PROVE  /\ r.op = "Flag" =>
                 r \in [op : {"Flag"}, tx : Txs, val : Vals, todo : SUBSET Txs]
           /\ r.op = "Accept" => r \in [op : {"Accept"}, todo : SUBSET Txs]
           /\ r.op = "SetState" =>
                 r \in [op : {"SetState"}, tx : Txs, to : {"new", "dismissed"}]
           /\ r.op = "Unflag" => r \in [op : {"Unflag"}, tx : Txs]
           /\ r.op = "EditFlagged" =>
                 r \in [op : {"EditFlagged"}, tx : Txs, val : Vals]
           /\ r.op \in {"UpdateEntry", "DeleteEntry"} =>
                 r \in [op : {"UpdateEntry", "DeleteEntry"}, id : Ids, row : Row]
           /\ r.op = "ReapplyRules" =>
                 r \in [op : {"ReapplyRules"}, rows : SUBSET Txs]
           /\ r.op = "SyncPool" =>
                 r \in [op : {"SyncPool"}, user : Users, fresh : SUBSET Txs]
           /\ r.op = "SyncWrite" =>
                 r \in [op : {"SyncWrite"}, fresh : SUBSET Txs, rows : SUBSET Txs]
  BY DEF Request, Idle

(* A handler that moves on to a well-formed request keeps req well typed. *)
LEMMA BecomeTyped ==
    ASSUME req \in [Procs -> Request], NEW p \in Procs,
           NEW r \in Request, Become(p, r)
    PROVE  req' \in [Procs -> Request]
  BY DEF Become

(* UPDATE of a state keeps the column within its CHECK. *)
LEMMA SetStateTyped ==
    ASSUME txState \in [Txs -> States], NEW S, NEW s \in States
    PROVE  SetState(S, s) \in [Txs -> States]
  BY DEF SetState

LEMMA IdleTyped == Idle \in Request
  BY DEF Request

-----------------------------------------------------------------------------
(* Every step keeps the tables and the requests to their shapes. *)
LEMMA TypeStep == TypeOK /\ [Next]_vars => TypeOK'
  <1> SUFFICES ASSUME TypeOK, [Next]_vars PROVE TypeOK'
    OBVIOUS
  <1>0. CASE UNCHANGED vars
    BY <1>0 DEF TypeOK, vars
  <1> SUFFICES ASSUME NEW p \in Procs, Step(p) PROVE TypeOK'
    BY <1>0 DEF Next
  <1> USE DEF TypeOK
  <1>r. req[p] \in Request
    OBVIOUS
  <1>1. ASSUME NEW t \in Txs, TxStep(p, t) PROVE TypeOK'
    <2>1. CASE AcceptLoad(p, t)
      <3>1. [op |-> "Flag", tx |-> t, val |-> SuggestedVal,
             todo |-> req[p].todo \ {t}] \in Request
        BY <2>1, <1>r, RequestShape, InboxAssumption
           DEF AcceptLoad, At, Request
      <3>2. QED  BY <2>1, <3>1, BecomeTyped DEF AcceptLoad
    <2>2. CASE DismissLoad(p, t)
      <3>1. [op |-> "SetState", tx |-> t, to |-> "dismissed"] \in Request
        BY DEF Request
      <3>2. QED  BY <2>2, <3>1, BecomeTyped DEF DismissLoad
    <2>3. CASE RestoreLoad(p, t)
      <3>1. [op |-> "SetState", tx |-> t, to |-> "new"] \in Request
        BY DEF Request
      <3>2. QED  BY <2>3, <3>1, BecomeTyped DEF RestoreLoad
    <2>4. CASE UnflagLoad(p, t)
      <3>1. [op |-> "Unflag", tx |-> t] \in Request
        BY DEF Request
      <3>2. QED  BY <2>4, <3>1, BecomeTyped DEF UnflagLoad
    <2>5. ASSUME NEW v \in Vals, FlagLoad(p, t, v) PROVE TypeOK'
      <3>1. [op |-> "Flag", tx |-> t, val |-> v, todo |-> {}] \in Request
        BY DEF Request
      <3>2. QED  BY <2>5, <3>1, BecomeTyped DEF FlagLoad
    <2>6. ASSUME NEW v \in Vals, EditLoad(p, t, v) PROVE TypeOK'
      <3>1. [op |-> "EditFlagged", tx |-> t, val |-> v] \in Request
        BY DEF Request
      <3>2. QED  BY <2>6, <3>1, BecomeTyped DEF EditLoad
    <2>7. QED
      BY <1>1, <2>1, <2>2, <2>3, <2>4, <2>5, <2>6 DEF TxStep
  <1>2. ASSUME LedgerStep(p) PROVE TypeOK'
    <2>1. ASSUME NEW u \in Users, NEW v \in Vals, AddManual(p, u, v)
          PROVE TypeOK'
      <3>1. [payer |-> u, ref |-> NoTx, val |-> v] \in Row
        BY DEF Row
      <3>2. QED  BY <2>1, <3>1 DEF AddManual
    <2>2. ASSUME NEW id \in Ids, DeleteLoad(p, id) PROVE TypeOK'
      <3>1. [op |-> "DeleteEntry", id |-> id, row |-> entries[id]] \in Request
        BY <2>2 DEF DeleteLoad, Used, Request
      <3>2. QED  BY <2>2, <3>1, BecomeTyped DEF DeleteLoad
    <2>3. ASSUME NEW id \in Ids, NEW v \in Vals, UpdateLoad(p, id, v)
          PROVE TypeOK'
      <3>1. [entries[id] EXCEPT !.val = v] \in Row
        BY <2>3 DEF UpdateLoad, Used, Row
      <3>2. [op |-> "UpdateEntry", id |-> id,
             row |-> [entries[id] EXCEPT !.val = v]] \in Request
        BY <3>1 DEF Request
      <3>3. QED  BY <2>3, <3>2, BecomeTyped DEF UpdateLoad
    <2>4. CASE UpdateWrite(p)
      <3>1. req[p].id \in Ids /\ req[p].row \in Row
        BY <2>4, <1>r, RequestShape DEF UpdateWrite, At
      <3>2. Used(req[p].id) => Written(req[p].id, req[p].row) \in Row
        BY <3>1 DEF Used, Written, Row
      <3>3. entries' \in [Ids -> Row \cup {NoRow}]
        BY <2>4, <3>1, <3>2 DEF UpdateWrite, UpdateRefused
      <3>4. QED  BY <2>4, <3>3, IdleTyped, BecomeTyped DEF UpdateWrite
    <2>5. CASE DeleteCommit(p)
      <3>1. txState' \in [Txs -> States]
        BY <2>5, SetStateTyped DEF DeleteCommit, States
      <3>2. entries' \in [Ids -> Row \cup {NoRow}]
        BY <2>5 DEF DeleteCommit
      <3>3. QED  BY <2>5, <3>1, <3>2, IdleTyped, BecomeTyped DEF DeleteCommit
    <2>6. QED
      BY <1>2, <2>1, <2>2, <2>3, <2>4, <2>5 DEF LedgerStep
  <1>3. ASSUME BatchStep(p) PROVE TypeOK'
    <2>1. ASSUME NEW u \in Users, AcceptList(p, u) PROVE TypeOK'
      <3>1. [op |-> "Accept", todo |-> Suggestions(u)] \in Request
        BY DEF Request, Suggestions
      <3>2. QED  BY <2>1, <3>1, BecomeTyped DEF AcceptList
    <2>2. ASSUME NEW u \in Users, ReapplyLoad(p, u) PROVE TypeOK'
      <3>1. [op |-> "ReapplyRules", rows |-> InState(u, "new")] \in Request
        BY DEF Request, InState
      <3>2. QED  BY <2>2, <3>1, BecomeTyped DEF ReapplyLoad
    <2>3. ASSUME NEW u \in Users, NEW got \in SUBSET Txs, SyncLoad(p, u, got)
          PROVE TypeOK'
      <3>1. [op |-> "SyncPool", user |-> u,
             fresh |-> {t \in got : txState[t] = "absent"}] \in Request
        BY DEF Request
      <3>2. QED  BY <2>3, <3>1, BecomeTyped DEF SyncLoad
    <2>4. CASE AcceptEnd(p)
      BY <2>4, IdleTyped, BecomeTyped DEF AcceptEnd
    <2>5. CASE ReapplyCommit(p)
      <3>1. req[p].rows \in SUBSET Txs
        BY <2>5, <1>r, RequestShape DEF ReapplyCommit, At
      <3>2. txState' \in [Txs -> States]
        BY <2>5, SetStateTyped DEF ReapplyCommit, States
      <3>3. QED  BY <2>5, <3>1, <3>2, IdleTyped, BecomeTyped DEF ReapplyCommit, Verdicts
    <2>6. CASE SyncPool(p)
      <3>1. req[p].fresh \in SUBSET Txs
        BY <2>6, <1>r, RequestShape DEF SyncPool, At
      <3>2. [op |-> "SyncWrite", fresh |-> req[p].fresh,
             rows |-> InState(req[p].user, "new")] \in Request
        BY <3>1 DEF Request, InState
      <3>3. QED  BY <2>6, <3>2, BecomeTyped DEF SyncPool
    <2>7. CASE SyncCommit(p)
      <3>1. req[p].fresh \in SUBSET Txs
        BY <2>7, <1>r, RequestShape DEF SyncCommit, At
      <3>2. txState' \in [Txs -> States]
        BY <2>7 DEF SyncCommit, States
      <3>3. suggested' \in SUBSET Txs
        BY <2>7, <3>1 DEF SyncCommit, Verdicts
      <3>4. QED  BY <2>7, <3>2, <3>3, IdleTyped, BecomeTyped DEF SyncCommit
    <2>8. CASE SyncConflict(p)
      BY <2>8, IdleTyped, BecomeTyped DEF SyncConflict
    <2>9. QED
      BY <1>3, <2>1, <2>2, <2>3, <2>4, <2>5, <2>6, <2>7, <2>8 DEF BatchStep
  <1>4. CASE FlagCommit(p)
    <2>1. req[p].tx \in Txs /\ req[p].val \in Vals /\ req[p].todo \in SUBSET Txs
      BY <1>4, <1>r, RequestShape DEF FlagCommit, At
    <2>2. [payer |-> Owner[req[p].tx], ref |-> req[p].tx, val |-> req[p].val] \in Row
      BY <2>1, InboxAssumption DEF Row
    <2>3. entries' \in [Ids -> Row \cup {NoRow}]
      BY <1>4, <2>2 DEF FlagCommit
    <2>4. txState' \in [Txs -> States]
      BY <1>4, SetStateTyped DEF FlagCommit, FlagSetsState, States
    <2>5. (IF req[p].todo = {} THEN Idle
           ELSE [op |-> "Accept", todo |-> req[p].todo]) \in Request
      BY <2>1, IdleTyped DEF Request
    <2>6. QED  BY <1>4, <2>3, <2>4, <2>5, BecomeTyped DEF FlagCommit
  <1>5. CASE FlagConflict(p)
    BY <1>5, IdleTyped, BecomeTyped DEF FlagConflict
  <1>6. CASE SetStateWrite(p)
    <2>1. req[p].to \in States
      BY <1>6, <1>r, RequestShape DEF SetStateWrite, At, States
    <2>2. txState' \in [Txs -> States]
      BY <1>6, <2>1, SetStateTyped DEF SetStateWrite
    <2>3. QED  BY <1>6, <2>2, IdleTyped, BecomeTyped DEF SetStateWrite
  <1>7. CASE EditFind(p)
    <2>1. req[p].tx \in Txs /\ req[p].val \in Vals
      BY <1>7, <1>r, RequestShape DEF EditFind, At
    <2>2. ASSUME NEW id \in Ids, IsSource(id, Owner[req[p].tx], req[p].tx),
                 Become(p, [op |-> "UpdateEntry", id |-> id,
                            row |-> [entries[id] EXCEPT !.val = req[p].val]])
          PROVE req' \in [Procs -> Request]
      <3>1. [entries[id] EXCEPT !.val = req[p].val] \in Row
        BY <2>1, <2>2 DEF IsSource, Used, Row
      <3>2. [op |-> "UpdateEntry", id |-> id,
             row |-> [entries[id] EXCEPT !.val = req[p].val]] \in Request
        BY <3>1 DEF Request
      <3>3. QED  BY <2>2, <3>2, BecomeTyped
    <2>3. QED  BY <1>7, <2>2, IdleTyped, BecomeTyped DEF EditFind
  <1>8. CASE UnflagCommit(p)
    <2>1. txState' \in [Txs -> States]
      BY <1>8, SetStateTyped DEF UnflagCommit, States
    <2>2. entries' \in [Ids -> Row \cup {NoRow}]
      BY <1>8 DEF UnflagCommit, WithoutSource
    <2>3. QED  BY <1>8, <2>1, <2>2, IdleTyped, BecomeTyped DEF UnflagCommit
  <1>9. CASE Abort(p)
    BY <1>9, IdleTyped, BecomeTyped DEF Abort
  <1>10. QED
    BY <1>1, <1>2, <1>3, <1>4, <1>5, <1>6, <1>7, <1>8, <1>9 DEF Step

(* The tables and the requests always hold values of their shapes. *)
THEOREM TypeCorrect == Spec => []TypeOK
  <1>1. Init => TypeOK
    BY IdleTyped DEF Init, TypeOK, States
  <1>2. QED
    BY <1>1, TypeStep, PTL DEF Spec

-----------------------------------------------------------------------------
(* Which operations write which table. *)

LEMMA EntriesWriters ==
    ASSUME NEW p \in Procs, Step(p)
    PROVE  \/ UNCHANGED entries
           \/ \E u \in Users, v \in Vals : AddManual(p, u, v)
           \/ FlagCommit(p) \/ UnflagCommit(p)
           \/ UpdateWrite(p) \/ DeleteCommit(p)
  <1>1. ASSUME NEW t \in Txs, TxStep(p, t) PROVE UNCHANGED entries
    BY <1>1 DEF TxStep, AcceptLoad, DismissLoad, RestoreLoad, UnflagLoad,
                FlagLoad, EditLoad
  <1>2. CASE LedgerStep(p)
    BY <1>2 DEF LedgerStep, DeleteLoad, UpdateLoad
  <1>3. CASE BatchStep(p)
    BY <1>3 DEF BatchStep, AcceptList, ReapplyLoad, SyncLoad, AcceptEnd,
                ReapplyCommit, SyncPool, SyncCommit, SyncConflict
  <1>4. QED
    BY <1>1, <1>2, <1>3 DEF Step, FlagConflict, SetStateWrite, EditFind, Abort

LEMMA StateWriters ==
    ASSUME NEW p \in Procs, Step(p)
    PROVE  \/ UNCHANGED txState
           \/ FlagCommit(p) \/ UnflagCommit(p) \/ SetStateWrite(p)
           \/ DeleteCommit(p) \/ ReapplyCommit(p) \/ SyncCommit(p)
  <1>1. ASSUME NEW t \in Txs, TxStep(p, t) PROVE UNCHANGED txState
    BY <1>1 DEF TxStep, AcceptLoad, DismissLoad, RestoreLoad, UnflagLoad,
                FlagLoad, EditLoad
  <1>2. CASE LedgerStep(p)
    BY <1>2 DEF LedgerStep, DeleteLoad, UpdateLoad, UpdateWrite, AddManual
  <1>3. CASE BatchStep(p)
    BY <1>3 DEF BatchStep, AcceptList, ReapplyLoad, SyncLoad, AcceptEnd,
                SyncPool, SyncConflict
  <1>4. QED
    BY <1>1, <1>2, <1>3 DEF Step, FlagConflict, EditFind, Abort

(* No operation deletes a transaction. *)
LEMMA StoredStays ==
    ASSUME TypeOK, NEW p \in Procs, Step(p),
           NEW t \in Txs, txState[t] # "absent"
    PROVE  txState'[t] # "absent"
  <1>1. ASSUME NEW S, NEW s \in {"new", "flagged", "dismissed"},
               txState' = SetState(S, s)
        PROVE  txState'[t] # "absent"
    BY <1>1 DEF SetState
  <1>2. CASE SetStateWrite(p)
    <2>1. req[p].to \in {"new", "dismissed"}
      BY <1>2, RequestShape DEF SetStateWrite, At, TypeOK
    <2>2. QED  BY <1>1, <1>2, <2>1 DEF SetStateWrite
  <1>3. CASE DeleteCommit(p)
    BY <1>1, <1>3 DEF DeleteCommit
  <1>4. CASE SyncCommit(p)
    BY <1>4 DEF SyncCommit
  <1>5. QED
    BY StateWriters, <1>1, <1>2, <1>3, <1>4
       DEF FlagCommit, FlagSetsState, UnflagCommit, ReapplyCommit

-----------------------------------------------------------------------------
(* A request about to flag found its transaction stored when it read it.   *)
PendingStored ==
    \A p \in Procs : At(p, "Flag") => txState[req[p].tx] # "absent"

(* Only the first half of Flag, on its own or for AcceptAllSuggestions,    *)
(* leaves a handler about to flag.                                         *)
LEMMA FlagBeginners ==
    ASSUME TypeOK, NEW p \in Procs, Step(p), req'[p].op = "Flag"
    PROVE  \/ UNCHANGED req
           \/ \E t \in Txs, v \in Vals : FlagLoad(p, t, v)
           \/ \E t \in Txs : AcceptLoad(p, t)
  <1> USE DEF Become, TypeOK
  <1>1. ASSUME NEW t \in Txs, TxStep(p, t), ~AcceptLoad(p, t),
               ~\E v \in Vals : FlagLoad(p, t, v)
        PROVE  FALSE
    BY <1>1 DEF TxStep, DismissLoad, RestoreLoad, UnflagLoad, EditLoad
  <1>2. CASE LedgerStep(p)
    BY <1>2 DEF LedgerStep, AddManual, DeleteLoad, UpdateLoad, UpdateWrite,
                DeleteCommit, Idle
  <1>3. CASE BatchStep(p)
    BY <1>3 DEF BatchStep, AcceptList, ReapplyLoad, SyncLoad, AcceptEnd,
                ReapplyCommit, SyncPool, SyncCommit, SyncConflict, Idle
  <1>4. QED
    BY <1>1, <1>2, <1>3 DEF Step, FlagCommit, FlagConflict, SetStateWrite,
                            EditFind, UnflagCommit, Abort, Idle

(* A step of one handler leaves the other handlers where they were. *)
LEMMA OthersKeep ==
    ASSUME TypeOK, NEW p \in Procs, Step(p), NEW q \in Procs \ {p}
    PROVE  req'[q] = req[q]
  <1> USE DEF Become, TypeOK
  <1>1. ASSUME NEW t \in Txs, TxStep(p, t) PROVE req'[q] = req[q]
    BY <1>1 DEF TxStep, AcceptLoad, DismissLoad, RestoreLoad, UnflagLoad,
                FlagLoad, EditLoad
  <1>2. CASE LedgerStep(p)
    BY <1>2 DEF LedgerStep, AddManual, DeleteLoad, UpdateLoad, UpdateWrite,
                DeleteCommit
  <1>3. CASE BatchStep(p)
    BY <1>3 DEF BatchStep, AcceptList, ReapplyLoad, SyncLoad, AcceptEnd,
                ReapplyCommit, SyncPool, SyncCommit, SyncConflict
  <1>4. QED
    BY <1>1, <1>2, <1>3 DEF Step, FlagCommit, FlagConflict, SetStateWrite,
                            EditFind, UnflagCommit, Abort

LEMMA PendingStoredAlways == Spec => []PendingStored
  <1>1. Init => PendingStored
    BY DEF Init, PendingStored, At, Idle
  <1>2. TypeOK /\ PendingStored /\ [Next]_vars => PendingStored'
    <2> SUFFICES ASSUME TypeOK, TypeOK', PendingStored, [Next]_vars
                 PROVE PendingStored'
      BY TypeStep
    <2>1. CASE UNCHANGED vars
      BY <2>1 DEF PendingStored, At, vars
    <2> SUFFICES ASSUME NEW p \in Procs, Step(p),
                        NEW q \in Procs, req'[q].op = "Flag"
                 PROVE  txState'[req'[q].tx] # "absent"
      BY <2>1 DEF PendingStored, At, Next
    <2>2. req'[q].tx \in Txs
      BY RequestShape DEF TypeOK
    <2>3. CASE req'[q] = req[q]
      BY <2>2, <2>3, StoredStays DEF PendingStored, At
    <2>4. CASE q = p /\ req'[q] # req[q]
      <3>1. \E t \in Txs : req'[p].tx = t /\ Flaggable(t) /\ UNCHANGED txState
        BY <2>4, FlagBeginners DEF FlagLoad, AcceptLoad, Become, TypeOK
      <3>2. QED  BY <2>4, <3>1 DEF Flaggable
    <2>5. QED
      BY <2>3, <2>4, OthersKeep
  <1>3. QED
    BY <1>1, <1>2, TypeCorrect, PTL DEF Spec

(* Whatever runs at once, a transaction becomes visible to the other user  *)
(* only in a step that flags it.                                           *)
THEOREM SharingNeedsFlag == Spec => OnlyFlaggingShares
  <1>1. TypeOK /\ PendingStored /\ [Next]_vars
        => [\A t \in Txs : Shared(t)' /\ ~Shared(t) => txState'[t] = "flagged"]_vars
    <2> SUFFICES ASSUME TypeOK, PendingStored, NEW p \in Procs, Step(p),
                        NEW t \in Txs, Shared(t)', ~Shared(t)
                 PROVE  txState'[t] = "flagged"
      BY DEF Next
    <2>1. PICK id \in Ids : Used(id)' /\ entries'[id].ref = t
      BY DEF Shared
    <2>2. ~(Used(id) /\ entries[id].ref = t)
      BY DEF Shared
    <2>3. CASE FlagCommit(p)
      <3>1. req[p].tx = t
        BY <2>1, <2>2, <2>3 DEF FlagCommit, Used, TypeOK
      <3>2. txState[t] # "absent"
        BY <2>3, <3>1 DEF FlagCommit, PendingStored
      <3>3. QED
        BY <2>3, <3>1, <3>2 DEF FlagCommit, FlagSetsState, SetState
    <2>4. ~UnflagCommit(p) /\ ~DeleteCommit(p)
      BY <2>1, <2>2 DEF UnflagCommit, WithoutSource, DeleteCommit, Used, TypeOK
    <2>5. ~UpdateWrite(p)
      <3>1. SUFFICES ASSUME UpdateWrite(p) PROVE FALSE
        OBVIOUS
      <3>2. req[p].row \in Row
        BY <3>1, RequestShape DEF UpdateWrite, At, TypeOK
      <3>3. QED
        BY <2>1, <2>2, <3>1, <3>2
           DEF UpdateWrite, UpdateRefused, Written, Used, TypeOK, Row
    <2>6. ~\E u \in Users, v \in Vals : AddManual(p, u, v)
      BY <2>1, <2>2, InboxAssumption DEF AddManual, Used, TypeOK
    <2>7. QED
      BY <2>1, <2>2, <2>3, <2>4, <2>5, <2>6, EntriesWriters DEF Used
  <1>2. QED
    BY <1>1, TypeCorrect, PendingStoredAlways, PTL DEF Spec, OnlyFlaggingShares

-----------------------------------------------------------------------------
(* The two tables agree: FlaggedIffEntry and BookedOnceOnOwner, first for  *)
(* one write at a time, then for any number of concurrent requests among   *)
(* SafeOps, and for all operations one request at a time.                  *)

Agree == FlaggedIffEntry /\ BookedOnceOnOwner

-----------------------------------------------------------------------------
(* Each write keeps the agreement, given what its request may rely on.     *)

LEMMA FreshIdUnused == ASSUME NEW id \in Ids, NextId(id) PROVE ~Used(id)
  BY DEF NextId, Ids

(* An entry of a transaction is its owner's. *)
LEMMA SharedIsSource ==
    ASSUME BookedOnceOnOwner, InboxAssumption, NEW t \in Txs
    PROVE  Shared(t) <=> HasSource(Owner[t], t)
  BY DEF Shared, HasSource, IsSource, BookedOnceOnOwner, InboxAssumption

(* One write at a time, the half that says nothing is booked twice. *)

LEMMA AddBooks ==
    ASSUME TypeOK, BookedOnceOnOwner, NEW p, NEW u \in Users, NEW v \in Vals,
           AddManual(p, u, v)
    PROVE  BookedOnceOnOwner'
  <1>1. PICK id \in Ids :
           entries' = [entries EXCEPT ![id] =
              [payer |-> u, ref |-> NoTx, val |-> v]]
    BY DEF AddManual
  <1>2. /\ \A i \in Ids \ {id} : entries'[i] = entries[i]
        /\ entries'[id].ref = NoTx
    BY <1>1 DEF TypeOK
  <1>3. QED  BY <1>2 DEF BookedOnceOnOwner, Used

LEMMA FlagBooks ==
    ASSUME TypeOK, BookedOnceOnOwner, NEW p \in Procs, FlagCommit(p)
    PROVE  BookedOnceOnOwner'
  <1>1. PICK t \in Txs : t = req[p].tx
    BY RequestShape DEF FlagCommit, At, TypeOK
  <1>2. PICK id \in Ids :
           entries' = [entries EXCEPT ![id] =
              [payer |-> Owner[t], ref |-> t, val |-> req[p].val]]
    BY <1>1 DEF FlagCommit
  <1>3. /\ \A i \in Ids \ {id} : entries'[i] = entries[i]
        /\ entries'[id].payer = Owner[t] /\ entries'[id].ref = t
    BY <1>2 DEF TypeOK
  <1>4. ~Shared(t)
    BY <1>1, SharedIsSource, InboxAssumption DEF FlagCommit
  <1>5. \A i \in Ids \ {id} : Used(i) => entries[i].ref # t
    BY <1>4 DEF Shared
  <1>6. QED  BY <1>3, <1>5 DEF BookedOnceOnOwner, Used

LEMMA UpdateBooks ==
    ASSUME TypeOK, BookedOnceOnOwner, NEW p \in Procs, UpdateWrite(p),
           Used(req[p].id) => req[p].row.payer = entries[req[p].id].payer
    PROVE  BookedOnceOnOwner'
  <1> DEFINE id == req[p].id
  <1>1. id \in Ids /\ req[p].row \in Row
    BY RequestShape DEF UpdateWrite, At, TypeOK
  <1>2. CASE UpdateRefused(id, req[p].row)
    BY <1>2 DEF UpdateWrite, BookedOnceOnOwner, Used
  <1>3. CASE ~UpdateRefused(id, req[p].row)
    <2>1. Used(id)
      BY <1>3 DEF UpdateRefused
    <2>2. \A i \in Ids \ {id} : entries'[i] = entries[i]
      BY <1>1, <1>3 DEF UpdateWrite, TypeOK
    <2>3. entries'[id].payer = entries[id].payer
          /\ entries'[id].ref = entries[id].ref
      BY <1>1, <1>3, <2>1 DEF UpdateWrite, Written, Used, TypeOK, Row
    <2>4. QED  BY <2>1, <2>2, <2>3 DEF BookedOnceOnOwner, Used
  <1>4. QED  BY <1>2, <1>3

(* Nothing but removals. *)
LEMMA RemovalBooks ==
    ASSUME BookedOnceOnOwner, \A i \in Ids : entries'[i] \in {entries[i], NoRow}
    PROVE  BookedOnceOnOwner'
  BY DEF BookedOnceOnOwner, Used

LEMMA UnflagRemoves ==
    ASSUME NEW p \in Procs, UnflagCommit(p)
    PROVE  \A i \in Ids : entries'[i] \in {entries[i], NoRow}
  BY DEF UnflagCommit, WithoutSource

LEMMA DeleteRemoves ==
    ASSUME TypeOK, NEW p \in Procs, DeleteCommit(p)
    PROVE  \A i \in Ids : entries'[i] \in {entries[i], NoRow}
  BY DEF DeleteCommit, TypeOK

(* States may change as long as nobody turns flagged or stops being it. *)
LEMMA SameFlagged ==
    ASSUME Agree, UNCHANGED entries,
           \A t \in Txs : txState'[t] = "flagged" <=> txState[t] = "flagged"
    PROVE  Agree'
  BY DEF Agree, FlaggedIffEntry, BookedOnceOnOwner, HasSource, IsSource, Used

LEMMA AddKeeps ==
    ASSUME TypeOK, Agree, NEW p, NEW u \in Users, NEW v \in Vals,
           AddManual(p, u, v)
    PROVE  Agree'
  <1>1. PICK id \in Ids :
           /\ NextId(id)
           /\ entries' = [entries EXCEPT ![id] =
                 [payer |-> u, ref |-> NoTx, val |-> v]]
    BY DEF AddManual
  <1>2. ~Used(id) /\ UNCHANGED txState
    BY <1>1, FreshIdUnused DEF AddManual
  <1>3. \A i \in Ids \ {id} : entries'[i] = entries[i]
    BY <1>1 DEF TypeOK
  <1>4. entries'[id].ref = NoTx
    BY <1>1 DEF TypeOK
  <1>5. BookedOnceOnOwner'
    BY AddBooks DEF Agree
  <1>6. \A t \in Txs : HasSource(Owner[t], t)' <=> HasSource(Owner[t], t)
    BY <1>2, <1>3, <1>4, InboxAssumption DEF HasSource, IsSource, Used
  <1>7. QED
    BY <1>2, <1>5, <1>6 DEF Agree, FlaggedIffEntry

LEMMA FlagKeeps ==
    ASSUME TypeOK, Agree, NEW p \in Procs, FlagCommit(p),
           txState[req[p].tx] # "absent"
    PROVE  Agree'
  <1>t. PICK t \in Txs : t = req[p].tx
    BY RequestShape DEF FlagCommit, At, TypeOK
  <1>0. req[p].val \in Vals
    BY RequestShape DEF FlagCommit, At, TypeOK
  <1>1. PICK id \in Ids :
           /\ NextId(id)
           /\ entries' = [entries EXCEPT ![id] =
                 [payer |-> Owner[t], ref |-> t, val |-> req[p].val]]
    BY <1>t DEF FlagCommit
  <1>2. ~Used(id) /\ ~Shared(t)
    BY <1>t, <1>1, FreshIdUnused, SharedIsSource, InboxAssumption
       DEF Agree, FlagCommit
  <1>3. \A i \in Ids \ {id} : entries'[i] = entries[i]
    BY <1>1 DEF TypeOK
  <1>4. entries'[id] = [payer |-> Owner[t], ref |-> t, val |-> req[p].val]
    BY <1>1 DEF TypeOK
  <1>5. txState' = [txState EXCEPT ![t] = "flagged"]
    BY <1>t DEF FlagCommit, FlagSetsState, SetState, TypeOK
  <1>6. Used(id)'
    BY <1>0, <1>4, InboxAssumption DEF Used, Row
  <1>8. BookedOnceOnOwner'
    BY FlagBooks DEF Agree
  <1>9. HasSource(Owner[t], t)'
    BY <1>4, <1>6 DEF HasSource, IsSource
  <1>10. \A w \in Txs \ {t} : HasSource(Owner[w], w)' <=> HasSource(Owner[w], w)
    BY <1>2, <1>3, <1>4 DEF HasSource, IsSource, Used
  <1>11. QED
    BY <1>5, <1>8, <1>9, <1>10 DEF Agree, FlaggedIffEntry, TypeOK

LEMMA UnflagKeeps ==
    ASSUME TypeOK, Agree, NEW p \in Procs, UnflagCommit(p)
    PROVE  Agree'
  <1>t. PICK t \in Txs : t = req[p].tx
    BY RequestShape DEF UnflagCommit, At, TypeOK
  <1>1. \A i \in Ids : entries'[i] = IF IsSource(i, Owner[t], t) THEN NoRow
                                     ELSE entries[i]
    BY <1>t DEF UnflagCommit, WithoutSource
  <1>2. txState'[t] # "flagged"
        /\ \A w \in Txs \ {t} : txState'[w] = txState[w]
    BY <1>t DEF UnflagCommit, SetState
  <1>3. BookedOnceOnOwner'
    BY UnflagRemoves, RemovalBooks DEF Agree
  <1>4. ~HasSource(Owner[t], t)'
    BY <1>1 DEF HasSource, IsSource, Used
  <1>5. \A w \in Txs \ {t} : HasSource(Owner[w], w)' <=> HasSource(Owner[w], w)
    BY <1>1 DEF HasSource, IsSource, Used
  <1>6. QED
    BY <1>2, <1>3, <1>4, <1>5 DEF Agree, FlaggedIffEntry

(* The request relies on: the entry it read is still there, or gone. *)
LEMMA UpdateKeeps ==
    ASSUME TypeOK, Agree, NEW p \in Procs, UpdateWrite(p),
           Used(req[p].id) => req[p].row.payer = entries[req[p].id].payer
    PROVE  Agree'
  <1> DEFINE id == req[p].id
  <1>0. id \in Ids /\ req[p].row \in Row
    BY RequestShape DEF UpdateWrite, At, TypeOK
  <1>1. CASE UpdateRefused(id, req[p].row)
    BY <1>1, SameFlagged DEF UpdateWrite
  <1>2. CASE ~UpdateRefused(id, req[p].row)
    <2>1. Used(id) /\ UNCHANGED txState
      BY <1>2 DEF UpdateRefused, UpdateWrite
    <2>2. \A i \in Ids \ {id} : entries'[i] = entries[i]
      BY <1>0, <1>2 DEF UpdateWrite, TypeOK
    <2>3. entries'[id] \in Row /\ entries'[id].payer = entries[id].payer
          /\ entries'[id].ref = entries[id].ref
      BY <1>0, <1>2, <2>1 DEF UpdateWrite, Written, Used, TypeOK, Row
    <2>4. \A i \in Ids : Used(i)' <=> Used(i)
      BY <1>0, <2>1, <2>2, <2>3, InboxAssumption DEF Used
    <2>5. \A i \in Ids : /\ entries'[i].payer = entries[i].payer
                         /\ entries'[i].ref = entries[i].ref
      BY <2>2, <2>3
    <2>6. BookedOnceOnOwner'
      BY UpdateBooks DEF Agree
    <2>7. \A t \in Txs : HasSource(Owner[t], t)' <=> HasSource(Owner[t], t)
      BY <2>4, <2>5 DEF HasSource, IsSource
    <2>8. QED
      BY <2>1, <2>6, <2>7 DEF Agree, FlaggedIffEntry
  <1>3. QED
    BY <1>1, <1>2

(* The request relies on: the id still names the entry it read, or none. *)
LEMMA DeleteKeeps ==
    ASSUME TypeOK, Agree, NEW p \in Procs, DeleteCommit(p),
           Used(req[p].id) => req[p].row = entries[req[p].id]
    PROVE  Agree'
  <1> DEFINE id == req[p].id
             row == req[p].row
  <1>0. id \in Ids /\ row \in Row
    BY RequestShape DEF DeleteCommit, At, TypeOK
  <1>1. CASE ~Used(id)
    BY <1>1, SameFlagged DEF DeleteCommit
  <1>2. CASE Used(id)
    <2>1. \A i \in Ids : entries'[i] = IF i = id THEN NoRow ELSE entries[i]
      BY <1>0, <1>2 DEF DeleteCommit, TypeOK
    <2>2. \A t \in Txs : t \notin SourceOf(row) => txState'[t] = txState[t]
      BY <1>2 DEF DeleteCommit, SetState
    <2>3. \A t \in SourceOf(row) : txState'[t] # "flagged"
      BY <1>2 DEF DeleteCommit, SetState, SourceOf
    <2>4. BookedOnceOnOwner'
      BY DeleteRemoves, RemovalBooks DEF Agree
    <2>5. \A t \in Txs : t \in SourceOf(row) <=> IsSource(id, Owner[t], t)
      BY <1>2 DEF SourceOf, IsSource
    <2>6. \A t \in SourceOf(row) : ~HasSource(Owner[t], t)'
      <3>1. SUFFICES ASSUME NEW t \in Txs, t \in SourceOf(row),
                            NEW j \in Ids, IsSource(j, Owner[t], t)'
                     PROVE  FALSE
        BY DEF SourceOf, HasSource
      <3>2. j # id /\ Used(j) /\ entries[j].ref = t
        BY <2>1, <3>1 DEF IsSource, Used
      <3>3. Used(id) /\ entries[id].ref = t
        BY <2>5, <3>1 DEF IsSource
      <3>4. QED
        BY <1>0, <3>2, <3>3, InboxAssumption DEF Agree, BookedOnceOnOwner
    <2>7. \A t \in Txs \ SourceOf(row) :
             HasSource(Owner[t], t)' <=> HasSource(Owner[t], t)
      BY <2>1, <2>5 DEF HasSource, IsSource, Used
    <2>8. QED
      BY <2>2, <2>3, <2>4, <2>6, <2>7 DEF Agree, FlaggedIffEntry
  <1>3. QED
    BY <1>1, <1>2

(* The requests rely on: what they set blindly is not flagged. *)
LEMMA SetStateKeeps ==
    ASSUME TypeOK, Agree, NEW p \in Procs, SetStateWrite(p),
           txState[req[p].tx] # "flagged"
    PROVE  Agree'
  <1>1. req[p].to # "flagged"
    BY RequestShape DEF SetStateWrite, At, TypeOK
  <1>2. \A t \in Txs : txState'[t] = "flagged" <=> txState[t] = "flagged"
    BY <1>1 DEF SetStateWrite, SetState
  <1>3. QED  BY <1>2, SameFlagged DEF SetStateWrite

LEMMA ReapplyKeeps ==
    ASSUME TypeOK, Agree, NEW p \in Procs, ReapplyCommit(p),
           \A t \in req[p].rows : txState[t] # "flagged"
    PROVE  Agree'
  <1>1. \A t \in Txs : txState'[t] = "flagged" <=> txState[t] = "flagged"
    BY DEF ReapplyCommit, SetState, Verdicts
  <1>2. QED  BY <1>1, SameFlagged DEF ReapplyCommit

LEMMA SyncKeeps ==
    ASSUME TypeOK, Agree, NEW p \in Procs, SyncCommit(p),
           \A t \in InTransfer(req[p].fresh \cup req[p].rows) :
              txState[t] # "flagged"
    PROVE  Agree'
  <1>1. \A t \in req[p].fresh : txState[t] # "flagged"
    BY DEF SyncCommit, Stored
  <1>2. \A t \in Txs : txState'[t] = "flagged" <=> txState[t] = "flagged"
    BY <1>1 DEF SyncCommit, Verdicts
  <1>3. QED  BY <1>2, SameFlagged DEF SyncCommit

-----------------------------------------------------------------------------
(* Any number of concurrent requests among SafeOps. *)

(* Only the safe operations are ever in the middle of something. *)
OnlySafe ==
    \A p \in Procs :
        req[p].op \in {"idle", "Flag", "Accept", "Unflag", "SyncPool", "SyncWrite"}

LEMMA OnlySafeStep ==
    ASSUME Ops \subseteq SafeOps, TypeOK, OnlySafe, NEW p \in Procs, Step(p)
    PROVE  OnlySafe'
  <1> USE DEF TypeOK, OnlySafe, Become, SafeOps, Ready
  <1>1. ASSUME NEW t \in Txs, TxStep(p, t) PROVE OnlySafe'
    BY <1>1 DEF TxStep, AcceptLoad, DismissLoad, RestoreLoad, UnflagLoad,
                FlagLoad, EditLoad
  <1>2. CASE LedgerStep(p)
    BY <1>2 DEF LedgerStep, AddManual, DeleteLoad, UpdateLoad, UpdateWrite,
                DeleteCommit, Idle
  <1>3. CASE BatchStep(p)
    BY <1>3 DEF BatchStep, AcceptList, ReapplyLoad, SyncLoad, AcceptEnd,
                ReapplyCommit, SyncPool, SyncCommit, SyncConflict, Idle
  <1>4. CASE EditFind(p)
    BY <1>4 DEF EditFind, At
  <1>5. QED
    BY <1>1, <1>2, <1>3, <1>4 DEF Step, FlagCommit, FlagConflict,
                            SetStateWrite, UnflagCommit, Abort, Idle

LEMMA InitAgree == Init => Agree
  BY DEF Init, Agree, FlaggedIffEntry, BookedOnceOnOwner, HasSource, IsSource,
         Used

(* The agreement, for a step that neither edits, deletes, nor sets a state *)
(* it read earlier.                                                        *)
LEMMA SafeStepKeeps ==
    ASSUME Transfers = {}, TypeOK, Agree, PendingStored, OnlySafe,
           NEW p \in Procs, Step(p)
    PROVE  Agree'
  <1>1. CASE \E u \in Users, v \in Vals : AddManual(p, u, v)
    BY <1>1, AddKeeps
  <1>2. CASE FlagCommit(p)
    BY <1>2, FlagKeeps DEF PendingStored, FlagCommit
  <1>3. CASE UnflagCommit(p)
    BY <1>3, UnflagKeeps
  <1>4. CASE SyncCommit(p)
    <2>1. InTransfer(req[p].fresh \cup req[p].rows) = {}
      BY DEF InTransfer
    <2>2. QED  BY <1>4, <2>1, SyncKeeps
  <1>5. ~UpdateWrite(p) /\ ~DeleteCommit(p) /\ ~SetStateWrite(p)
        /\ ~ReapplyCommit(p)
    BY DEF OnlySafe, UpdateWrite, DeleteCommit, SetStateWrite, ReapplyCommit, At
  <1>6. CASE UNCHANGED <<txState, entries>>
    BY <1>6, SameFlagged
  <1>7. QED
    BY <1>1, <1>2, <1>3, <1>4, <1>5, <1>6, EntriesWriters, StateWriters

(* Flags, unflags, accept-alls, manual entries and pulls of bank data may  *)
(* run at once in any number: the tables agree and nothing is booked       *)
(* twice.                                                                  *)
THEOREM ConcurrentAgreement ==
    ASSUME Ops \subseteq SafeOps, Transfers = {}
    PROVE  Spec => [](FlaggedIffEntry /\ BookedOnceOnOwner)
  <1> DEFINE Inv == Agree /\ OnlySafe
  <1>1. Init => Inv
    BY InitAgree DEF Init, OnlySafe, Idle
  <1>2. TypeOK /\ PendingStored /\ Inv /\ [Next]_vars => Inv'
    <2> SUFFICES ASSUME TypeOK, PendingStored, Inv, [Next]_vars PROVE Inv'
      OBVIOUS
    <2>1. CASE UNCHANGED vars
      BY <2>1, SameFlagged DEF OnlySafe, vars
    <2>2. ASSUME NEW p \in Procs, Step(p) PROVE Inv'
      BY <2>2, OnlySafeStep, SafeStepKeeps
    <2>3. QED
      BY <2>1, <2>2 DEF Next
  <1>3. Inv => FlaggedIffEntry /\ BookedOnceOnOwner
    BY DEF Agree
  <1>4. QED
    BY <1>1, <1>2, <1>3, TypeCorrect, PendingStoredAlways, PTL DEF Spec

-----------------------------------------------------------------------------
(* All operations, one request at a time. *)

(* What a request read is still so: nobody else ran in between. *)
Current(p) ==
    /\ At(p, "Flag") => Flaggable(req[p].tx)
    /\ At(p, "SetState") =>
          \/ req[p].to = "dismissed" /\ txState[req[p].tx] = "new"
          \/ req[p].to = "new" /\ txState[req[p].tx] = "dismissed"
    /\ At(p, "Unflag") => txState[req[p].tx] = "flagged"
    /\ At(p, "UpdateEntry") =>
          /\ Used(req[p].id)
          /\ req[p].row.payer = entries[req[p].id].payer
          /\ req[p].row.ref = entries[req[p].id].ref
    /\ At(p, "DeleteEntry") =>
          Used(req[p].id) /\ req[p].row = entries[req[p].id]
    /\ At(p, "ReapplyRules") => \A t \in req[p].rows : txState[t] = "new"
    /\ At(p, "SyncWrite") => \A t \in req[p].rows : txState[t] = "new"

AllCurrent == \A p \in Procs : Current(p)

LEMMA AtIdleCurrent ==
    ASSUME NEW p \in Procs, req'[p].op \in {"idle", "Accept", "EditFlagged", "SyncPool"}
    PROVE  Current(p)'
  BY DEF Current, At

LEMMA CurrentStep ==
    ASSUME TypeOK, AllCurrent, NEW p \in Procs, Step(p)
    PROVE  Current(p)'
  <1> USE DEF TypeOK, Become
  <1>1. ASSUME NEW t \in Txs, TxStep(p, t) PROVE Current(p)'
    BY <1>1 DEF TxStep, AcceptLoad, DismissLoad, RestoreLoad, UnflagLoad,
                FlagLoad, EditLoad, Current, At, Flaggable
  <1>2. ASSUME LedgerStep(p) PROVE Current(p)'
    <2>1. CASE \E u \in Users, v \in Vals : AddManual(p, u, v)
      BY <2>1 DEF AddManual, Current, At, Ready, Idle
    <2>2. ASSUME NEW id \in Ids, DeleteLoad(p, id) PROVE Current(p)'
      BY <2>2 DEF DeleteLoad, Current, At, Used
    <2>3. ASSUME NEW id \in Ids, NEW v \in Vals, UpdateLoad(p, id, v)
          PROVE Current(p)'
      BY <2>3 DEF UpdateLoad, Current, At, Used, Row
    <2>4. CASE UpdateWrite(p) \/ DeleteCommit(p)
      BY <2>4, AtIdleCurrent DEF UpdateWrite, DeleteCommit, Idle
    <2>5. QED
      BY <1>2, <2>1, <2>2, <2>3, <2>4 DEF LedgerStep
  <1>3. ASSUME BatchStep(p) PROVE Current(p)'
    <2>1. ASSUME NEW u \in Users, ReapplyLoad(p, u) PROVE Current(p)'
      BY <2>1 DEF ReapplyLoad, InState, Current, At
    <2>2. CASE SyncPool(p)
      BY <2>2 DEF SyncPool, InState, Current, At
    <2>3. QED
      BY <1>3, <2>1, <2>2, AtIdleCurrent
         DEF BatchStep, AcceptList, SyncLoad, AcceptEnd, ReapplyCommit,
             SyncCommit, SyncConflict, Idle
  <1>4. CASE EditFind(p)
    <2>1. ASSUME NEW id \in Ids, IsSource(id, Owner[req[p].tx], req[p].tx),
                 Become(p, [op |-> "UpdateEntry", id |-> id,
                            row |-> [entries[id] EXCEPT !.val = req[p].val]])
          PROVE  Current(p)'
      <3>1. entries[id] \in Row /\ UNCHANGED entries
        BY <1>4, <2>1 DEF IsSource, Used, EditFind
      <3>2. QED
        BY <2>1, <3>1 DEF IsSource, Used, Current, At, Row
    <2>2. QED
      BY <1>4, <2>1, AtIdleCurrent DEF EditFind, Idle
  <1>5. QED
    BY <1>1, <1>2, <1>3, <1>4, AtIdleCurrent
       DEF Step, FlagCommit, FlagConflict, SetStateWrite, UnflagCommit, Abort,
           Idle

LEMMA CurrentStepKeeps ==
    ASSUME TypeOK, Agree, AllCurrent, NEW p \in Procs, Step(p)
    PROVE  Agree'
  <1>0. Current(p)
    BY DEF AllCurrent
  <1>1. CASE \E u \in Users, v \in Vals : AddManual(p, u, v)
    BY <1>1, AddKeeps
  <1>2. CASE FlagCommit(p)
    BY <1>0, <1>2, FlagKeeps DEF Current, Flaggable, FlagCommit
  <1>3. CASE UnflagCommit(p)
    BY <1>3, UnflagKeeps
  <1>4. CASE SyncCommit(p)
    <2>1. \A t \in InTransfer(req[p].fresh \cup req[p].rows) :
             txState[t] # "flagged"
      BY <1>0, <1>4 DEF SyncCommit, Current, InTransfer, Stored
    <2>2. QED  BY <1>4, <2>1, SyncKeeps
  <1>5. CASE UpdateWrite(p)
    BY <1>0, <1>5, UpdateKeeps DEF Current, UpdateWrite
  <1>6. CASE DeleteCommit(p)
    BY <1>0, <1>6, DeleteKeeps DEF Current, DeleteCommit
  <1>7. CASE SetStateWrite(p)
    BY <1>0, <1>7, SetStateKeeps DEF Current, SetStateWrite
  <1>8. CASE ReapplyCommit(p)
    BY <1>0, <1>8, ReapplyKeeps DEF Current, ReapplyCommit
  <1>9. CASE UNCHANGED <<txState, entries>>
    BY <1>9, SameFlagged
  <1>10. QED
    BY <1>1, <1>2, <1>3, <1>4, <1>5, <1>6, <1>7, <1>8, <1>9,
       EntriesWriters, StateWriters

(* With one request at a time every operation keeps the tables in step. *)
LEMMA SerialInvariant ==
    ASSUME \A p, q \in Procs : p = q
    PROVE  Spec => [](Agree /\ AllCurrent)
  <1> DEFINE Inv == Agree /\ AllCurrent
  <1>1. Init => Inv
    BY InitAgree DEF Init, AllCurrent, Current, At, Idle
  <1>2. TypeOK /\ Inv /\ [Next]_vars => Inv'
    <2> SUFFICES ASSUME TypeOK, Inv, [Next]_vars PROVE Inv'
      OBVIOUS
    <2>1. CASE UNCHANGED vars
      BY <2>1, SameFlagged DEF AllCurrent, Current, At, Flaggable, Used, vars
    <2>2. ASSUME NEW p \in Procs, Step(p) PROVE Inv'
      BY <2>2, CurrentStep, CurrentStepKeeps DEF AllCurrent
    <2>3. QED
      BY <2>1, <2>2 DEF Next
  <1>3. QED
    BY <1>1, <1>2, TypeCorrect, PTL DEF Spec

THEOREM SerialAgreement ==
    ASSUME \A p, q \in Procs : p = q
    PROVE  Spec => [](FlaggedIffEntry /\ BookedOnceOnOwner)
  BY SerialInvariant, PTL DEF Agree
-----------------------------------------------------------------------------
(* What the two races need: with one request at a time there is neither.   *)

(* design.md, "Dismiss: transaction -> dismissed, no entry", holds as long *)
(* as no request runs between the two statements of another.               *)
THEOREM SerialDismissal ==
    ASSUME \A p, q \in Procs : p = q
    PROVE  Spec => []DismissedHasNoEntry
  <1>1. Agree => DismissedHasNoEntry
    BY SharedIsSource, InboxAssumption DEF Agree, FlaggedIffEntry, DismissedHasNoEntry
  <1>2. QED  BY <1>1, SerialInvariant, PTL

(* inbox.go, DeleteEntry: "a synced entry's source transaction goes back   *)
(* to its owner's inbox", for every step that removes an entry, again as   *)
(* long as requests do not overlap.                                        *)
THEOREM SerialReturn ==
    ASSUME \A p, q \in Procs : p = q
    PROVE  Spec => DeletedEntryReturnsTx
  <1>1. TypeOK /\ Agree /\ AllCurrent /\ [Next]_vars
        => [\A t \in Txs : Shared(t) /\ ~Shared(t)' => txState'[t] = "new"]_vars
    <2> SUFFICES ASSUME TypeOK, Agree, AllCurrent, NEW p \in Procs, Step(p),
                        NEW t \in Txs, Shared(t), ~Shared(t)'
                 PROVE  txState'[t] = "new"
      BY DEF Next
    <2>1. PICK id \in Ids : Used(id) /\ entries[id].ref = t
      BY DEF Shared
    <2>2. ~(Used(id)' /\ entries'[id].ref = t)
      BY DEF Shared
    <2>3. txState[t] = "flagged" /\ entries[id].payer = Owner[t]
      BY <2>1, SharedIsSource, InboxAssumption
         DEF Agree, FlaggedIffEntry, BookedOnceOnOwner
    <2>4. CASE UnflagCommit(p)
      <3>1. t = req[p].tx
        BY <2>1, <2>2, <2>4 DEF UnflagCommit, WithoutSource, IsSource, Used
      <3>2. QED  BY <2>3, <2>4, <3>1 DEF UnflagCommit, SetState
    <2>5. CASE DeleteCommit(p)
      <3>1. id = req[p].id
        BY <2>1, <2>2, <2>5 DEF DeleteCommit, Used, TypeOK
      <3>2. req[p].row = entries[id]
        BY <2>5, <3>1 DEF DeleteCommit, AllCurrent, Current
      <3>3. t \in SourceOf(req[p].row)
        BY <2>1, <2>3, <3>2 DEF SourceOf
      <3>4. QED  BY <2>1, <2>3, <2>5, <3>1, <3>3 DEF DeleteCommit, SetState
    <2>6. ~\E u \in Users, v \in Vals : AddManual(p, u, v)
      <3>1. SUFFICES ASSUME NEW u \in Users, NEW v \in Vals, AddManual(p, u, v)
                     PROVE  FALSE
        OBVIOUS
      <3>2. PICK i \in Ids : NextId(i) /\ \A j \in Ids \ {i} : entries'[j] = entries[j]
        BY <3>1 DEF AddManual, TypeOK
      <3>3. QED  BY <2>1, <2>2, <3>2, FreshIdUnused DEF Used
    <2>7. ~FlagCommit(p)
      <3>1. SUFFICES ASSUME FlagCommit(p) PROVE FALSE
        OBVIOUS
      <3>2. PICK i \in Ids : NextId(i) /\ \A j \in Ids \ {i} : entries'[j] = entries[j]
        BY <3>1 DEF FlagCommit, TypeOK
      <3>3. QED  BY <2>1, <2>2, <3>2, FreshIdUnused DEF Used
    <2>8. ~UpdateWrite(p)
      <3>1. SUFFICES ASSUME UpdateWrite(p) PROVE FALSE
        OBVIOUS
      <3>2. req[p].id \in Ids /\ req[p].row \in Row
        BY <3>1, RequestShape DEF UpdateWrite, At, TypeOK
      <3>3. QED
        BY <2>1, <2>2, <3>1, <3>2, InboxAssumption
           DEF UpdateWrite, Written, Used, TypeOK, Row
    <2>9. QED
      BY <2>1, <2>2, <2>4, <2>5, <2>6, <2>7, <2>8, EntriesWriters DEF Used
  <1>2. QED
    BY <1>1, SerialInvariant, TypeCorrect, PTL DEF Spec, DeletedEntryReturnsTx

-----------------------------------------------------------------------------
(* What a booking needs.  Only an edit changes a payer, and it writes back *)
(* the payer it read: that is another's only if the row was deleted, its   *)
(* id given out again, and to an entry of another member.                  *)

NothingEdited == \A p \in Procs : req[p].op \notin {"UpdateEntry", "EditFlagged"}
NothingDeleted == \A p \in Procs : req[p].op \notin {"Unflag", "DeleteEntry"}

PayersCurrent ==
    \A p \in Procs : At(p, "UpdateEntry") =>
        Used(req[p].id) /\ req[p].row.payer = entries[req[p].id].payer

(* What a request is in the middle of, one of the Ops began. *)
LEMMA Begun ==
    ASSUME TypeOK, NEW p \in Procs, Step(p)
    PROVE  /\ req'[p].op = "UpdateEntry" => req[p].op \in {"UpdateEntry", "EditFlagged"}
                                          \/ "UpdateEntry" \in Ops
           /\ req'[p].op = "EditFlagged" => req[p].op = "EditFlagged" \/ "EditFlagged" \in Ops
           /\ req'[p].op = "Unflag" => req[p].op = "Unflag" \/ "Unflag" \in Ops
           /\ req'[p].op = "DeleteEntry" => req[p].op = "DeleteEntry" \/ "DeleteEntry" \in Ops
  <1> USE DEF TypeOK, Become, Ready
  <1>1. ASSUME NEW t \in Txs, TxStep(p, t)
        PROVE  req'[p].op \in {"UpdateEntry", "EditFlagged", "Unflag", "DeleteEntry"} =>
                  \/ req'[p].op = "EditFlagged" /\ "EditFlagged" \in Ops
                  \/ req'[p].op = "Unflag" /\ "Unflag" \in Ops
    BY <1>1 DEF TxStep, AcceptLoad, DismissLoad, RestoreLoad, UnflagLoad,
                FlagLoad, EditLoad
  <1>2. ASSUME LedgerStep(p)
        PROVE  req'[p].op \in {"UpdateEntry", "EditFlagged", "Unflag", "DeleteEntry"} =>
                  \/ req'[p].op = "UpdateEntry" /\ "UpdateEntry" \in Ops
                  \/ req'[p].op = "DeleteEntry" /\ "DeleteEntry" \in Ops
    BY <1>2 DEF LedgerStep, AddManual, DeleteLoad, UpdateLoad, UpdateWrite,
                DeleteCommit, Idle
  <1>3. ASSUME BatchStep(p)
        PROVE  req'[p].op \notin {"UpdateEntry", "EditFlagged", "Unflag", "DeleteEntry"}
    BY <1>3 DEF BatchStep, AcceptList, ReapplyLoad, SyncLoad, AcceptEnd,
                ReapplyCommit, SyncPool, SyncCommit, SyncConflict, Idle
  <1>4. ASSUME EditFind(p)
        PROVE  /\ req[p].op = "EditFlagged"
               /\ req'[p].op \in {"UpdateEntry", "idle"}
    BY <1>4 DEF EditFind, At, Idle
  <1>5. QED
    BY <1>1, <1>2, <1>3, <1>4 DEF Step, FlagCommit, FlagConflict,
                            SetStateWrite, UnflagCommit, Abort, Idle

LEMMA BooksStep ==
    ASSUME TypeOK, BookedOnceOnOwner, NEW p \in Procs, Step(p),
           UpdateWrite(p) /\ Used(req[p].id)
              => req[p].row.payer = entries[req[p].id].payer
    PROVE  BookedOnceOnOwner'
  <1>1. CASE UNCHANGED entries
    BY <1>1 DEF BookedOnceOnOwner, Used
  <1>2. QED
    BY <1>1, EntriesWriters, AddBooks, FlagBooks, UpdateBooks, UnflagRemoves,
       DeleteRemoves, RemovalBooks

(* As long as nothing is deleted, a row that was read keeps its payer. *)
LEMMA PayersStay ==
    ASSUME TypeOK, TypeOK', NothingDeleted, PayersCurrent, NEW p \in Procs, Step(p)
    PROVE  PayersCurrent'
  <1>1. ASSUME NEW id \in Ids, Used(id)
        PROVE  Used(id)' /\ entries'[id].payer = entries[id].payer
    <2>1. CASE UpdateWrite(p)
      <3>1. req[p].id \in Ids /\ req[p].row \in Row
        BY <2>1, RequestShape DEF UpdateWrite, At, TypeOK
      <3>2. req[p].row.payer = entries[req[p].id].payer
        BY <2>1 DEF UpdateWrite, PayersCurrent
      <3>3. QED
        BY <1>1, <2>1, <3>1, <3>2, InboxAssumption
           DEF UpdateWrite, Written, Used, TypeOK, Row
    <2>2. ASSUME NEW u \in Users, NEW v \in Vals, AddManual(p, u, v)
          PROVE  entries'[id] = entries[id]
      <3>1. PICK i \in Ids : NextId(i) /\ \A j \in Ids \ {i} : entries'[j] = entries[j]
        BY <2>2 DEF AddManual, TypeOK
      <3>2. QED  BY <1>1, <3>1, FreshIdUnused
    <2>3. ASSUME FlagCommit(p) PROVE entries'[id] = entries[id]
      <3>1. PICK i \in Ids : NextId(i) /\ \A j \in Ids \ {i} : entries'[j] = entries[j]
        BY <2>3 DEF FlagCommit, TypeOK
      <3>2. QED  BY <1>1, <3>1, FreshIdUnused
    <2>4. ~UnflagCommit(p) /\ ~DeleteCommit(p)
      BY DEF NothingDeleted, UnflagCommit, DeleteCommit, At
    <2>5. QED
      BY <1>1, <2>1, <2>2, <2>3, <2>4, EntriesWriters DEF Used
  <1>2. ASSUME NEW q \in Procs, At(q, "UpdateEntry"), req'[q] = req[q]
        PROVE  Used(req[q].id)' /\ req[q].row.payer = entries'[req[q].id].payer
    <2>1. req[q].id \in Ids
      BY <1>2, RequestShape DEF At, TypeOK
    <2>2. QED  BY <1>1, <1>2, <2>1 DEF PayersCurrent
  <1>3. ASSUME At(p, "UpdateEntry")', req'[p] # req[p]
        PROVE  /\ UNCHANGED entries
               /\ Used(req'[p].id) /\ req'[p].row.payer = entries[req'[p].id].payer
    <2> USE DEF TypeOK, Become, At
    <2>1. ASSUME NEW t \in Txs, TxStep(p, t) PROVE FALSE
      BY <1>3, <2>1 DEF TxStep, AcceptLoad, DismissLoad, RestoreLoad, UnflagLoad,
                        FlagLoad, EditLoad
    <2>2. ASSUME NEW id \in Ids, NEW v \in Vals, UpdateLoad(p, id, v)
          PROVE  /\ UNCHANGED entries
                 /\ Used(req'[p].id) /\ req'[p].row.payer = entries[req'[p].id].payer
      BY <2>2 DEF UpdateLoad, Used, Row
    <2>3. CASE LedgerStep(p)
      BY <1>3, <2>2, <2>3 DEF LedgerStep, AddManual, DeleteLoad, UpdateWrite,
                              DeleteCommit, Idle
    <2>4. ~BatchStep(p)
      BY <1>3 DEF BatchStep, AcceptList, ReapplyLoad, SyncLoad, AcceptEnd,
                  ReapplyCommit, SyncPool, SyncCommit, SyncConflict, Idle
    <2>5. CASE EditFind(p)
      <3>1. PICK id \in Ids :
               /\ IsSource(id, Owner[req[p].tx], req[p].tx)
               /\ req'[p] = [op |-> "UpdateEntry", id |-> id,
                            row |-> [entries[id] EXCEPT !.val = req[p].val]]
        BY <1>3, <2>5 DEF EditFind, Idle
      <3>2. entries[id] \in Row
        BY <3>1 DEF IsSource, Used
      <3>3. QED  BY <2>5, <3>1, <3>2 DEF EditFind, IsSource, Row
    <2>6. QED
      BY <1>3, <2>1, <2>3, <2>4, <2>5
         DEF Step, FlagCommit, FlagConflict, SetStateWrite, UnflagCommit, Abort, Idle
  <1>4. QED
    BY <1>2, <1>3, OthersKeep DEF PayersCurrent, At, Used

(* Whatever else overlaps, transfers and stale dismissals included, the    *)
(* household pays for a transaction once and on its owner if nothing is    *)
(* edited, or nothing is deleted, or there is but one member: the unique   *)
(* index of store/entries.go is then enough.                               *)
THEOREM BookedOnceUnlessReused ==
    ASSUME \/ Ops \cap {"UpdateEntry", "EditFlagged"} = {}
           \/ Ops \cap {"Unflag", "DeleteEntry"} = {}
           \/ \A u, w \in Users : u = w
    PROVE  Spec => []BookedOnceOnOwner
  <1>1. Init => BookedOnceOnOwner /\ NothingEdited /\ NothingDeleted /\ PayersCurrent
    BY DEF Init, BookedOnceOnOwner, NothingEdited, NothingDeleted, PayersCurrent,
           Used, At, Idle
  <1>2. CASE Ops \cap {"UpdateEntry", "EditFlagged"} = {}
    <2> DEFINE Inv == BookedOnceOnOwner /\ NothingEdited
    <2>1. TypeOK /\ Inv /\ [Next]_vars => Inv'
      <3> SUFFICES ASSUME TypeOK, Inv, [Next]_vars PROVE Inv'
        OBVIOUS
      <3>1. CASE UNCHANGED vars
        BY <3>1 DEF NothingEdited, BookedOnceOnOwner, Used, vars
      <3>2. ASSUME NEW p \in Procs, Step(p) PROVE Inv'
        <4>1. BookedOnceOnOwner'
          BY <3>2, BooksStep DEF NothingEdited, UpdateWrite, At
        <4>2. NothingEdited'
          BY <1>2, <3>2, Begun, OthersKeep DEF NothingEdited
        <4>3. QED  BY <4>1, <4>2
      <3>3. QED  BY <3>1, <3>2 DEF Next
    <2>2. QED  BY <1>1, <2>1, TypeCorrect, PTL DEF Spec
  <1>3. CASE Ops \cap {"Unflag", "DeleteEntry"} = {}
    <2> DEFINE Inv == BookedOnceOnOwner /\ NothingDeleted /\ PayersCurrent
    <2>1. TypeOK /\ TypeOK' /\ Inv /\ [Next]_vars => Inv'
      <3> SUFFICES ASSUME TypeOK, TypeOK', Inv, [Next]_vars PROVE Inv'
        OBVIOUS
      <3>1. CASE UNCHANGED vars
        BY <3>1 DEF NothingDeleted, PayersCurrent, BookedOnceOnOwner, Used, At, vars
      <3>2. ASSUME NEW p \in Procs, Step(p) PROVE Inv'
        <4>1. BookedOnceOnOwner'
          BY <3>2, BooksStep DEF PayersCurrent, UpdateWrite
        <4>2. NothingDeleted'
          BY <1>3, <3>2, Begun, OthersKeep DEF NothingDeleted
        <4>3. QED  BY <3>2, <4>1, <4>2, PayersStay
      <3>3. QED  BY <3>1, <3>2 DEF Next
    <2>2. QED  BY <1>1, <2>1, TypeCorrect, PTL DEF Spec
  <1>4. CASE \A u, w \in Users : u = w
    <2>1. TypeOK /\ BookedOnceOnOwner /\ [Next]_vars => BookedOnceOnOwner'
      <3> SUFFICES ASSUME TypeOK, BookedOnceOnOwner, [Next]_vars
                   PROVE  BookedOnceOnOwner'
        OBVIOUS
      <3>1. CASE UNCHANGED vars
        BY <3>1 DEF BookedOnceOnOwner, Used, vars
      <3>2. ASSUME NEW p \in Procs, Step(p) PROVE BookedOnceOnOwner'
        <4>1. ASSUME UpdateWrite(p), Used(req[p].id)
              PROVE  req[p].row.payer = entries[req[p].id].payer
          <5>1. req[p].id \in Ids /\ req[p].row \in Row
            BY <4>1, RequestShape DEF UpdateWrite, At, TypeOK
          <5>2. entries[req[p].id] \in Row
            BY <4>1, <5>1 DEF Used, TypeOK
          <5>3. QED  BY <1>4, <5>1, <5>2 DEF Row
        <4>2. QED  BY <3>2, <4>1, BooksStep
      <3>3. QED  BY <3>1, <3>2 DEF Next
    <2>2. QED  BY <1>1, <2>1, TypeCorrect, PTL DEF Spec
  <1>5. QED  BY <1>2, <1>3, <1>4
=============================================================================
