----------------------------- MODULE SyncProofs -----------------------------
(***************************************************************************)
(* Theorems about Sync, for every set of transactions and of dates, every  *)
(* bound on the clock and any number of pulls at once.                     *)
(***************************************************************************)
EXTENDS Sync, TLAPS

-----------------------------------------------------------------------------
(* Requests. *)

(* The operation a request names says which fields it has. *)
LEMMA RequestShape ==
    ASSUME NEW r \in Request
    PROVE  /\ r.op = "Window" =>
                 r \in [op : {"Window"}, from : StartDates \cup {NoDate},
                        since : Days]
           /\ r.op = "Fetch" =>
                 r \in [op : {"Fetch"}, rule : Rules, start : Int, now : Days]
           /\ r.op = "Compare" =>
                 r \in [op : {"Compare"}, rule : Rules, start : Int, now : Days,
                        got : SUBSET Txs, twice : SUBSET Txs]
           /\ r.op = "Store" =>
                 r \in [op : {"Store"}, rule : Rules, start : Int, now : Days,
                        fresh : SUBSET Txs, twice : SUBSET Txs]
  BY DEF Request, Idle

LEMMA BecomeTyped ==
    ASSUME req \in [Procs -> Request], NEW p \in Procs,
           NEW r \in Request, Become(p, r)
    PROVE  req' \in [Procs -> Request]
  BY DEF Become

LEMMA IdleTyped == Idle \in Request
  BY DEF Request

LEMMA DaysInt == Days \subseteq Int /\ FirstDay \in Days
  BY SyncAssumption DEF Days

(* The window's start is a date, and its rule is one of the three. *)
LEMMA WindowTyped ==
    ASSUME last \in Days \cup {Never}, NEW now \in Days,
           NEW from \in StartDates \cup {NoDate}
    PROVE  /\ Default(now) \in Int
           /\ Window(from, now).start \in Int
           /\ Window(from, now).rule \in Rules
  <1>1. Default(now) \in Int
    BY DaysInt, SyncAssumption DEF Default
  <1>2. QED
    BY <1>1, SyncAssumption DEF Window, Rules

-----------------------------------------------------------------------------
(* The inductive invariant. *)

(* A pull starts from a linked bank only, and no bank is ever unlinked. *)
LinkedPulls == \A p \in Procs : At(p, "Credential") => cred # NotLinked

(* Nothing wanted that is older than this date is missing. *)
Below(start) == \A t \in Txs : Wanted(t) /\ Posted[t] < start => t \in stored

(* All that the bridge had to know by now, of this date or later. *)
Complete(start, now, got) ==
    \A t \in Txs : start <= Posted[t] /\ Posted[t] + MaxLag <= now => t \in got

(* What a pull under way still owes: the part of the wanted transactions   *)
(* its window leaves out is stored, and what the bank was bound to answer  *)
(* is either in its hands or stored by another pull meanwhile.             *)
Owes(p) ==
    /\ req[p].op \in {"Fetch", "Compare", "Store"} =>
          /\ req[p].now <= day
          /\ req[p].rule = "overlap" => floor # Never /\ Below(req[p].start)
    /\ At(p, "Window") => req[p].since <= day
    /\ At(p, "Compare") => Complete(req[p].start, req[p].now, req[p].got)
    /\ At(p, "Store") =>
          Complete(req[p].start, req[p].now, req[p].fresh \cup stored)

FloorKnown == last # Never => floor # Never

IInv ==
    /\ TypeOK
    /\ LinkedPulls
    /\ FloorKnown
    /\ NothingSkipped
    /\ \A p \in Procs : Owes(p)

-----------------------------------------------------------------------------
(* Every step keeps the tables and the requests to their shapes. *)
LEMMA TypeStep == TypeOK /\ LinkedPulls /\ [Next]_vars => TypeOK'
  <1> SUFFICES ASSUME TypeOK, LinkedPulls, [Next]_vars PROVE TypeOK'
    OBVIOUS
  <1> USE DEF TypeOK
  <1>1. CASE UNCHANGED vars
    BY <1>1 DEF vars
  <1>2. ASSUME NEW p \in Procs, Begin(p) PROVE TypeOK'
    <2>1. [op |-> "Credential"] \in Request
      BY DEF Request
    <2>2. ASSUME NEW s \in Sessions, Link(p, s) PROVE TypeOK'
      BY <2>1, <2>2, BecomeTyped DEF Link
    <2>3. ASSUME NEW s \in Sessions, Visit(p, s) PROVE TypeOK'
      BY <2>1, <2>3, BecomeTyped DEF Visit
    <2>4. QED  BY <1>2, <2>2, <2>3 DEF Begin
  <1>3. ASSUME NEW p \in Procs, Pull(p) PROVE TypeOK'
    <2>0. req[p] \in Request
      OBVIOUS
    <2>1. CASE ReadCredential(p)
      <3>1. [op |-> "Window", from |-> cred, since |-> day] \in Request
        BY <2>1 DEF ReadCredential, LinkedPulls, Request
      <3>2. QED  BY <2>1, <3>1, BecomeTyped DEF ReadCredential
    <2>2. CASE ReadWindow(p)
      <3>1. req[p].from \in StartDates \cup {NoDate} /\ req[p].since \in Days
        BY <2>0, <2>2, RequestShape DEF ReadWindow, At
      <3>2. PICK now \in req[p].since .. day :
               Become(p, [op |-> "Fetch", rule |-> Window(req[p].from, now).rule,
                          start |-> Window(req[p].from, now).start, now |-> now])
        BY <2>2 DEF ReadWindow
      <3>3. now \in Days
        BY <3>1, SyncAssumption DEF Days
      <3>4. [op |-> "Fetch", rule |-> Window(req[p].from, now).rule,
             start |-> Window(req[p].from, now).start, now |-> now] \in Request
        BY <3>1, <3>3, WindowTyped DEF Request
      <3>5. QED  BY <2>2, <3>2, <3>4, BecomeTyped DEF ReadWindow
    <2>3. CASE Fetch(p)
      <3>1. PICK got \in Reported(req[p].start, req[p].now) :
               Become(p, [op |-> "Compare", rule |-> req[p].rule,
                          start |-> req[p].start, now |-> req[p].now,
                          got |-> got, twice |-> got \cap Twice \cap wrong])
        BY <2>3 DEF Fetch
      <3>2. got \in SUBSET Txs
        BY DEF Reported, InWindow
      <3>3. [op |-> "Compare", rule |-> req[p].rule, start |-> req[p].start,
             now |-> req[p].now, got |-> got,
             twice |-> got \cap Twice \cap wrong] \in Request
        BY <2>0, <2>3, <3>2, RequestShape DEF Fetch, At, Request
      <3>4. QED  BY <2>3, <3>1, <3>3, BecomeTyped DEF Fetch
    <2>4. CASE Compare(p)
      <3>1. [op |-> "Store", rule |-> req[p].rule, start |-> req[p].start,
             now |-> req[p].now, fresh |-> Unknown(req[p].got),
             twice |-> req[p].twice] \in Request
        BY <2>0, <2>4, RequestShape DEF Compare, At, Unknown, Request
      <3>2. QED  BY <2>4, <3>1, BecomeTyped DEF Compare
    <2>5. CASE Store(p)
      <3>1. /\ req[p].start \in Int /\ req[p].now \in Days
            /\ req[p].fresh \subseteq Txs
        BY <2>0, <2>5, RequestShape DEF Store, At
      <3>2. floor' \in Int \cup {Never}
        BY <2>5, <3>1 DEF Store, Highest
      <3>3. QED
        BY <2>5, <3>1, <3>2, IdleTyped, BecomeTyped DEF Store, SuccessAt
    <2>6. QED  BY <1>3, <2>1, <2>2, <2>3, <2>4, <2>5 DEF Pull
  <1>4. ASSUME NEW p \in Procs, Fail(p) PROVE TypeOK'
    BY <1>4, IdleTyped, BecomeTyped DEF Fail
  <1>5. ASSUME NEW d \in StartDates \cup {NoDate}, SetStart(d) PROVE TypeOK'
    BY <1>5 DEF SetStart
  <1>6. ASSUME NEW s \in Sessions, BecomeDue(s) PROVE TypeOK'
    BY <1>6 DEF BecomeDue
  <1>7. CASE Tick
    BY <1>7, SyncAssumption DEF Tick, Days
  <1>8. CASE Correct
    BY <1>8 DEF Correct
  <1>9. QED
    BY <1>1, <1>2, <1>3, <1>4, <1>5, <1>6, <1>7, <1>8 DEF Next

-----------------------------------------------------------------------------
(* What a step leaves of the debts of the pulls under way. *)

(* A pull that did nothing in this step owes no more than before: what is  *)
(* stored stays stored, and the floor of what is wanted only rises.        *)
LEMMA OthersOwe ==
    ASSUME SyncAssumption, TypeOK, NEW q \in Procs, Owes(q), req'[q] = req[q],
           day <= day', day' \in Int, stored \subseteq stored',
           floor # Never => floor' # Never /\ floor <= floor',
           floor' \in Int \cup {Never}
    PROVE  Owes(q)'
  <1>1. req[q] \in Request
    BY DEF TypeOK
  <1>2. day \in Int
    BY SyncAssumption DEF TypeOK, Days
  <1>3. ASSUME req[q].op \in {"Fetch", "Compare", "Store"}
        PROVE  /\ req'[q].now <= day'
               /\ req'[q].rule = "overlap"
                     => floor' # Never /\ Below(req[q].start)'
    <2>1. req[q].now \in Int /\ req[q].start \in Int
      BY <1>1, <1>3, RequestShape, DaysInt
    <2>2. req'[q].now <= day'
      BY <1>2, <1>3, <2>1 DEF Owes
    <2>3. ASSUME req[q].rule = "overlap"
          PROVE  floor' # Never /\ Below(req[q].start)'
      <3>1. floor # Never /\ Below(req[q].start)
        BY <1>3, <2>3 DEF Owes
      <3>2. floor \in Int /\ floor' \in Int
        BY <3>1 DEF TypeOK
      <3>3. ASSUME NEW t \in Txs, Wanted(t)', Posted[t] < req[q].start
            PROVE  t \in stored'
        <4>1. Wanted(t)
          BY <3>1, <3>2, <3>3, SyncAssumption DEF Wanted
        <4>2. QED  BY <3>1, <3>3, <4>1 DEF Below
      <3>4. QED  BY <3>1, <3>3 DEF Below
    <2>4. QED  BY <2>2, <2>3
  <1>4. At(q, "Window") => req'[q].since <= day'
    <2>1. At(q, "Window") => req[q].since \in Int
      BY <1>1, RequestShape, DaysInt DEF At
    <2>2. QED  BY <1>2, <2>1 DEF Owes
  <1>5. At(q, "Compare") => Complete(req'[q].start, req'[q].now, req'[q].got)
    BY DEF Owes
  <1>6. At(q, "Store") =>
           Complete(req'[q].start, req'[q].now, req'[q].fresh \cup stored')
    BY DEF Owes, Complete
  <1>7. QED
    BY <1>3, <1>4, <1>5, <1>6 DEF Owes, At, Complete

(* A handler at rest, or about to read the credential, owes nothing. *)
LEMMA NothingOwed ==
    ASSUME NEW p \in Procs, req'[p].op \in {"idle", "Credential"}
    PROVE  Owes(p)'
  BY DEF Owes, At

(* The tables that decide what is wanted and what is there do not change:  *)
(* the other pulls owe what they did.                                      *)
LEMMA ReadOnly ==
    ASSUME IInv, TypeOK', NEW p \in Procs, NEW r, Become(p, r), Owes(p)',
           UNCHANGED <<day, last, stored, floor>>
    PROVE  /\ NothingSkipped' /\ FloorKnown'
           /\ \A q \in Procs : Owes(q)'
  <1>1. NothingSkipped' /\ FloorKnown'
    BY DEF IInv, NothingSkipped, Wanted, FloorKnown
  <1>2. day \in Int /\ floor \in Int \cup {Never}
    BY DaysInt DEF IInv, TypeOK
  <1>3. floor # Never => floor <= floor
    BY <1>2
  <1>4. ASSUME NEW q \in Procs, q # p PROVE Owes(q)'
    <2>1. req'[q] = req[q]
      BY <1>4 DEF IInv, TypeOK, Become
    <2>2. QED
      BY <1>2, <1>3, <2>1, OthersOwe, SyncAssumption DEF IInv
  <1>5. QED  BY <1>1, <1>4

-----------------------------------------------------------------------------
(* The window that follows a success reaches back far enough. *)
LEMMA WindowReaches ==
    ASSUME LagWithinOverlap, TypeOK, NothingSkipped, FloorKnown,
           NEW now \in Days, NEW from \in StartDates \cup {NoDate},
           Window(from, now).rule = "overlap"
    PROVE  floor # Never /\ Below(Window(from, now).start)
  <1>1. last # Never /\ Window(from, now).start = last - Overlap
    BY DEF Window, Default
  <1>2. last \in Int
    BY <1>1, DaysInt DEF TypeOK
  <1>3. ASSUME NEW t \in Txs, Wanted(t), Posted[t] < last - Overlap
        PROVE  t \in stored
    <2>1. Posted[t] \in Int /\ Posted[t] + MaxLag <= last
      BY <1>2, <1>3, SyncAssumption DEF LagWithinOverlap
    <2>2. QED  BY <1>1, <1>3, <2>1 DEF NothingSkipped
  <1>4. QED  BY <1>1, <1>3 DEF Below, FloorKnown

(* What the bridge answers to a window holds all that it had to know. *)
LEMMA AnswerComplete ==
    ASSUME day \in Int, NEW start \in Int, NEW now \in Int, now <= day,
           NEW got \in Reported(start, now)
    PROVE  Complete(start, now, got)
  <1> SUFFICES ASSUME NEW t \in Txs, start <= Posted[t], Posted[t] + MaxLag <= now
               PROVE  t \in got
    BY DEF Complete
  <1>1. /\ Posted[t] \in Int /\ MaxLag \in Nat
    BY SyncAssumption
  <1>2. Posted[t] <= now /\ Posted[t] + MaxLag <= day
    BY <1>1
  <1>3. QED  BY <1>2 DEF Reported, InWindow

(* A commit moves last_success_at to a time up to which nothing is missing. *)
LEMMA StoreSkipsNothing ==
    ASSUME TypeOK, NEW p \in Procs, Owes(p), Store(p)
    PROVE  /\ NothingSkipped' /\ FloorKnown'
           /\ floor # Never => floor' # Never /\ floor <= floor'
  <1>1. /\ req[p] \in Request /\ req[p].op = "Store"
        /\ stored' = stored \cup req[p].fresh
        /\ last' = req[p].now
        /\ floor' = IF req[p].rule = "overlap" THEN floor
                    ELSE Highest(floor, req[p].start)
    BY DEF TypeOK, Store, At, SuccessAt
  <1>2. req[p].start \in Int /\ req[p].now \in Int /\ last' # Never
    BY <1>1, RequestShape, DaysInt, SyncAssumption
  <1>3. Complete(req[p].start, req[p].now, stored')
    BY <1>1 DEF Owes, At, Complete
  <1>4. CASE req[p].rule = "overlap"
    <2>1. floor' = floor /\ floor # Never /\ Below(req[p].start)
      BY <1>1, <1>4 DEF Owes
    <2>2. ASSUME NEW t \in Txs, Wanted(t)', Posted[t] + MaxLag <= last'
          PROVE  t \in stored'
      <3>1. Posted[t] \in Int /\ Wanted(t)
        BY <2>1, <2>2, SyncAssumption DEF Wanted
      <3>2. CASE Posted[t] < req[p].start
        BY <1>1, <2>1, <3>1, <3>2 DEF Below
      <3>3. CASE req[p].start <= Posted[t]
        BY <1>1, <1>3, <2>2, <3>3 DEF Complete
      <3>4. QED  BY <1>2, <3>1, <3>2, <3>3
    <2>3. floor # Never => floor <= floor'
      BY <2>1 DEF TypeOK
    <2>4. QED  BY <2>1, <2>2, <2>3 DEF NothingSkipped, FloorKnown
  <1>5. CASE req[p].rule # "overlap"
    <2>1. floor' = Highest(floor, req[p].start)
      BY <1>1, <1>5
    <2>2. /\ floor' \in Int /\ floor' # Never /\ req[p].start <= floor'
          /\ floor # Never => floor <= floor'
      BY <1>2, <2>1, SyncAssumption DEF Highest, TypeOK
    <2>3. ASSUME NEW t \in Txs, Wanted(t)', Posted[t] + MaxLag <= last'
          PROVE  t \in stored'
      <3>1. req[p].start <= Posted[t]
        BY <1>2, <2>2, <2>3, SyncAssumption DEF Wanted
      <3>2. QED  BY <1>1, <1>3, <2>3, <3>1 DEF Complete
    <2>4. QED  BY <2>2, <2>3 DEF NothingSkipped, FloorKnown
  <1>6. QED  BY <1>4, <1>5

-----------------------------------------------------------------------------
(* The inductive step, one action at a time. *)
LEMMA PullStep ==
    ASSUME LagWithinOverlap, IInv, TypeOK', NEW p \in Procs, Pull(p)
    PROVE  /\ NothingSkipped' /\ FloorKnown'
           /\ \A q \in Procs : Owes(q)'
  <1>0. /\ TypeOK /\ req[p] \in Request /\ Owes(p) /\ day \in Int
    BY DaysInt DEF IInv, TypeOK
  <1>1. CASE ReadCredential(p)
    <2>1. req'[p] = [op |-> "Window", from |-> cred, since |-> day]
      BY <1>0, <1>1 DEF ReadCredential, Become, TypeOK
    <2>2. Owes(p)'
      BY <1>0, <1>1, <2>1 DEF ReadCredential, Owes, At
    <2>3. QED  BY <1>1, <2>2, ReadOnly DEF ReadCredential
  <1>2. CASE ReadWindow(p)
    <2>1. /\ req[p].from \in StartDates \cup {NoDate} /\ req[p].since \in Days
      BY <1>0, <1>2, RequestShape DEF ReadWindow, At
    <2>2. PICK now \in req[p].since .. day :
             Become(p, [op |-> "Fetch", rule |-> Window(req[p].from, now).rule,
                        start |-> Window(req[p].from, now).start, now |-> now])
      BY <1>2 DEF ReadWindow
    <2>3. now \in Days /\ now <= day
      BY <1>0, <2>1, SyncAssumption DEF Days, TypeOK
    <2>4. req'[p] = [op |-> "Fetch", rule |-> Window(req[p].from, now).rule,
                     start |-> Window(req[p].from, now).start, now |-> now]
      BY <1>0, <2>2 DEF Become, TypeOK
    <2>5. Window(req[p].from, now).rule = "overlap" =>
             floor # Never /\ Below(Window(req[p].from, now).start)
      BY <2>1, <2>3, WindowReaches DEF IInv
    <2>6. UNCHANGED <<day, last, stored, floor>>
      BY <1>2 DEF ReadWindow
    <2>7. Owes(p)'
      <3>1. req'[p].rule = "overlap" => floor' # Never /\ Below(req[p].start)'
        BY <2>4, <2>5, <2>6 DEF Below, Wanted
      <3>2. QED  BY <2>3, <2>4, <2>6, <3>1 DEF Owes, At
    <2>8. QED  BY <2>2, <2>6, <2>7, ReadOnly
  <1>3. CASE Fetch(p)
    <2>1. /\ req[p].start \in Int /\ req[p].now \in Int /\ req[p].op = "Fetch"
      BY <1>0, <1>3, RequestShape, DaysInt DEF Fetch, At
    <2>2. PICK got \in Reported(req[p].start, req[p].now) :
             Become(p, [op |-> "Compare", rule |-> req[p].rule,
                        start |-> req[p].start, now |-> req[p].now,
                        got |-> got, twice |-> got \cap Twice \cap wrong])
      BY <1>3 DEF Fetch
    <2>3. req'[p] = [op |-> "Compare", rule |-> req[p].rule,
                     start |-> req[p].start, now |-> req[p].now,
                     got |-> got, twice |-> got \cap Twice \cap wrong]
      BY <1>0, <2>2 DEF Become, TypeOK
    <2>4. Complete(req[p].start, req[p].now, got)
      BY <1>0, <2>1, AnswerComplete DEF Owes
    <2>5. UNCHANGED <<day, last, stored, floor>>
      BY <1>3 DEF Fetch
    <2>6. Owes(p)'
      <3>1. req'[p].rule = "overlap" => floor' # Never /\ Below(req[p].start)'
        BY <1>0, <2>1, <2>3, <2>5 DEF Owes, Below, Wanted
      <3>2. req'[p].now <= day'
        BY <1>0, <2>1, <2>3, <2>5 DEF Owes
      <3>3. QED  BY <2>3, <2>4, <3>1, <3>2 DEF Owes, At, Complete
    <2>7. QED  BY <2>2, <2>5, <2>6, ReadOnly
  <1>4. CASE Compare(p)
    <2>1. req[p].op = "Compare"
      BY <1>4 DEF Compare, At
    <2>2. /\ UNCHANGED <<day, last, stored, floor>>
          /\ Become(p, [op |-> "Store", rule |-> req[p].rule,
                        start |-> req[p].start, now |-> req[p].now,
                        fresh |-> Unknown(req[p].got), twice |-> req[p].twice])
      BY <1>4 DEF Compare
    <2>3. req'[p] = [op |-> "Store", rule |-> req[p].rule,
                     start |-> req[p].start, now |-> req[p].now,
                     fresh |-> Unknown(req[p].got), twice |-> req[p].twice]
      BY <1>0, <2>2 DEF Become, TypeOK
    <2>4. Owes(p)'
      <3>1. req'[p].rule = "overlap" => floor' # Never /\ Below(req[p].start)'
        BY <1>0, <2>1, <2>2, <2>3 DEF Owes, Below, Wanted
      <3>2. req'[p].now <= day'
        BY <1>0, <2>1, <2>2, <2>3 DEF Owes
      <3>3. Complete(req[p].start, req[p].now, Unknown(req[p].got) \cup stored')
        BY <1>0, <2>1, <2>2 DEF Owes, At, Complete, Unknown
      <3>4. QED  BY <2>3, <3>1, <3>2, <3>3 DEF Owes, At, Complete
    <2>5. QED  BY <2>2, <2>4, ReadOnly
  <1>5. CASE Store(p)
    <2>1. /\ NothingSkipped' /\ FloorKnown'
          /\ floor # Never => floor' # Never /\ floor <= floor'
      BY <1>0, <1>5, StoreSkipsNothing
    <2>2. /\ req'[p] = Idle /\ day' = day /\ stored \subseteq stored'
          /\ floor' \in Int \cup {Never}
      BY <1>0, <1>5 DEF Store, Become, TypeOK
    <2>3. Owes(p)'
      BY <2>2, NothingOwed DEF Idle
    <2>4. ASSUME NEW q \in Procs, q # p PROVE Owes(q)'
      <3>1. req'[q] = req[q]
        BY <1>0, <1>5, <2>4 DEF Store, Become, TypeOK
      <3>2. day <= day' /\ day' \in Int /\ Owes(q)
        BY <1>0, <2>2 DEF IInv
      <3>3. QED
        BY <1>0, <2>1, <2>2, <3>1, <3>2, OthersOwe, SyncAssumption
    <2>5. QED  BY <2>1, <2>3, <2>4
  <1>6. QED  BY <1>1, <1>2, <1>3, <1>4, <1>5 DEF Pull

LEMMA LinkedStep == TypeOK /\ LinkedPulls /\ [Next]_vars => LinkedPulls'
  <1> SUFFICES ASSUME TypeOK, LinkedPulls, [Next]_vars, NEW q \in Procs, At(q, "Credential")'
               PROVE  cred' # NotLinked
    BY DEF LinkedPulls
  <1> USE DEF TypeOK, LinkedPulls, At, Become, Idle
  <1>1. CASE UNCHANGED vars
    BY <1>1 DEF vars
  <1>2. ASSUME NEW p \in Procs, Begin(p) PROVE cred' # NotLinked
    BY <1>2, SyncAssumption DEF Begin, Link, Visit
  <1>3. ASSUME NEW p \in Procs, Pull(p) PROVE cred' # NotLinked
    BY <1>3 DEF Pull, ReadCredential, ReadWindow, Fetch, Compare, Store
  <1>4. ASSUME NEW p \in Procs, Fail(p) PROVE cred' # NotLinked
    BY <1>4 DEF Fail
  <1>5. ASSUME NEW d \in StartDates \cup {NoDate}, SetStart(d)
        PROVE  cred' # NotLinked
    BY <1>5, SyncAssumption DEF SetStart
  <1>6. CASE (\E s \in Sessions : BecomeDue(s)) \/ Tick \/ Correct
    BY <1>6 DEF BecomeDue, Tick, Correct
  <1>7. QED
    BY <1>1, <1>2, <1>3, <1>4, <1>5, <1>6 DEF Next

LEMMA InvStep == LagWithinOverlap /\ IInv /\ [Next]_vars => IInv'
  <1> SUFFICES ASSUME LagWithinOverlap, IInv, [Next]_vars PROVE IInv'
    OBVIOUS
  <1>t. TypeOK'
    BY TypeStep DEF IInv
  <1>l. LinkedPulls'
    BY LinkedStep DEF IInv
  <1>0. /\ day \in Int /\ floor \in Int \cup {Never}
        /\ floor # Never => floor <= floor
    BY DaysInt DEF IInv, TypeOK
  <1> SUFFICES NothingSkipped' /\ FloorKnown' /\ \A q \in Procs : Owes(q)'
    BY <1>t, <1>l DEF IInv
  <1>1. ASSUME NEW p \in Procs, NEW r, Become(p, r),
               r.op \in {"idle", "Credential"},
               UNCHANGED <<day, last, stored, floor>>
        PROVE  NothingSkipped' /\ FloorKnown' /\ \A q \in Procs : Owes(q)'
    <2>1. req'[p] = r
      BY <1>1 DEF IInv, TypeOK, Become
    <2>2. QED  BY <1>1, <1>t, <2>1, NothingOwed, ReadOnly
  <1>2. ASSUME UNCHANGED <<last, stored, floor, req>>, day <= day', day' \in Int
        PROVE  NothingSkipped' /\ FloorKnown' /\ \A q \in Procs : Owes(q)'
    <2>1. NothingSkipped' /\ FloorKnown'
      BY <1>2 DEF IInv, NothingSkipped, FloorKnown, Wanted
    <2>2. ASSUME NEW q \in Procs PROVE Owes(q)'
      BY <1>0, <1>2, OthersOwe, SyncAssumption DEF IInv
    <2>3. QED  BY <2>1, <2>2
  <1>3. CASE UNCHANGED vars
    BY <1>0, <1>2, <1>3 DEF vars
  <1>4. ASSUME NEW p \in Procs, Begin(p)
        PROVE  NothingSkipped' /\ FloorKnown' /\ \A q \in Procs : Owes(q)'
    <2>1. ASSUME NEW s \in Sessions, Link(p, s)
          PROVE  NothingSkipped' /\ FloorKnown' /\ \A q \in Procs : Owes(q)'
      BY <1>1, <2>1 DEF Link
    <2>2. ASSUME NEW s \in Sessions, Visit(p, s)
          PROVE  NothingSkipped' /\ FloorKnown' /\ \A q \in Procs : Owes(q)'
      <3>1. CASE cred = NotLinked
        BY <1>0, <1>2, <2>2, <3>1 DEF Visit
      <3>2. CASE cred # NotLinked
        BY <1>1, <2>2, <3>2 DEF Visit
      <3>3. QED  BY <3>1, <3>2
    <2>3. QED  BY <1>4, <2>1, <2>2 DEF Begin
  <1>5. ASSUME NEW p \in Procs, Pull(p)
        PROVE  NothingSkipped' /\ FloorKnown' /\ \A q \in Procs : Owes(q)'
    BY <1>5, <1>t, PullStep
  <1>6. ASSUME NEW p \in Procs, Fail(p)
        PROVE  NothingSkipped' /\ FloorKnown' /\ \A q \in Procs : Owes(q)'
    BY <1>1, <1>6 DEF Fail, Idle
  <1>7. CASE \E d \in StartDates \cup {NoDate} : SetStart(d)
    BY <1>0, <1>2, <1>7 DEF SetStart
  <1>8. CASE (\E s \in Sessions : BecomeDue(s)) \/ Correct
    BY <1>0, <1>2, <1>8 DEF BecomeDue, Correct
  <1>9. CASE Tick
    BY <1>0, <1>2, <1>9 DEF Tick
  <1>10. QED
    BY <1>3, <1>4, <1>5, <1>6, <1>7, <1>8, <1>9 DEF Next

LEMMA InvInit == Init => IInv
  <1> SUFFICES ASSUME Init PROVE IInv
    OBVIOUS
  <1>1. TypeOK
    BY DaysInt, IdleTyped, SyncAssumption DEF Init, TypeOK
  <1>2. QED
    BY <1>1 DEF Init, IInv, LinkedPulls, FloorKnown, NothingSkipped, Owes,
       At, Idle

-----------------------------------------------------------------------------
(* Credentials, the last success, the stored ids and the requests keep to  *)
(* their shapes, whatever the bridge's delay.                              *)
THEOREM SyncTyped == Spec => []TypeOK
  <1>1. Init => TypeOK /\ LinkedPulls
    BY InvInit DEF IInv
  <1>2. QED
    BY <1>1, TypeStep, LinkedStep, PTL DEF Spec

(* As long as a transaction settles within the overlap, no interleaving of *)
(* pulls, failures, new links and start dates makes a later window pass    *)
(* over one that is wanted.                                                *)
THEOREM NeverSkips == LagWithinOverlap /\ Spec => []NothingSkipped
  <1>1. LagWithinOverlap /\ Spec => []IInv
    <2>1. SUFFICES ASSUME LagWithinOverlap PROVE Spec => []IInv
      OBVIOUS
    <2>2. IInv /\ [Next]_vars => IInv'
      BY <2>1, InvStep
    <2>3. QED  BY <2>2, InvInit, PTL DEF Spec
  <1>2. IInv => NothingSkipped
    BY DEF IInv
  <1>3. QED  BY <1>1, <1>2, PTL
=============================================================================
