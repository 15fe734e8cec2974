----------------------------- MODULE WebProofs ------------------------------
(***************************************************************************)
(* Theorems about Web, for any number of clients and of uploads, every     *)
(* limit, every length of the window and every bound on the clock.         *)
(***************************************************************************)
EXTENDS Web, FiniteSetTheorems, TLAPS

-----------------------------------------------------------------------------
(* Types. *)

LEMMA ReadyTyped == Ready \in Request
  BY DEF Request

(* The operation a request names says which fields it has. *)
LEMMA RequestShape ==
    ASSUME NEW r \in Request
    PROVE  /\ r # Ready => r.s \in Logins
           /\ r.op \in {"Import", "Clear"} =>
                 r \in [op : {"Import", "Clear"}, s : Logins, u : Uploads]
           /\ r.op \in {"Preview", "Commit", "Logout"} =>
                 r \in [op : {"Preview", "Commit", "Logout"}, s : Logins]
           /\ r.op = "ready" <=> r = Ready
  BY DEF Request, Ready

LEMMA BecomeTyped ==
    ASSUME req \in [Procs -> Request], NEW p \in Procs, NEW r \in Request, Become(p, r)
    PROVE  req' \in [Procs -> Request]
  BY DEF Become

LEMMA NowTyped == TypeOK => now \in Times /\ Times \subseteq Int
  BY WebAssumption DEF TypeOK, Times

(* A sign-in request goes from label to label, and a session is stamped    *)
(* with the clock.                                                         *)
LEMMA SignInTyped ==
    ASSUME TypeOK, NEW r \in Requests, SignIn(r)
    PROVE  TypeOK'
  <1> USE DEF TypeOK
  <1>1. CASE ReadClock(r)
    BY <1>1 DEF ReadClock, Goto, Labels, sessions, staging
  <1>2. CASE Allow(r)
    BY <1>2 DEF Allow, Goto, Kept, Labels, sessions, staging
  <1>3. CASE Acquire(r)
    <2>1. Append(queue, r) \in Seq(Requests)
      OBVIOUS
    <2>2. QED  BY <1>3, <2>1 DEF Acquire, Goto, Labels, sessions, staging
  <1>4. ASSUME NEW known \in BOOLEAN, Derived(r, known) PROVE TypeOK'
    <2>1. After(r, known) \in [Requests -> Labels]
      BY DEF After, Labels
    <2>2. Released(r, known) \in [Requests -> Labels]
      BY <2>1 DEF Released, Labels
    <2>3. (IF queue = <<>> THEN <<>> ELSE Tail(queue)) \in Seq(Requests)
      OBVIOUS
    <2>4. QED  BY <1>4, <2>2, <2>3 DEF Derived, sessions, staging
  <1>5. CASE Create(r)
    BY <1>5 DEF Create, Goto, Labels, staging
  <1>6. QED  BY <1>1, <1>2, <1>3, <1>4, <1>5 DEF SignIn, Serve

(* A request with a session keeps the session map, the staging and what it *)
(* is in the middle of to their shapes.                                    *)
LEMMA PrivateTyped ==
    ASSUME TypeOK, NEW p \in Procs, Private(p)
    PROVE  TypeOK'
  <1> USE DEF TypeOK
  <1>0. req[p] \in Request
    OBVIOUS
  <1>1. ASSUME NEW s \in Logins, NEW op \in Operations, Enter(p, s, op)
        PROVE  TypeOK'
    <2>1. (IF op = "Page" THEN Ready ELSE [op |-> op, s |-> s]) \in Request
      BY DEF Request, Operations
    <2>2. req' \in [Procs -> Request]
      BY <1>1, <2>1, BecomeTyped DEF Enter
    <2>3. QED  BY <1>1, <2>2 DEF Enter, attempts, staging
  <1>2. ASSUME NEW s \in Logins, Refuse(s) PROVE TypeOK'
    BY <1>2 DEF Refuse, Drop, attempts, staging
  <1>3. CASE logout(p)
    <2>1. req[p].s \in Logins
      BY <1>0, <1>3, RequestShape DEF logout, At, Ready
    <2>2. req' \in [Procs -> Request]
      BY <1>3, ReadyTyped, BecomeTyped DEF logout
    <2>3. QED  BY <1>3, <2>1, <2>2 DEF logout, attempts, staging
  <1>4. CASE importPreview(p)
    <2>1. req' \in [Procs -> Request]
      BY <1>4, ReadyTyped, BecomeTyped DEF importPreview
    <2>2. QED  BY <1>4, <2>1 DEF importPreview, attempts, sessions
  <1>5. CASE Nothing(p)
    <2>1. req' \in [Procs -> Request]
      BY <1>5, ReadyTyped, BecomeTyped DEF Nothing
    <2>2. QED  BY <1>5, <2>1 DEF Nothing, attempts, sessions, staging
  <1>6. CASE ReadStaged(p)
    <2>1. req[p].s \in Logins
      BY <1>0, <1>6, RequestShape DEF ReadStaged, At, Ready
    <2>2. imp[req[p].s] \in Uploads
      BY <1>6, <2>1 DEF ReadStaged, IsStaged
    <2>3. [op |-> "Import", s |-> req[p].s, u |-> imp[req[p].s]] \in Request
      BY <2>1, <2>2 DEF Request
    <2>4. req' \in [Procs -> Request]
      BY <1>6, <2>3, BecomeTyped DEF ReadStaged
    <2>5. overlapped' \in SUBSET Uploads
      BY <1>6, <2>2 DEF ReadStaged
    <2>6. QED  BY <1>6, <2>4, <2>5 DEF ReadStaged, attempts, sessions
  <1>7. CASE CommitImport(p)
    <2>1. req[p] \in [op : {"Import", "Clear"}, s : Logins, u : Uploads]
      BY <1>0, <1>7, RequestShape DEF CommitImport, At
    <2>2. [req[p] EXCEPT !.op = "Clear"] \in Request
      BY <2>1 DEF Request
    <2>3. req' \in [Procs -> Request]
      BY <1>7, <2>2, ReadyTyped, BecomeTyped DEF CommitImport, Failed
    <2>4. imports' \in [Uploads -> Nat]
      BY <1>7, <2>1 DEF CommitImport
    <2>5. QED  BY <1>7, <2>3, <2>4 DEF CommitImport, attempts, sessions
  <1>8. CASE Clear(p)
    <2>1. req' \in [Procs -> Request]
      BY <1>8, ReadyTyped, BecomeTyped DEF Clear
    <2>2. QED  BY <1>8, <2>1 DEF Clear, SetImportNil, attempts, sessions
  <1>9. QED
    BY <1>1, <1>2, <1>3, <1>4, <1>5, <1>6, <1>7, <1>8 DEF Private, Get

LEMMA TypeInit == Init => TypeOK
  BY WebAssumption, ReadyTyped DEF Init, TypeOK, Times, Labels

LEMMA TypeStep == TypeOK /\ [Next]_vars => TypeOK'
  <1> SUFFICES ASSUME TypeOK, [Next]_vars PROVE TypeOK'
    OBVIOUS
  <1>1. CASE UNCHANGED vars
    BY <1>1 DEF vars, attempts, sessions, staging, TypeOK
  <1>2. CASE Tick
    BY <1>2, WebAssumption DEF Tick, attempts, sessions, staging, TypeOK, Times
  <1>3. CASE Restart
    BY <1>3, ReadyTyped DEF Restart, TypeOK, Labels
  <1>4. QED
    BY <1>1, <1>2, <1>3, SignInTyped, PrivateTyped DEF Next

(* The server's memory keeps its types.                                    *)
THEOREM TypeCorrect == Spec => []TypeOK
  BY TypeInit, TypeStep, PTL DEF Spec

-----------------------------------------------------------------------------
(* The limit on attempts. *)

(* A request reads the clock first, has to take the lock within Lag, and   *)
(* is in the log only after that.                                          *)
Clocked ==
    \A r \in Requests :
        /\ pc[r] = "new" => at[r] = Never /\ r \notin authLog
        /\ pc[r] # "new" => stamp[r] # Never /\ stamp[r] <= now
        /\ pc[r] = "timed" => at[r] = Never /\ now <= stamp[r] + Lag
        /\ at[r] # Never => at[r] <= now /\ at[r] <= stamp[r] + Lag

(* Whoever waits has arrived.                                              *)
Arrived == \A i \in DOMAIN queue : pc[queue[i]] # "new"

(* What counts is in the log, and the log is not longer than the cap.      *)
Logged == Recent \subseteq authLog
Bounded == IsFiniteSet(authLog) /\ Cardinality(authLog) <= Cap

Limit == TypeOK /\ Clocked /\ Arrived /\ Logged /\ Bounded

(* Serving a request moves it, and the one it wakes, on.                   *)
LEMMA ServeMoves ==
    ASSUME TypeOK, Arrived, NEW r \in Requests, Serve(r)
    PROVE  /\ UNCHANGED <<stamp, at, authLog, now>>
           /\ \A q \in Requests :
                 pc'[q] = pc[q] \/ (pc[q] # "new" /\ pc'[q] \notin {"new", "timed"})
           /\ Arrived'
  <1> USE DEF TypeOK, Arrived
  <1>1. CASE Acquire(r)
    <2>1. pc[r] = "allowed" /\ UNCHANGED <<stamp, at, authLog, now>>
      BY <1>1 DEF Acquire
    <2>2. CASE pc' = [pc EXCEPT ![r] = "deriving"] /\ UNCHANGED queue
      BY <2>1, <2>2
    <2>3. CASE pc' = [pc EXCEPT ![r] = "waiting"] /\ queue' = Append(queue, r)
      <3>1. \A i \in DOMAIN queue' : queue'[i] = r \/ (i \in DOMAIN queue /\ queue'[i] = queue[i])
        BY <2>3
      <3>2. \A i \in DOMAIN queue : queue[i] \in Requests
        OBVIOUS
      <3>3. QED  BY <2>1, <2>3, <3>1, <3>2
    <2>4. QED  BY <1>1, <2>2, <2>3 DEF Acquire, Goto
  <1>2. CASE Create(r)
    BY <1>2 DEF Create, Goto, sessions, staging
  <1>3. ASSUME NEW known \in BOOLEAN, Derived(r, known)
        PROVE  /\ UNCHANGED <<stamp, at, authLog, now>>
               /\ \A q \in Requests :
                     pc'[q] = pc[q] \/ (pc[q] # "new" /\ pc'[q] \notin {"new", "timed"})
               /\ Arrived'
    <2>1. pc[r] = "deriving" /\ UNCHANGED <<stamp, at, authLog, now>>
      BY <1>3 DEF Derived
    <2>2. /\ After(r, known) \in [Requests -> Labels]
          /\ \A q \in Requests : After(r, known)[q] =
                IF q # r THEN pc[q] ELSE IF known /\ r \in Logins THEN "known" ELSE "done"
      BY DEF After, Labels
    <2>3. CASE queue = <<>>
      BY <1>3, <2>1, <2>2, <2>3 DEF Derived, Released
    <2>4. CASE queue # <<>>
      <3>1. Head(queue) \in Requests /\ pc[Head(queue)] # "new"
        BY <2>4
      <3>2. pc' = [After(r, known) EXCEPT ![Head(queue)] = "deriving"]
        BY <1>3, <2>4 DEF Derived, Released
      <3>3. \A q \in Requests :
               pc'[q] = pc[q] \/ (pc[q] # "new" /\ pc'[q] \notin {"new", "timed"})
        BY <2>1, <2>2, <3>1, <3>2
      <3>4. \A i \in DOMAIN queue' : \E j \in DOMAIN queue : queue'[i] = queue[j]
        BY <1>3, <2>4 DEF Derived
      <3>5. \A i \in DOMAIN queue : queue[i] \in Requests
        OBVIOUS
      <3>6. QED  BY <2>1, <3>3, <3>4, <3>5
    <2>5. QED  BY <2>3, <2>4
  <1>4. QED  BY <1>1, <1>2, <1>3 DEF Serve

(* A step that is not a sign-in leaves the sign-ins alone, or is the       *)
(* clock's, or ends them all.                                              *)
LEMMA OtherSteps ==
    ASSUME [Next]_vars
    PROVE  \/ \E r \in Requests : ReadClock(r) \/ Allow(r) \/ Serve(r)
           \/ UNCHANGED <<now, attempts>>
           \/ Tick
           \/ Restart
  <1>1. ASSUME NEW p \in Procs, Private(p) PROVE UNCHANGED <<now, attempts>>
    BY <1>1 DEF Private, Get, Enter, Refuse, logout, importPreview, Nothing,
                ReadStaged, CommitImport, Clear
  <1>2. QED  BY <1>1 DEF Next, SignIn, vars

LEMMA ClockedStep ==
    ASSUME TypeOK, Clocked, Arrived, [Next]_vars
    PROVE  Clocked' /\ Arrived'
  <1> USE WebAssumption, NowTyped DEF TypeOK, Times
  <1>0. \A i \in DOMAIN queue : queue[i] \in Requests
    OBVIOUS
  <1>1. CASE UNCHANGED <<now, attempts>>
    BY <1>1 DEF attempts, Clocked, Arrived
  <1>2. ASSUME NEW r \in Requests, ReadClock(r) PROVE Clocked' /\ Arrived'
    <2>1. Clocked'
      BY <1>2 DEF ReadClock, Goto, Clocked
    <2>2. Arrived'
      BY <1>0, <1>2 DEF ReadClock, Goto, Arrived
    <2>3. QED  BY <2>1, <2>2
  <1>3. ASSUME NEW r \in Requests, Allow(r) PROVE Clocked' /\ Arrived'
    <2>1. Clocked'
      BY <1>3 DEF Allow, Goto, Kept, Clocked
    <2>2. Arrived'
      BY <1>0, <1>3 DEF Allow, Goto, Arrived
    <2>3. QED  BY <2>1, <2>2
  <1>4. ASSUME NEW r \in Requests, Serve(r) PROVE Clocked' /\ Arrived'
    BY <1>4, ServeMoves DEF Clocked
  <1>5. CASE Tick
    BY <1>5 DEF Tick, attempts, Clocked, Arrived
  <1>6. CASE Restart
    BY <1>6 DEF Restart, Clocked, Arrived
  <1>7. QED  BY <1>1, <1>2, <1>3, <1>4, <1>5, <1>6, OtherSteps

(* What is dropped from the log was accepted too long ago to count: it was *)
(* read a Minute before a later reading, and accepted at most Lag later.   *)
LEMMA KeptEnough ==
    ASSUME TypeOK, Clocked, Logged, NEW r \in Requests, pc[r] = "timed"
    PROVE  Recent \subseteq Kept(stamp[r])
  <1> SUFFICES ASSUME NEW q \in Recent PROVE q \in Kept(stamp[r])
    OBVIOUS
  <1>1. q \in authLog /\ q \in Requests /\ at[q] # Never /\ at[q] > now - (Minute - Lag)
    BY DEF Logged, Recent
  <1>2. pc[q] # "new" /\ stamp[q] \in Int /\ at[q] \in Int /\ at[q] <= stamp[q] + Lag
    BY <1>1, WebAssumption DEF Clocked, TypeOK, Times
  <1>3. stamp[r] \in Int /\ stamp[r] <= now /\ now \in Int
    BY WebAssumption DEF Clocked, TypeOK, Times
  <1>4. stamp[q] > stamp[r] - Minute
    BY <1>1, <1>2, <1>3, WebAssumption
  <1>5. QED  BY <1>1, <1>4 DEF Kept

LEMMA LimitStep ==
    ASSUME Limit, [Next]_vars
    PROVE  Logged' /\ Bounded'
  <1> USE DEF Limit
  <1>1. CASE UNCHANGED <<now, attempts>>
    BY <1>1 DEF attempts, Logged, Bounded, Recent
  <1>2. ASSUME NEW r \in Requests, ReadClock(r) PROVE Logged' /\ Bounded'
    BY <1>2 DEF ReadClock, Logged, Bounded, Recent
  <1>3. ASSUME NEW r \in Requests, Allow(r) PROVE Logged' /\ Bounded'
    <2>1. /\ Recent \subseteq Kept(stamp[r])
          /\ Kept(stamp[r]) \subseteq authLog
          /\ IsFiniteSet(Kept(stamp[r]))
          /\ Cardinality(Kept(stamp[r])) <= Cardinality(authLog)
      <3>1. Kept(stamp[r]) \subseteq authLog
        BY DEF Kept
      <3>2. Recent \subseteq Kept(stamp[r])
        BY <1>3, KeptEnough DEF Allow
      <3>3. QED  BY <3>1, <3>2, FS_Subset DEF Bounded
    <2>2. /\ Cardinality(authLog) \in Nat
          /\ Cardinality(Kept(stamp[r])) \in Nat
      BY <2>1, FS_CardinalityType DEF Bounded
    <2>3. CASE Full(Kept(stamp[r]))
      <3>1. authLog' = Kept(stamp[r]) /\ UNCHANGED <<at, now>>
        BY <1>3, <2>3 DEF Allow
      <3>2. Recent' = Recent
        BY <3>1 DEF Recent
      <3>3. QED  BY <2>1, <2>2, <3>1, <3>2, WebAssumption DEF Logged, Bounded
    <2>4. CASE ~Full(Kept(stamp[r]))
      <3>1. /\ authLog' = Kept(stamp[r]) \cup {r}
            /\ at' = [at EXCEPT ![r] = now]
            /\ UNCHANGED now
        BY <1>3, <2>4 DEF Allow
      <3>2. Recent' \subseteq Recent \cup {r}
        BY <3>1 DEF Recent, TypeOK
      <3>3. Cardinality(Kept(stamp[r])) < Cap
        BY <2>2, <2>4, WebAssumption DEF Full
      <3>4. /\ IsFiniteSet(Kept(stamp[r]) \cup {r})
            /\ \/ Cardinality(Kept(stamp[r]) \cup {r}) = Cardinality(Kept(stamp[r]))
               \/ Cardinality(Kept(stamp[r]) \cup {r}) = Cardinality(Kept(stamp[r])) + 1
        BY <2>1, FS_AddElement
      <3>5. QED
        BY <2>1, <2>2, <3>1, <3>2, <3>3, <3>4, WebAssumption DEF Logged, Bounded
    <2>5. QED  BY <2>3, <2>4
  <1>4. ASSUME NEW r \in Requests, Serve(r) PROVE Logged' /\ Bounded'
    BY <1>4, ServeMoves DEF Logged, Bounded, Recent
  <1>5. CASE Tick
    <2>1. UNCHANGED <<at, authLog>> /\ now' = now + 1 /\ now \in Int
      BY <1>5, NowTyped DEF Tick, attempts
    <2>2. \A r \in Requests : at[r] = Never \/ at[r] \in Int
      BY NowTyped DEF TypeOK
    <2>3. Recent' \subseteq Recent
      BY <2>1, <2>2, WebAssumption DEF Recent
    <2>4. QED  BY <2>1, <2>3 DEF Logged, Bounded
  <1>6. CASE Restart
    <2>1. authLog' = {} /\ Recent' = {}
      BY <1>6 DEF Restart, Recent
    <2>2. QED  BY <2>1, FS_EmptySet, WebAssumption DEF Logged, Bounded
  <1>7. QED  BY <1>1, <1>2, <1>3, <1>4, <1>5, <1>6, OtherSteps

(* At most Cap attempts are accepted in any Minute - Lag: the log holds    *)
(* every attempt that still counts, though not in the order of acceptance, *)
(* and is not longer than Cap.                                             *)
THEOREM AttemptsBounded == Spec => []RollingBound
  <1>1. Init => Limit
    <2> SUFFICES ASSUME Init PROVE Limit
      OBVIOUS
    <2>1. TypeOK
      BY TypeInit
    <2>2. Clocked /\ Arrived
      BY DEF Init, Clocked, Arrived
    <2>3. authLog = {} /\ Recent = {}
      BY DEF Init, Recent
    <2>4. QED
      BY <2>1, <2>2, <2>3, FS_EmptySet, WebAssumption DEF Limit, Logged, Bounded
  <1>2. Limit /\ [Next]_vars => Limit'
    BY TypeStep, ClockedStep, LimitStep DEF Limit
  <1>3. Limit => RollingBound
    <2> SUFFICES ASSUME Limit PROVE RollingBound
      OBVIOUS
    <2>1. /\ Cardinality(Recent) <= Cardinality(authLog)
          /\ Cardinality(Recent) \in Nat /\ Cardinality(authLog) \in Nat
      BY FS_Subset, FS_CardinalityType DEF Limit, Logged, Bounded
    <2>2. QED  BY <2>1, WebAssumption DEF Limit, Bounded, RollingBound
  <1>4. QED  BY <1>1, <1>2, <1>3, PTL DEF Spec

-----------------------------------------------------------------------------
(* Sessions. *)

(* Each request in the queue waits, and waits once.                        *)
InLine ==
    /\ \A i \in DOMAIN queue : pc[queue[i]] = "waiting"
    /\ \A i, j \in DOMAIN queue : i # j => queue[i] # queue[j]

(* A step leaves the line in order, and an answer stands.                  *)
LEMMA LineStep ==
    ASSUME TypeOK, InLine, [Next]_vars
    PROVE  InLine' /\ \A q \in Requests : pc[q] = "done" => pc'[q] = "done"
  <1> USE DEF TypeOK
  <1>0. \A i \in DOMAIN queue : queue[i] \in Requests
    OBVIOUS
  <1>1. CASE UNCHANGED <<now, attempts>> \/ Tick
    BY <1>1 DEF Tick, attempts, InLine
  <1>2. ASSUME NEW r \in Requests, ReadClock(r) \/ Allow(r) \/ Create(r)
        PROVE  InLine' /\ \A q \in Requests : pc[q] = "done" => pc'[q] = "done"
    <2>1. /\ pc[r] \notin {"waiting", "done"} /\ UNCHANGED queue
          /\ \A q \in Requests : q # r => pc'[q] = pc[q]
      BY <1>2 DEF ReadClock, Allow, Create, Goto
    <2>2. QED  BY <1>0, <2>1 DEF InLine
  <1>3. ASSUME NEW r \in Requests, Acquire(r)
        PROVE  InLine' /\ \A q \in Requests : pc[q] = "done" => pc'[q] = "done"
    <2>1. pc[r] = "allowed"
      BY <1>3 DEF Acquire
    <2>2. CASE pc' = [pc EXCEPT ![r] = "deriving"] /\ UNCHANGED queue
      BY <1>0, <2>1, <2>2 DEF InLine
    <2>3. CASE pc' = [pc EXCEPT ![r] = "waiting"] /\ queue' = Append(queue, r)
      <3>1. /\ DOMAIN queue' = 1 .. Len(queue) + 1 /\ DOMAIN queue = 1 .. Len(queue)
            /\ Len(queue) \in Nat
            /\ queue'[Len(queue) + 1] = r
            /\ \A i \in DOMAIN queue : queue'[i] = queue[i] /\ queue[i] # r
        BY <2>1, <2>3 DEF InLine
      <3>2. \A i \in DOMAIN queue' : pc'[queue'[i]] = "waiting"
        BY <1>0, <2>3, <3>1 DEF InLine
      <3>3. \A i, j \in DOMAIN queue' : i # j => queue'[i] # queue'[j]
        BY <3>1 DEF InLine
      <3>4. QED  BY <2>1, <2>3, <3>2, <3>3 DEF InLine
    <2>4. QED  BY <1>3, <2>2, <2>3 DEF Acquire, Goto
  <1>4. ASSUME NEW r \in Requests, NEW known \in BOOLEAN, Derived(r, known)
        PROVE  InLine' /\ \A q \in Requests : pc[q] = "done" => pc'[q] = "done"
    <2>1. pc[r] = "deriving"
      BY <1>4 DEF Derived
    <2>2. /\ After(r, known) \in [Requests -> Labels]
          /\ \A q \in Requests : q # r => After(r, known)[q] = pc[q]
      BY DEF After, Labels
    <2>3. CASE queue = <<>>
      BY <1>4, <2>1, <2>2, <2>3 DEF Derived, Released, InLine
    <2>4. CASE queue # <<>>
      <3>1. /\ queue' = Tail(queue)
            /\ pc' = [After(r, known) EXCEPT ![Head(queue)] = "deriving"]
        BY <1>4, <2>4 DEF Derived, Released
      <3>2. /\ Head(queue) = queue[1] /\ 1 \in DOMAIN queue
            /\ Len(queue) \in Nat /\ DOMAIN queue = 1 .. Len(queue)
            /\ DOMAIN queue' = 1 .. Len(queue) - 1
            /\ \A i \in DOMAIN queue' : i + 1 \in DOMAIN queue /\ queue'[i] = queue[i + 1]
        BY <2>4, <3>1
      <3>3. ASSUME NEW i \in DOMAIN queue'
            PROVE  queue'[i] # Head(queue) /\ queue'[i] # r
        <4>1. i + 1 # 1 /\ i + 1 \in DOMAIN queue /\ queue'[i] = queue[i + 1]
          BY <3>2
        <4>2. queue[i + 1] # queue[1]
          BY <3>2, <4>1 DEF InLine
        <4>3. pc[queue[i + 1]] = "waiting"
          BY <4>1 DEF InLine
        <4>4. QED  BY <2>1, <3>2, <4>1, <4>2, <4>3
      <3>4. \A i \in DOMAIN queue' : pc'[queue'[i]] = "waiting"
        BY <1>0, <2>2, <3>1, <3>2, <3>3 DEF InLine
      <3>5. \A i, j \in DOMAIN queue' : i # j => queue'[i] # queue'[j]
        BY <3>2 DEF InLine
      <3>6. \A q \in Requests : pc[q] = "done" => pc'[q] = "done"
        BY <2>1, <2>2, <3>1, <3>2 DEF InLine
      <3>7. QED  BY <3>4, <3>5, <3>6 DEF InLine
    <2>5. QED  BY <2>3, <2>4
  <1>5. CASE Restart
    BY <1>5 DEF Restart, InLine
  <1>6. ASSUME NEW r \in Requests, Serve(r)
        PROVE  InLine' /\ \A q \in Requests : pc[q] = "done" => pc'[q] = "done"
    BY <1>2, <1>3, <1>4, <1>6 DEF Serve
  <1>7. QED  BY <1>1, <1>2, <1>5, <1>6, OtherSteps

(* Every session belongs to a login that was answered, and one that is     *)
(* over is not in the map.                                                 *)
Ended ==
    /\ \A s \in live \cup over : pc[s] = "done"
    /\ \A p \in Procs : req[p] # Ready => pc[req[p].s] = "done"
    /\ live \cap over = {}

LEMMA EndedStep ==
    ASSUME TypeOK, InLine, Ended, [Next]_vars
    PROVE  Ended'
  <1> USE DEF TypeOK, Ended
  <1>0. /\ \A q \in Requests : pc[q] = "done" => pc'[q] = "done"
        /\ Logins \subseteq Requests
        /\ \A p \in Procs : req[p] # Ready => req[p].s \in Logins
    BY LineStep, RequestShape DEF Requests
  <1>1. CASE UNCHANGED <<live, over, req>>
    BY <1>0, <1>1
  <1>2. ASSUME NEW r \in Requests, Create(r) PROVE Ended'
    <2>1. /\ pc[r] = "known" /\ pc' = [pc EXCEPT ![r] = "done"]
          /\ live' = live \cup {r} /\ UNCHANGED <<over, req>>
      BY <1>2 DEF Create, Goto
    <2>2. r \notin over
      BY <2>1
    <2>3. QED  BY <1>0, <2>1, <2>2
  <1>3. ASSUME NEW p \in Procs, Private(p) PROVE Ended'
    <2>0. UNCHANGED pc
      BY <1>3 DEF Private, Get, Enter, Refuse, logout, importPreview, Nothing,
                  ReadStaged, CommitImport, Clear, attempts
    <2>1. ASSUME NEW s \in Logins, NEW op \in Operations, Enter(p, s, op) PROVE Ended'
      <3>1. /\ s \in live /\ UNCHANGED <<live, over>>
            /\ req' = [req EXCEPT ![p] = IF op = "Page" THEN Ready ELSE [op |-> op, s |-> s]]
        BY <2>1 DEF Enter, Become
      <3>2. QED  BY <2>0, <3>1
    <2>2. ASSUME NEW s \in Logins, Refuse(s) PROVE Ended'
      BY <2>0, <2>2 DEF Refuse, Drop
    <2>3. CASE logout(p)
      <3>1. /\ live' = live \ {req[p].s} /\ over' = over \cup {req[p].s}
            /\ req' = [req EXCEPT ![p] = Ready] /\ req[p] # Ready
        BY <2>3 DEF logout, Become, At, Ready
      <3>2. QED  BY <1>0, <2>0, <3>1
    <2>4. CASE importPreview(p) \/ Nothing(p) \/ Clear(p)
      <3>1. UNCHANGED <<live, over>> /\ req' = [req EXCEPT ![p] = Ready]
        BY <2>4 DEF importPreview, Nothing, Clear, Become, sessions
      <3>2. QED  BY <2>0, <3>1
    <2>5. CASE ReadStaged(p) \/ CommitImport(p)
      <3>1. UNCHANGED <<live, over>> /\ req[p] # Ready
        BY <2>5 DEF ReadStaged, CommitImport, At, Ready, sessions
      <3>2. \A q \in Procs : req'[q] = req[q] \/ req'[q] = Ready \/ req'[q].s = req[q].s
        <4>1. CASE ReadStaged(p)
          BY <4>1 DEF ReadStaged, Become
        <4>2. CASE CommitImport(p)
          <5>1. req[p] \in [op : {"Import", "Clear"}, s : Logins, u : Uploads]
            BY <4>2, RequestShape DEF CommitImport, At
          <5>2. [req[p] EXCEPT !.op = "Clear"].s = req[p].s
            BY <5>1
          <5>3. QED  BY <4>2, <5>2 DEF CommitImport, Failed, Become
        <4>3. QED  BY <2>5, <4>1, <4>2
      <3>3. \A q \in Procs : req'[q] # Ready => req[q] # Ready
        <4>1. \A q \in Procs : q # p => req'[q] = req[q]
          BY <2>5 DEF ReadStaged, CommitImport, Failed, Become
        <4>2. QED  BY <3>1, <4>1
      <3>4. QED  BY <2>0, <3>1, <3>2, <3>3
    <2>6. QED  BY <1>3, <2>1, <2>2, <2>3, <2>4, <2>5 DEF Private, Get
  <1>4. CASE Restart
    BY <1>0, <1>4 DEF Restart
  <1>5. QED
    <2>1. ASSUME NEW r \in Requests, SignIn(r), ~Create(r) PROVE UNCHANGED <<live, over, req>>
      BY <2>1 DEF SignIn, Serve, ReadClock, Allow, Acquire, Derived, sessions
    <2>2. Tick => UNCHANGED <<live, over, req>>
      BY DEF Tick, sessions
    <2>3. QED  BY <1>1, <1>2, <1>3, <1>4, <2>1, <2>2 DEF Next, vars, sessions

(* A session that was refused or signed out never comes back: its name is  *)
(* the random id of one login, which has been answered.                    *)
THEOREM SessionsStayOut == Spec => []StaysOut
  <1>1. Init => TypeOK /\ InLine /\ Ended
    BY TypeInit DEF Init, InLine, Ended, Ready
  <1>2. TypeOK /\ InLine /\ Ended /\ [Next]_vars => (TypeOK /\ InLine /\ Ended)'
    BY TypeStep, LineStep, EndedStep
  <1>3. Ended => StaysOut
    BY DEF Ended, StaysOut
  <1>4. QED  BY <1>1, <1>2, <1>3, PTL DEF Spec

-----------------------------------------------------------------------------
(* The slots. *)

SlotsCounted ==
    /\ IsFiniteSet(Deriving) /\ Cardinality(Deriving) <= Slots
    /\ queue # <<>> => Cardinality(Deriving) = Slots
    /\ \A r \in Requests : pc[r] = "waiting" => \E i \in DOMAIN queue : queue[i] = r

(* Steps that begin and end no derivation, and make and let nobody wait.   *)
LEMMA SameSlots ==
    ASSUME TypeOK, SlotsCounted, UNCHANGED queue,
           \A q \in Requests :
              pc'[q] = pc[q] \/ {pc[q], pc'[q]} \cap {"deriving", "waiting"} = {}
    PROVE  SlotsCounted'
  <1>1. Deriving' = Deriving
    BY DEF Deriving
  <1>2. QED  BY <1>1 DEF SlotsCounted

LEMMA AcquireSlots ==
    ASSUME TypeOK, SlotsCounted, NEW r \in Requests, Acquire(r)
    PROVE  SlotsCounted'
  <1> USE DEF TypeOK
  <1>0. Slots \in Nat /\ Cardinality(Deriving) \in Nat
    BY WebAssumption, FS_CardinalityType DEF SlotsCounted
  <1>1. CASE FreeSlot
    <2>1. queue = <<>> /\ UNCHANGED queue /\ pc' = [pc EXCEPT ![r] = "deriving"]
      BY <1>0, <1>1 DEF Acquire, FreeSlot, Goto, SlotsCounted
    <2>2. Deriving' = Deriving \cup {r} /\ r \notin Deriving
      BY <2>1 DEF Deriving, Acquire
    <2>3. /\ IsFiniteSet(Deriving')
          /\ Cardinality(Deriving') = Cardinality(Deriving) + 1
      BY <2>2, FS_AddElement DEF SlotsCounted
    <2>4. \A q \in Requests : pc'[q] # "waiting"
      BY <2>1 DEF SlotsCounted
    <2>5. QED  BY <1>0, <1>1, <2>1, <2>3, <2>4 DEF SlotsCounted, FreeSlot
  <1>2. CASE ~FreeSlot
    <2>1. queue' = Append(queue, r) /\ pc' = [pc EXCEPT ![r] = "waiting"]
      BY <1>2 DEF Acquire, Goto
    <2>2. Deriving' = Deriving
      BY <2>1 DEF Deriving, Acquire
    <2>3. Cardinality(Deriving) = Slots
      BY <1>0, <1>2 DEF SlotsCounted, FreeSlot
    <2>4. /\ \A i \in DOMAIN queue : i \in DOMAIN queue' /\ queue'[i] = queue[i]
          /\ \E i \in DOMAIN queue' : queue'[i] = r
      <3>1. /\ Len(queue) \in Nat /\ DOMAIN queue = 1 .. Len(queue)
            /\ DOMAIN queue' = 1 .. Len(queue) + 1
            /\ queue'[Len(queue) + 1] = r
            /\ \A i \in DOMAIN queue : queue'[i] = queue[i]
        BY <2>1
      <3>2. Len(queue) + 1 \in DOMAIN queue'
        BY <3>1
      <3>3. \A i \in DOMAIN queue : i \in DOMAIN queue'
        BY <3>1
      <3> HIDE DEF Deriving
      <3>4. QED  BY <3>1, <3>2, <3>3
    <2>5. ASSUME NEW q \in Requests, pc'[q] = "waiting"
          PROVE  \E i \in DOMAIN queue' : queue'[i] = q
      BY <2>1, <2>4, <2>5 DEF SlotsCounted
    <2>6. QED  BY <2>2, <2>3, <2>5 DEF SlotsCounted
  <1>3. QED  BY <1>1, <1>2

LEMMA DerivedSlots ==
    ASSUME TypeOK, InLine, SlotsCounted, NEW r \in Requests, NEW known \in BOOLEAN,
           Derived(r, known)
    PROVE  SlotsCounted'
  <1> USE DEF TypeOK
  <1>0. /\ Slots \in Nat /\ Cardinality(Deriving) \in Nat
        /\ r \in Deriving /\ IsFiniteSet(Deriving)
    BY WebAssumption, FS_CardinalityType DEF SlotsCounted, Derived, Deriving
  <1>1. /\ After(r, known) \in [Requests -> Labels]
        /\ After(r, known)[r] \in {"known", "done"}
        /\ \A q \in Requests : q # r => After(r, known)[q] = pc[q]
    BY DEF After, Labels
  <1>2. CASE queue = <<>>
    <2>1. pc' = After(r, known) /\ queue' = <<>>
      BY <1>2 DEF Derived, Released
    <2>2. Deriving' = Deriving \ {r}
      BY <1>1, <2>1 DEF Deriving
    <2>3. /\ IsFiniteSet(Deriving')
          /\ Cardinality(Deriving') = Cardinality(Deriving) - 1
      BY <1>0, <2>2, FS_RemoveElement
    <2>4. \A q \in Requests : pc'[q] # "waiting"
      BY <1>1, <1>2, <2>1 DEF SlotsCounted
    <2>5. QED  BY <1>0, <2>1, <2>3, <2>4 DEF SlotsCounted
  <1>3. CASE queue # <<>>
    <2>1. /\ queue' = Tail(queue)
          /\ pc' = [After(r, known) EXCEPT ![Head(queue)] = "deriving"]
      BY <1>3 DEF Derived, Released
    <2>2. /\ Head(queue) = queue[1] /\ 1 \in DOMAIN queue /\ Head(queue) \in Requests
          /\ Len(queue) \in Nat /\ DOMAIN queue = 1 .. Len(queue)
          /\ DOMAIN queue' = 1 .. Len(queue) - 1
          /\ \A i \in DOMAIN queue' : queue'[i] = queue[i + 1]
      BY <1>3, <2>1
    <2>3. pc[Head(queue)] = "waiting" /\ Head(queue) # r /\ Head(queue) \notin Deriving
      BY <1>0, <2>2 DEF InLine, Deriving
    <2>4. Deriving' = (Deriving \ {r}) \cup {Head(queue)}
      BY <1>1, <2>1, <2>2, <2>3 DEF Deriving
    <2>5. /\ IsFiniteSet(Deriving \ {r})
          /\ Cardinality(Deriving \ {r}) = Cardinality(Deriving) - 1
      BY <1>0, FS_RemoveElement
    <2>6. /\ IsFiniteSet(Deriving')
          /\ Cardinality(Deriving') = Cardinality(Deriving)
      <3>1. Head(queue) \notin Deriving \ {r}
        BY <2>3
      <3>2. /\ IsFiniteSet((Deriving \ {r}) \cup {Head(queue)})
            /\ Cardinality((Deriving \ {r}) \cup {Head(queue)})
                  = Cardinality(Deriving \ {r}) + 1
        BY <2>5, <3>1, FS_AddElement
      <3>3. QED  BY <1>0, <2>4, <2>5, <3>2
    <2>7. ASSUME NEW q \in Requests, pc'[q] = "waiting"
          PROVE  \E i \in DOMAIN queue' : queue'[i] = q
      <3>1. q # r /\ q # Head(queue) /\ pc[q] = "waiting"
        BY <1>1, <2>1, <2>2, <2>7
      <3>2. PICK i \in DOMAIN queue : queue[i] = q
        BY <3>1 DEF SlotsCounted
      <3>3. i - 1 \in DOMAIN queue' /\ (i - 1) + 1 = i
        BY <2>2, <3>1, <3>2
      <3>4. queue'[i - 1] = q
        BY <2>2, <3>2, <3>3
      <3>5. QED  BY <3>3, <3>4
    <2>8. Cardinality(Deriving) = Slots
      BY <1>3 DEF SlotsCounted
    <2>9. QED  BY <1>0, <2>6, <2>7, <2>8 DEF SlotsCounted
  <1>4. QED  BY <1>2, <1>3

LEMMA SlotsStep ==
    ASSUME TypeOK, InLine, SlotsCounted, [Next]_vars
    PROVE  SlotsCounted'
  <1>1. CASE UNCHANGED <<now, attempts>> \/ Tick
    BY <1>1, SameSlots DEF Tick, attempts
  <1>2. ASSUME NEW r \in Requests, ReadClock(r) \/ Allow(r) \/ Create(r)
        PROVE  SlotsCounted'
    <2>1. /\ UNCHANGED queue
          /\ \A q \in Requests :
                pc'[q] = pc[q] \/ {pc[q], pc'[q]} \cap {"deriving", "waiting"} = {}
      BY <1>2 DEF ReadClock, Allow, Create, Goto, TypeOK
    <2>2. QED  BY <2>1, SameSlots
  <1>3. CASE Restart
    <2>1. /\ queue' = <<>> /\ Deriving' = {}
          /\ \A q \in Requests : pc'[q] # "waiting"
      BY <1>3 DEF Restart, Deriving
    <2>2. IsFiniteSet(Deriving') /\ Cardinality(Deriving') = 0
      BY <2>1, FS_EmptySet
    <2>3. QED  BY <2>1, <2>2, WebAssumption DEF SlotsCounted
  <1>4. ASSUME NEW r \in Requests, Serve(r) PROVE SlotsCounted'
    BY <1>2, <1>4, AcquireSlots, DerivedSlots DEF Serve
  <1>5. QED  BY <1>1, <1>2, <1>3, <1>4, OtherSteps

(* No more derivations than slots, and nobody waits for a free one or is   *)
(* left out of the line: whoever ends a derivation hands its slot on.      *)
THEOREM SlotsHandedOn == Spec => []SlotsTaken
  <1>1. Init => TypeOK /\ InLine /\ SlotsCounted
    <2> SUFFICES ASSUME Init PROVE TypeOK /\ InLine /\ SlotsCounted
      OBVIOUS
    <2>1. TypeOK /\ InLine /\ Deriving = {} /\ queue = <<>>
          /\ \A q \in Requests : pc[q] # "waiting"
      BY TypeInit DEF Init, InLine, Deriving
    <2>2. IsFiniteSet(Deriving) /\ Cardinality(Deriving) = 0
      BY <2>1, FS_EmptySet
    <2>3. QED  BY <2>1, <2>2, WebAssumption DEF SlotsCounted
  <1>2. TypeOK /\ InLine /\ SlotsCounted /\ [Next]_vars
        => (TypeOK /\ InLine /\ SlotsCounted)'
    BY TypeStep, LineStep, SlotsStep
  <1>3. SlotsCounted => SlotsTaken
    <2>1. ASSUME SlotsCounted, NEW r \in Requests, pc[r] = "waiting"
          PROVE  queue # <<>>
      BY <2>1 DEF SlotsCounted
    <2>2. QED  BY <2>1 DEF SlotsCounted, SlotsTaken
  <1>4. QED  BY <1>1, <1>2, <1>3, PTL DEF Spec

-----------------------------------------------------------------------------
(* Imports. *)

Holds(p, u) == req[p].op \in {"Import", "Clear"} /\ req[p].u = u

(* What is staged or in hand was uploaded, an upload is staged in one      *)
(* session, and whoever has it in hand took it from there.                 *)
Staged ==
    /\ \A s \in Logins : imp[s] # None => imp[s] \in used
    /\ \A s, t \in Logins : imp[s] # None /\ imp[s] = imp[t] => s = t
    /\ \A p \in Procs, u \in Uploads : Holds(p, u) =>
          u \in used /\ \A s \in Logins : imp[s] = u => req[p].s = s
    /\ \A u \in Uploads \ used : imports[u] = 0

(* An upload no two commits had in hand at once is in no more than one     *)
(* pair of hands; it was not imported before that; and once it is, it      *)
(* stays staged only as long as it takes to clear it.                      *)
Once(u) ==
    /\ \A p, q \in Procs : Holds(p, u) /\ Holds(q, u) => p = q
    /\ imports[u] <= 1
    /\ \A p \in Procs : At(p, "Import") /\ req[p].u = u => imports[u] = 0
    /\ \A s \in Logins : imp[s] = u /\ imports[u] # 0 =>
          \E p \in Procs : At(p, "Clear") /\ req[p].u = u

(* Only what was imported is cleared.                                      *)
ClearsImported == \A p \in Procs : At(p, "Clear") => imports[req[p].u] > 0

Careful ==
    Staged /\ ClearsImported /\ \A u \in Uploads \ overlapped : Once(u)

LEMMA ImportStep ==
    ASSUME TypeOK, Careful, [Next]_vars
    PROVE  Careful'
  <1> USE DEF TypeOK, Careful
  <1>0. \A p \in Procs :
           /\ req[p].op \in {"Import", "Clear"} =>
                 req[p] \in [op : {"Import", "Clear"}, s : Logins, u : Uploads]
           /\ req[p].op \in {"Preview", "Commit", "Logout"} =>
                 req[p] \in [op : {"Preview", "Commit", "Logout"}, s : Logins]
    BY RequestShape
  <1>1. CASE UNCHANGED <<staging, req>>
    BY <1>1 DEF staging, Staged, Once, ClearsImported, Holds, At
  (* A request comes or ends without anything in its hands.                *)
  <1>2. ASSUME NEW p \in Procs, UNCHANGED staging, req[p].op \notin {"Import", "Clear"},
               NEW r \in Request, r.op \notin {"Import", "Clear"}, Become(p, r)
        PROVE  Careful'
    <2>1. req' = [req EXCEPT ![p] = r] /\ UNCHANGED <<imp, used, imports, overlapped>>
      BY <1>2 DEF Become, staging
    <2>2. /\ \A q \in Procs, v \in Uploads : Holds(q, v)' => Holds(q, v) /\ req'[q] = req[q]
          /\ \A q \in Procs : At(q, "Import")' => At(q, "Import") /\ req'[q] = req[q]
          /\ \A q \in Procs : At(q, "Clear")' => At(q, "Clear") /\ req'[q] = req[q]
          /\ \A q \in Procs : At(q, "Clear") => At(q, "Clear")' /\ req'[q] = req[q]
      BY <1>2, <2>1 DEF Holds, At
    <2>3. Staged'
      BY <2>1, <2>2 DEF Staged
    <2>4. ClearsImported'
      BY <2>1, <2>2 DEF ClearsImported
    <2>5. ASSUME NEW u \in Uploads \ overlapped PROVE Once(u)'
      BY <2>1, <2>2 DEF Once
    <2>6. QED  BY <2>1, <2>3, <2>4, <2>5
  <1>3. ASSUME NEW p \in Procs, importPreview(p) PROVE Careful'
    <2>1. PICK u \in Uploads \ used :
             used' = used \cup {u} /\ imp' = [imp EXCEPT ![req[p].s] = u]
      BY <1>3 DEF importPreview
    <2>2. /\ req' = [req EXCEPT ![p] = Ready] /\ UNCHANGED <<imports, overlapped>>
          /\ req[p].op = "Preview" /\ req[p].s \in Logins
      BY <1>0, <1>3 DEF importPreview, Become, At
    <2>3. /\ \A q \in Procs, v \in Uploads : Holds(q, v)' => Holds(q, v) /\ req'[q] = req[q]
          /\ \A q \in Procs : At(q, "Import")' => At(q, "Import") /\ req'[q] = req[q]
          /\ \A q \in Procs : At(q, "Clear")' => At(q, "Clear") /\ req'[q] = req[q]
          /\ \A q \in Procs : At(q, "Clear") => At(q, "Clear")' /\ req'[q] = req[q]
      BY <2>2 DEF Holds, At, Ready
    <2>4. /\ \A q \in Procs : ~Holds(q, u)
          /\ imports[u] = 0
          /\ \A s \in Logins : imp[s] # u
          /\ u # None
      BY WebAssumption DEF Staged
    <2>5. Staged'
      BY <2>1, <2>2, <2>3, <2>4 DEF Staged
    <2>6. ClearsImported'
      BY <2>2, <2>3 DEF ClearsImported
    <2>7. ASSUME NEW v \in Uploads \ overlapped PROVE Once(v)'
      BY <2>1, <2>2, <2>3, <2>4 DEF Once
    <2>8. QED  BY <2>2, <2>5, <2>6, <2>7
  <1>4. ASSUME NEW p \in Procs, ReadStaged(p) PROVE Careful'
    <2> DEFINE u == imp[req[p].s]
    <2>1. /\ u # None /\ req[p].s \in Logins /\ req[p].op = "Commit"
          /\ req' = [req EXCEPT ![p] = [op |-> "Import", s |-> req[p].s, u |-> u]]
          /\ overlapped' = IF InHand(u) THEN overlapped \cup {u} ELSE overlapped
          /\ UNCHANGED <<imp, used, imports>>
      BY <1>0, <1>4 DEF ReadStaged, IsStaged, Become, At
    <2>2. /\ \A q \in Procs, v \in Uploads :
                Holds(q, v)' => (q = p /\ v = u) \/ (q # p /\ Holds(q, v) /\ req'[q] = req[q])
          /\ \A q \in Procs : At(q, "Import")' =>
                q = p \/ (At(q, "Import") /\ req'[q] = req[q])
          /\ \A q \in Procs : At(q, "Clear")' => At(q, "Clear") /\ req'[q] = req[q]
          /\ \A q \in Procs : At(q, "Clear") => At(q, "Clear")' /\ req'[q] = req[q]
      BY <2>1 DEF Holds, At
    <2>3. u \in used /\ u \in Uploads
      BY <2>1 DEF Staged
    <2>4. Staged'
      <3>1. \A q \in Procs, v \in Uploads : Holds(q, v)' =>
               v \in used' /\ \A s \in Logins : imp'[s] = v => req'[q].s = s
        BY <2>1, <2>2, <2>3 DEF Staged
      <3>2. QED  BY <2>1, <3>1 DEF Staged
    <2>5. ClearsImported'
      BY <2>1, <2>2 DEF ClearsImported
    <2>6. ASSUME NEW v \in Uploads \ overlapped' PROVE Once(v)'
      <3>1. v \in Uploads \ overlapped /\ Once(v)
        BY <2>1
      <3>2. CASE v # u
        BY <2>1, <2>2, <3>1, <3>2 DEF Once
      <3>3. CASE v = u
        <4>1. ~InHand(u)
          BY <2>1, <2>3, <3>3
        <4>2. \A q \in Procs : ~Holds(q, u) /\ ~(At(q, "Clear") /\ req[q].u = u)
          BY <4>1 DEF InHand, Holds, At
        <4>3. imports[u] = 0
          BY <2>1, <3>1, <3>3, <4>2 DEF Once
        <4>4. QED  BY <2>1, <2>2, <3>3, <4>2, <4>3 DEF Once
      <3>4. QED  BY <3>2, <3>3
    <2>7. QED  BY <2>4, <2>5, <2>6
  <1>5. ASSUME NEW p \in Procs, CommitImport(p) PROVE Careful'
    <2>1. /\ req[p] \in [op : {"Import", "Clear"}, s : Logins, u : Uploads]
          /\ req[p].op = "Import"
          /\ UNCHANGED <<imp, used, overlapped>>
      BY <1>0, <1>5 DEF CommitImport, At
    <2>2. CASE Failed(p) /\ UNCHANGED imports
      <3>1. req' = [req EXCEPT ![p] = Ready]
        BY <2>2 DEF Failed, Become
      <3>2. /\ \A q \in Procs, v \in Uploads : Holds(q, v)' => Holds(q, v) /\ req'[q] = req[q]
            /\ \A q \in Procs : At(q, "Import")' => At(q, "Import") /\ req'[q] = req[q]
            /\ \A q \in Procs : At(q, "Clear")' => At(q, "Clear") /\ req'[q] = req[q]
            /\ \A q \in Procs : At(q, "Clear") => At(q, "Clear")' /\ req'[q] = req[q]
        BY <2>1, <3>1 DEF Holds, At, Ready
      <3>3. Staged' /\ ClearsImported'
        BY <2>1, <2>2, <3>2 DEF Staged, ClearsImported
      <3>4. ASSUME NEW v \in Uploads \ overlapped PROVE Once(v)'
        BY <2>1, <2>2, <3>2 DEF Once
      <3>5. QED  BY <2>1, <3>3, <3>4
    <2>3. CASE /\ imports' = [imports EXCEPT ![req[p].u] = @ + 1]
               /\ Become(p, [req[p] EXCEPT !.op = "Clear"])
      <3> DEFINE u == req[p].u
      <3>1. /\ u \in Uploads /\ u \in used /\ Holds(p, u)
            /\ imports[u] \in Nat /\ imports'[u] = imports[u] + 1
            /\ \A v \in Uploads : v # u => imports'[v] = imports[v]
        BY <2>1, <2>3 DEF Staged, Holds
      <3>2. /\ req'[p].op = "Clear" /\ req'[p].u = u /\ req'[p].s = req[p].s
            /\ \A q \in Procs : q # p => req'[q] = req[q]
        BY <2>1, <2>3 DEF Become
      <3>3. /\ \A q \in Procs, v \in Uploads : Holds(q, v)' => Holds(q, v) /\ req'[q].s = req[q].s
            /\ \A q \in Procs : At(q, "Import")' => q # p /\ At(q, "Import") /\ req'[q] = req[q]
            /\ \A q \in Procs : At(q, "Clear")' => q = p \/ (At(q, "Clear") /\ req'[q] = req[q])
            /\ \A q \in Procs : At(q, "Clear") => At(q, "Clear")' /\ req'[q] = req[q]
            /\ At(p, "Clear")'
        BY <2>1, <3>2 DEF Holds, At
      <3>4. Staged'
        BY <2>1, <3>1, <3>3 DEF Staged
      <3>5. ClearsImported'
        <4>1. ASSUME NEW q \in Procs, At(q, "Clear")' PROVE imports'[req'[q].u] > 0
          <5>1. CASE q = p
            BY <3>1, <3>2, <5>1
          <5>2. CASE q # p
            <6>1. At(q, "Clear") /\ req'[q] = req[q]
              BY <3>3, <4>1, <5>2
            <6>2. req[q].u \in Uploads /\ imports[req[q].u] > 0
              BY <1>0, <6>1 DEF ClearsImported, At
            <6>3. QED  BY <3>1, <6>1, <6>2
          <5>3. QED  BY <5>1, <5>2
        <4>2. QED  BY <4>1 DEF ClearsImported
      <3>6. ASSUME NEW v \in Uploads \ overlapped PROVE Once(v)'
        <4>1. Once(v)
          OBVIOUS
        <4>2. CASE v # u
          <5>1. imports'[v] = imports[v]
            BY <3>1, <4>2
          <5>2. \A s \in Logins : imp'[s] = imp[s]
            BY <2>1
          <5>3. /\ \A q1, q2 \in Procs : Holds(q1, v)' /\ Holds(q2, v)' => q1 = q2
                /\ imports[v] <= 1
                /\ \A q \in Procs : At(q, "Import")' /\ req'[q].u = v => imports[v] = 0
            BY <3>3, <4>1 DEF Once
          <5>4. ASSUME NEW s \in Logins, imp[s] = v, imports[v] # 0
                PROVE  \E q \in Procs : At(q, "Clear")' /\ req'[q].u = v
            BY <3>3, <4>1, <5>4 DEF Once
          <5>5. QED  BY <5>1, <5>2, <5>3, <5>4 DEF Once
        <4>3. CASE v = u
          <5>1. imports'[u] = 1
            BY <2>1, <3>1, <4>1, <4>3 DEF Once, At
          <5>2. \A q \in Procs : At(q, "Import")' => req'[q].u # u
            BY <3>1, <3>3, <4>1, <4>3 DEF Once, Holds, At
          <5>3. QED  BY <3>2, <3>3, <4>1, <4>3, <5>1, <5>2 DEF Once
        <4>4. QED  BY <4>2, <4>3
      <3>7. QED  BY <2>1, <3>4, <3>5, <3>6
    <2>4. QED  BY <1>5, <2>2, <2>3 DEF CommitImport
  <1>6. ASSUME NEW p \in Procs, Clear(p) PROVE Careful'
    <2>1. /\ req[p] \in [op : {"Import", "Clear"}, s : Logins, u : Uploads]
          /\ req[p].op = "Clear"
          /\ imp' = [imp EXCEPT ![req[p].s] = None]
          /\ req' = [req EXCEPT ![p] = Ready]
          /\ UNCHANGED <<used, imports, overlapped>>
      BY <1>0, <1>6 DEF Clear, SetImportNil, Become, At
    <2>2. /\ \A q \in Procs, v \in Uploads : Holds(q, v)' => Holds(q, v) /\ req'[q] = req[q]
          /\ \A q \in Procs : At(q, "Import")' => At(q, "Import") /\ req'[q] = req[q]
          /\ \A q \in Procs : At(q, "Clear")' => At(q, "Clear") /\ req'[q] = req[q]
          /\ \A q \in Procs : q # p /\ At(q, "Clear") => At(q, "Clear")' /\ req'[q] = req[q]
          /\ Holds(p, req[p].u)
      BY <2>1 DEF Holds, At, Ready
    <2>3. \A s \in Logins : imp'[s] # None => imp'[s] = imp[s] /\ s # req[p].s
      BY <2>1
    <2>4. \A v \in Uploads : v # None
      BY WebAssumption
    <2>5. Staged'
      BY <2>1, <2>2, <2>3, <2>4 DEF Staged
    <2>6. ClearsImported'
      BY <2>1, <2>2 DEF ClearsImported
    <2>7. ASSUME NEW v \in Uploads \ overlapped PROVE Once(v)'
      <3>1. Once(v)
        OBVIOUS
      <3>2. ASSUME NEW s \in Logins, imp'[s] = v, imports[v] # 0
            PROVE  \E q \in Procs : At(q, "Clear")' /\ req'[q].u = v
        <4>1. imp[s] = v /\ s # req[p].s
          BY <2>3, <2>4, <3>2
        <4>2. PICK q \in Procs : At(q, "Clear") /\ req[q].u = v
          BY <3>1, <3>2, <4>1 DEF Once
        <4>3. q # p
          BY <2>2, <4>1, <4>2 DEF Staged
        <4>4. QED  BY <2>2, <4>2, <4>3
      <3>3. QED  BY <2>1, <2>2, <3>1, <3>2 DEF Once
    <2>8. QED  BY <2>1, <2>5, <2>6, <2>7
  <1>7. CASE Restart
    <2>1. /\ imp' = [s \in Logins |-> None] /\ req' = [q \in Procs |-> Ready]
          /\ UNCHANGED <<used, imports, overlapped>>
      BY <1>7 DEF Restart
    <2>2. /\ \A q \in Procs, v \in Uploads : ~Holds(q, v)'
          /\ \A q \in Procs : ~At(q, "Import")' /\ ~At(q, "Clear")'
      BY <2>1 DEF Holds, At, Ready
    <2>3. \A v \in Uploads : v # None
      BY WebAssumption
    <2>4. QED  BY <2>1, <2>2, <2>3 DEF Staged, ClearsImported, Once
  <1>8. ASSUME NEW p \in Procs, Private(p) PROVE Careful'
    <2>1. ASSUME NEW s \in Logins, NEW op \in Operations, Get(p, s, op) PROVE Careful'
      <3>1. CASE Refuse(s)
        BY <1>1, <3>1 DEF Refuse, staging
      <3>2. CASE Enter(p, s, op)
        <4>1. (IF op = "Page" THEN Ready ELSE [op |-> op, s |-> s]) \in Request
          BY DEF Request, Operations
        <4>2. (IF op = "Page" THEN Ready ELSE [op |-> op, s |-> s]).op \notin {"Import", "Clear"}
          BY DEF Operations, Ready
        <4>3. req[p].op \notin {"Import", "Clear"}
          BY <2>1 DEF Get, Ready
        <4>4. QED  BY <1>2, <3>2, <4>1, <4>2, <4>3 DEF Enter
      <3>3. QED  BY <2>1, <3>1, <3>2 DEF Get
    <2>2. CASE logout(p) \/ Nothing(p)
      <3>1. /\ req[p].op \notin {"Import", "Clear"} /\ UNCHANGED staging
            /\ Become(p, Ready)
        BY <2>2 DEF logout, Nothing, At
      <3>2. QED  BY <1>2, <3>1, ReadyTyped DEF Ready
    <2>3. QED  BY <1>3, <1>4, <1>5, <1>6, <1>8, <2>1, <2>2 DEF Private
  <1>9. QED
    <2>1. ASSUME NEW r \in Requests, SignIn(r) PROVE UNCHANGED <<staging, req>>
      BY <2>1 DEF SignIn, Serve, ReadClock, Allow, Acquire, Derived, Create
    <2>2. Tick => UNCHANGED <<staging, req>>
      BY DEF Tick
    <2>3. QED  BY <1>1, <1>7, <1>8, <2>1, <2>2 DEF Next, vars

LEMMA CarefulInit == Init => Careful
  BY DEF Init, Careful, Staged, ClearsImported, Once, Holds, At, Ready

(* A file is imported at most once unless two commits had it in hand at    *)
(* the same time: once it is imported it is either cleared already, or     *)
(* still in the hands that imported it.                                    *)
THEOREM NoDoubleImport == Spec => []ImportedOnce
  <1>1. TypeOK /\ Careful /\ [Next]_vars => (TypeOK /\ Careful)'
    BY TypeStep, ImportStep
  <1>2. Careful => ImportedOnce
    BY DEF Careful, Once, ImportedOnce
  <1>3. QED  BY TypeInit, CarefulInit, <1>1, <1>2, PTL DEF Spec

(* A failed import can be tried again: only the commit that imported what  *)
(* is staged, or one that had read an earlier file, clears it.             *)
THEOREM FailureKeepsFile == Spec => KeptUntilImported
  <1> DEFINE Kept1 ==
        \A s \in Logins :
          imp[s] # None /\ imp'[s] = None /\ ~Restart
              => \/ imports[imp[s]] > 0
                 \/ \E p \in Procs : /\ At(p, "Clear")
                                     /\ req[p].s = s /\ req[p].u # imp[s]
  <1>1. TypeOK /\ Careful /\ [Next]_vars => (TypeOK /\ Careful)'
    BY TypeStep, ImportStep
  <1>2. TypeOK /\ Careful /\ [Next]_vars => [Kept1]_vars
    <2> SUFFICES ASSUME TypeOK, Careful, [Next]_vars, NEW s \in Logins,
                        imp[s] # None, imp'[s] = None, ~Restart
                 PROVE  \/ imports[imp[s]] > 0
                        \/ \E p \in Procs : /\ At(p, "Clear")
                                            /\ req[p].s = s /\ req[p].u # imp[s]
      OBVIOUS
    <2>1. imp' # imp
      OBVIOUS
    <2>2. ASSUME NEW p \in Procs, Private(p) PROVE Clear(p) \/ importPreview(p)
      BY <2>1, <2>2 DEF Private, Get, Enter, Refuse, logout, Nothing, ReadStaged,
                        CommitImport, staging
    <2>3. PICK p \in Procs : Clear(p) \/ importPreview(p)
      BY <2>1, <2>2 DEF Next, SignIn, Serve, ReadClock, Allow, Acquire, Derived,
                        Create, Tick, staging, vars
    <2>4. CASE importPreview(p)
      BY <2>4, WebAssumption DEF importPreview, TypeOK
    <2>5. CASE Clear(p)
      <3>1. At(p, "Clear") /\ req[p].s = s
        BY <2>5 DEF Clear, SetImportNil, TypeOK
      <3>2. imports[req[p].u] > 0
        BY <3>1 DEF Careful, ClearsImported
      <3>3. QED  BY <3>1, <3>2
    <2>6. QED  BY <2>3, <2>4, <2>5
  <1>3. QED
    BY TypeInit, CarefulInit, <1>1, <1>2, PTL DEF Spec, KeptUntilImported
=============================================================================
