-------------------------------- MODULE Web ---------------------------------
(***************************************************************************)
(* What the web server keeps in memory: the log of sign-in attempts and    *)
(* the slots for key derivations (internal/web/auth.go), the sessions      *)
(* (session.go, server.go), and the CSV file that is staged in a session   *)
(* until it is imported (importcsv.go).                                    *)
(*                                                                         *)
(* A sign-in request is an element of Logins or Recoveries and arrives     *)
(* once; the session a login creates is named by it.  Requests that need a *)
(* session are served by Procs, any number of times.  Time is a number,    *)
(* and a request may be held up for Lag between reading the clock and      *)
(* taking the lock behind which the reading is used.                       *)
(*                                                                         *)
(* Left out: the hourly pull (see Sync), flash messages and CSRF tokens.   *)
(***************************************************************************)
EXTENDS Integers, Sequences, FiniteSets

CONSTANTS
    Logins,         \* submissions of the sign-in form
    Recoveries,     \* submissions of the recovery form
    Procs,          \* goroutines that serve requests with a session
    Uploads,        \* files previewed, each its own value in memory
    Mixes,          \* which of these clients take part in a behaviour
    Cap,            \* attempts accepted in a minute
    Slots,          \* derivations at the same time
    Minute,         \* the window of the limit
    Lag,            \* the longest wait for a lock
    Idle,           \* a session ends when it is not used for longer
    Absolute,       \* and when it is older
    MaxTime,        \* bound on the clock
    Never,          \* no time
    None            \* no upload

Requests == Logins \cup Recoveries
Times == 0 .. MaxTime

ASSUME WebAssumption ==
    /\ Mixes # {}
    /\ Cap \in Nat \ {0} /\ Slots \in Nat \ {0}
    /\ Minute \in Nat /\ Lag \in Nat /\ Lag < Minute
    /\ Idle \in Nat /\ Absolute \in Nat
    /\ MaxTime \in Nat
    /\ Never \notin Int
    /\ None \notin Uploads

VARIABLES
    clients,    \* the requests and goroutines of this behaviour
    now,        \* the clock
    pc,         \* pc[r]: where sign-in request r is
    stamp,      \* stamp[r]: the clock as r read it
    at,         \* at[r]: auxiliary, when r was accepted by this process
    authLog,    \* the attempts in the log, by request
    queue,      \* requests blocked on the semaphore, first come first served
    live,       \* the keys of the session map
    created,    \* CreatedAt by session
    seen,       \* LastSeen by session
    imp,        \* the staged import by session
    over,       \* auxiliary: sessions that were refused or signed out
    req,        \* req[p]: what goroutine p is in the middle of
    used,       \* auxiliary: uploads previewed so far
    imports,    \* imports[u]: how often u was entered into the ledger
    overlapped  \* auxiliary: uploads two commits had in hand at once

attempts == <<pc, stamp, at, authLog, queue>>
sessions == <<live, created, seen, over>>
staging == <<imp, used, imports, overlapped>>
vars == <<clients, now, attempts, sessions, staging, req>>

-----------------------------------------------------------------------------
Ready == [op |-> "ready"]
Request ==
    {Ready}
    \cup [op : {"Preview", "Commit", "Logout"}, s : Logins]
    \cup [op : {"Import", "Clear"}, s : Logins, u : Uploads]

At(p, op) == req[p].op = op
Become(p, r) == req' = [req EXCEPT ![p] = r]
Goto(r, label) == pc' = [pc EXCEPT ![r] = label]

Init ==
    /\ clients \in Mixes
    /\ now = 0
    /\ pc = [r \in Requests |-> "new"]
    /\ stamp = [r \in Requests |-> Never]
    /\ at = [r \in Requests |-> Never]
    /\ authLog = {}
    /\ queue = <<>>
    /\ live = {}
    /\ created = [s \in Logins |-> Never]
    /\ seen = [s \in Logins |-> Never]
    /\ imp = [s \in Logins |-> None]
    /\ over = {}
    /\ req = [p \in Procs |-> Ready]
    /\ used = {}
    /\ imports = [u \in Uploads |-> 0]
    /\ overlapped = {}

-----------------------------------------------------------------------------
(* Sign-in attempts. *)

(* allowAuthAttempt reads the clock before it takes the lock. *)
ReadClock(r) ==
    /\ r \in clients
    /\ pc[r] = "new"
    /\ Goto(r, "timed")
    /\ stamp' = [stamp EXCEPT ![r] = now]
    /\ UNCHANGED <<clients, now, at, authLog, queue, sessions, staging, req>>

(* What the log keeps for an attempt that read the clock at t. *)
Kept(t) == {r \in authLog : stamp[r] > t - Minute}

OneTooMany(log) == Cardinality(log) > Cap       \* mutant: off by one
Full(log) == Cardinality(log) >= Cap

Allow(r) ==
    /\ pc[r] = "timed"
    /\ IF Full(Kept(stamp[r]))
       THEN /\ authLog' = Kept(stamp[r])
            /\ Goto(r, "done")
            /\ UNCHANGED at
       ELSE /\ authLog' = Kept(stamp[r]) \cup {r}
            /\ Goto(r, "allowed")
            /\ at' = [at EXCEPT ![r] = now]
    /\ UNCHANGED <<clients, now, stamp, queue, sessions, staging, req>>

Deriving == {r \in Requests : pc[r] = "deriving"}

OneSlotMore == Cardinality(Deriving) <= Slots   \* mutant: off by one
FreeSlot == Cardinality(Deriving) < Slots

(* withKDF: take a slot, or wait for one behind the others. *)
Acquire(r) ==
    /\ pc[r] = "allowed"
    /\ IF FreeSlot
       THEN /\ Goto(r, "deriving")
            /\ UNCHANGED queue
       ELSE /\ Goto(r, "waiting")
            /\ queue' = Append(queue, r)
    /\ UNCHANGED <<clients, now, stamp, at, authLog, sessions, staging, req>>

(* The derivation ends, and the slot goes to the first that waits.  A      *)
(* login whose password was right goes on to its session.                  *)
After(r, known) ==
    [pc EXCEPT ![r] = IF known /\ r \in Logins THEN "known" ELSE "done"]

NotWoken(r, known) == After(r, known)  \* mutant: the slot is not passed on
Released(r, known) ==
    IF queue = <<>> THEN After(r, known)
    ELSE [After(r, known) EXCEPT ![Head(queue)] = "deriving"]

Derived(r, known) ==
    /\ pc[r] = "deriving"
    /\ pc' = Released(r, known)
    /\ queue' = IF queue = <<>> THEN <<>> ELSE Tail(queue)
    /\ UNCHANGED <<clients, now, stamp, at, authLog, sessions, staging, req>>

(* SessionStore.Create, under a new random id. *)
Create(r) ==
    /\ r \in Logins
    /\ pc[r] = "known"
    /\ Goto(r, "done")
    /\ live' = live \cup {r}
    /\ created' = [created EXCEPT ![r] = now]
    /\ seen' = [seen EXCEPT ![r] = now]
    /\ UNCHANGED <<clients, now, stamp, at, authLog, queue, over, staging, req>>

-----------------------------------------------------------------------------
(* Requests with a session. *)

Fresh(s) == now - seen[s] <= Idle /\ now - created[s] <= Absolute

(* SessionStore.Get, on behalf of requireSession. *)
Enter(p, s, op) ==
    /\ s \in live
    /\ Fresh(s)
    /\ seen' = [seen EXCEPT ![s] = now]
    /\ Become(p, IF op = "Page" THEN Ready ELSE [op |-> op, s |-> s])
    /\ UNCHANGED <<clients, now, attempts, live, created, over, staging>>

TouchFirst(s) ==                       \* mutant: touched, and not deleted
    seen' = [seen EXCEPT ![s] = now] /\ UNCHANGED live
Drop(s) == live' = live \ {s} /\ UNCHANGED seen

Refuse(s) ==
    /\ s \in live
    /\ ~Fresh(s)
    /\ Drop(s)
    /\ over' = over \cup {s}
    /\ UNCHANGED <<clients, now, attempts, created, staging, req>>

Get(p, s, op) ==
    /\ p \in clients
    /\ req[p] = Ready
    /\ Enter(p, s, op) \/ Refuse(s)

logout(p) ==
    /\ At(p, "Logout")
    /\ live' = live \ {req[p].s}
    /\ over' = over \cup {req[p].s}
    /\ Become(p, Ready)
    /\ UNCHANGED <<clients, now, attempts, created, seen, staging>>

-----------------------------------------------------------------------------
(* Importing a file. *)

(* The preview replaces whatever was staged before. *)
importPreview(p) ==
    /\ At(p, "Preview")
    /\ \E u \in Uploads \ used :
          /\ used' = used \cup {u}
          /\ imp' = [imp EXCEPT ![req[p].s] = u]
    /\ Become(p, Ready)
    /\ UNCHANGED <<clients, now, attempts, sessions, imports, overlapped>>

(* A file that cannot be read, nothing staged, or a page that was left. *)
Nothing(p) ==
    /\ \/ At(p, "Preview")
       \/ At(p, "Commit") /\ imp[req[p].s] = None
    /\ Become(p, Ready)
    /\ UNCHANGED <<clients, now, attempts, sessions, staging>>

InHand(u) == \E q \in Procs : req[q].op \in {"Import", "Clear"} /\ req[q].u = u

NilTaken(u) == TRUE                    \* mutant: nothing staged is imported
IsStaged(u) == u # None

(* importCommit: the staged preview is read, ... *)
ReadStaged(p) ==
    /\ At(p, "Commit")
    /\ LET u == imp[req[p].s] IN
          /\ IsStaged(u)
          /\ Become(p, [op |-> "Import", s |-> req[p].s, u |-> u])
          /\ overlapped' = IF InHand(u) THEN overlapped \cup {u} ELSE overlapped
    /\ UNCHANGED <<clients, now, attempts, sessions, imp, used, imports>>

(* ... all its rows are entered in one closure, or none of them, ... *)
ClearedOnFailure(p) == Become(p, [req[p] EXCEPT !.op = "Clear"])   \* mutant
Failed(p) == Become(p, Ready)

CommitImport(p) ==
    /\ At(p, "Import")
    /\ \/ /\ imports' = [imports EXCEPT ![req[p].u] = @ + 1]
          /\ Become(p, [req[p] EXCEPT !.op = "Clear"])
       \/ Failed(p) /\ UNCHANGED imports
    /\ UNCHANGED <<clients, now, attempts, sessions, imp, used, overlapped>>

(* ... and whatever is staged by then is cleared. *)
LeftStaged(s) == UNCHANGED imp         \* mutant: it stays there
SetImportNil(s) == imp' = [imp EXCEPT ![s] = None]

Clear(p) ==
    /\ At(p, "Clear")
    /\ SetImportNil(req[p].s)
    /\ Become(p, Ready)
    /\ UNCHANGED <<clients, now, attempts, sessions, used, imports, overlapped>>

-----------------------------------------------------------------------------
Tick ==
    /\ now < MaxTime
    /\ \A r \in Requests : pc[r] = "timed" => now < stamp[r] + Lag
    /\ now' = now + 1
    /\ UNCHANGED <<clients, attempts, sessions, staging, req>>

(* The process is restarted: New makes an empty log and no session, and    *)
(* requests that were being served are gone.                               *)
Restart ==
    /\ pc' = [r \in Requests |-> IF pc[r] = "new" THEN "new" ELSE "done"]
    /\ at' = [r \in Requests |-> Never]
    /\ authLog' = {}
    /\ queue' = <<>>
    /\ live' = {}
    /\ imp' = [s \in Logins |-> None]
    /\ req' = [p \in Procs |-> Ready]
    /\ UNCHANGED <<clients, now, stamp, created, seen, over, used, imports, overlapped>>

Serve(r) == Acquire(r) \/ (\E known \in BOOLEAN : Derived(r, known)) \/ Create(r)

SignIn(r) == ReadClock(r) \/ Allow(r) \/ Serve(r)

Operations == {"Page", "Preview", "Commit", "Logout"}

Private(p) ==
    \/ \E s \in Logins, op \in Operations : Get(p, s, op)
    \/ logout(p)
    \/ importPreview(p) \/ Nothing(p)
    \/ ReadStaged(p) \/ CommitImport(p) \/ Clear(p)

Next ==
    \/ \E r \in Requests : SignIn(r)
    \/ \E p \in Procs : Private(p)
    \/ Tick
    \/ Restart

Spec == Init /\ [][Next]_vars

(* Goroutines are scheduled, and a derivation ends. *)
FairSpec == Spec /\ \A r \in Requests : WF_vars(Serve(r))

-----------------------------------------------------------------------------
Labels == {"new", "timed", "allowed", "waiting", "deriving", "known", "done"}

TypeOK ==
    /\ clients \in Mixes
    /\ now \in Times
    /\ pc \in [Requests -> Labels]
    /\ stamp \in [Requests -> Times \cup {Never}]
    /\ at \in [Requests -> Times \cup {Never}]
    /\ authLog \subseteq Requests
    /\ queue \in Seq(Requests)
    /\ live \subseteq Logins /\ over \subseteq Logins
    /\ created \in [Logins -> Times \cup {Never}]
    /\ seen \in [Logins -> Times \cup {Never}]
    /\ imp \in [Logins -> Uploads \cup {None}]
    /\ req \in [Procs -> Request]
    /\ used \subseteq Uploads /\ overlapped \subseteq Uploads
    /\ imports \in [Uploads -> Nat]

(* auth.go, allowAuthAttempt: at most Cap attempts are accepted in a       *)
(* rolling minute, less the time a request may spend between reading the   *)
(* clock and taking the lock: readings enter the log out of order, and an  *)
(* older one is dropped from it early.                                     *)
Recent == {r \in Requests : at[r] # Never /\ at[r] > now - (Minute - Lag)}
RollingBound == Cardinality(Recent) <= Cap

(* auth.go, withKDF, "capping how many Argon2 derivations can run at once. *)
(* It blocks rather than rejecting": no more than Slots run, whoever waits *)
(* is in line, and nobody waits while a slot is free, whichever requests   *)
(* end, and in whichever order.                                            *)
SlotsTaken ==
    /\ Cardinality(Deriving) <= Slots
    /\ \A r \in Requests : pc[r] = "waiting" =>
          /\ Cardinality(Deriving) = Slots
          /\ \E i \in DOMAIN queue : queue[i] = r

(* auth.go, withKDF: an attempt that was accepted is answered, however     *)
(* many wait for a slot and whatever becomes of those before it.           *)
Answered == \A r \in Requests : pc[r] = "allowed" ~> pc[r] = "done"

(* session.go: a session that was refused once or signed out does not come *)
(* back, whatever requests of it were still being served.                  *)
StaysOut == \A s \in over : ~(s \in live /\ Fresh(s))

(* web/importcsv.go: a file is entered into the ledger at most once, with  *)
(* retries, sign-outs and restarts, as long as no two commits of it were   *)
(* being served at the same time.                                          *)
ImportedOnce == \A u \in Uploads \ overlapped : imports[u] <= 1

(* web/importcsv.go: an import that failed can be tried again: what was    *)
(* previewed stays until it is imported, another file is previewed, the    *)
(* process is restarted, or the import of an earlier file comes to its end.*)
KeptUntilImported ==
    [][\A s \in Logins :
          imp[s] # None /\ imp'[s] = None /\ ~Restart
              => \/ imports[imp[s]] > 0
                 \/ \E p \in Procs : /\ At(p, "Clear")
                                     /\ req[p].s = s /\ req[p].u # imp[s]]_vars
=============================================================================
