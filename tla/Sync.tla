-------------------------------- MODULE Sync --------------------------------
(***************************************************************************)
(* The pulls of one member: Sync, LinkSimpleFIN and SetSyncStart of        *)
(* internal/service/sync.go, the hourly claim of a web session that starts *)
(* them (web/session.go, web/inbox.go), and what the SimpleFIN bridge      *)
(* answers.  Inbox models what a pull does with the transactions it got;   *)
(* this module is about which transactions it gets.                        *)
(*                                                                         *)
(* A pull reads the credential, the last success and the stored ids in     *)
(* separate statements, calls the bank in between, and writes in one       *)
(* closure; other requests run in between, days pass, and a request may    *)
(* end after any step.  Time is in days.  The bridge reports a transaction *)
(* late (it is still pending, or its institution does not answer and the   *)
(* answer's error list says so), but no later than MaxLag days after the   *)
(* day it is posted on.  It may also report one that a pull cannot store,  *)
(* until it corrects it.                                                   *)
(***************************************************************************)
EXTENDS Integers

CONSTANTS
    Txs,            \* the member's transactions
    Posted,         \* Posted[t]: the day the bank dates t on
    MaxLag,         \* days until the bridge reports a transaction for sure
    BadAmount,      \* transactions whose amount ParseCents refuses
    Twice,          \* transactions listed under two accounts of one answer
    FirstPull,      \* firstPullDays
    Overlap,        \* overlapDays
    FirstDay,       \* the day the model starts on
    MaxDay,         \* bound on the clock
    StartDates,     \* the start dates a member may choose
    Sessions,       \* web sessions of the member
    Procs,          \* request handlers running at the same time
    NotLinked,      \* no row in credentials
    NoDate,         \* a credential without a start date
    Never           \* no row in sync_state

Days == FirstDay .. MaxDay
Rules == {"first", "overlap", "chosen"}

ASSUME SyncAssumption ==
    /\ Posted \in [Txs -> Int]
    /\ MaxLag \in Nat
    /\ Overlap \in Nat
    /\ FirstPull \in Nat
    /\ FirstDay \in Int /\ MaxDay \in Int /\ FirstDay <= MaxDay
    /\ BadAmount \subseteq Txs /\ Twice \subseteq Txs
    /\ StartDates \subseteq Int
    /\ NoDate \notin StartDates
    /\ NotLinked \notin StartDates \cup {NoDate}
    /\ Never \notin Int

(* What the overlap is for: a transaction that settles later than that     *)
(* after its date is never fetched.                                        *)
LagWithinOverlap == MaxLag <= Overlap

VARIABLES
    day,        \* the clock
    due,        \* sessions whose last pull was claimed over an hour ago
    cred,       \* the start date in the sealed credential
    last,       \* sync_state.last_success_at
    stored,     \* transactions by id hash
    wrong,      \* BadAmount and Twice, as long as the bank has not corrected
    floor,      \* auxiliary: nothing older than this was asked of the bank
    req         \* req[p]: what handler p is in the middle of

vars == <<day, due, cred, last, stored, wrong, floor, req>>

-----------------------------------------------------------------------------
Idle == [op |-> "idle"]

Request ==
    {Idle}
    \cup [op : {"Credential"}]
    \cup [op : {"Window"}, from : StartDates \cup {NoDate}, since : Days]
    \cup [op : {"Fetch"}, rule : Rules, start : Int, now : Days]
    \cup [op : {"Compare"}, rule : Rules, start : Int, now : Days,
          got : SUBSET Txs, twice : SUBSET Txs]
    \cup [op : {"Store"}, rule : Rules, start : Int, now : Days,
          fresh : SUBSET Txs, twice : SUBSET Txs]

At(p, op) == req[p].op = op
Become(p, r) == req' = [req EXCEPT ![p] = r]

Init ==
    /\ day = FirstDay
    /\ due = Sessions
    /\ cred = NotLinked
    /\ last = Never
    /\ stored = {}
    /\ wrong = BadAmount \cup Twice
    /\ floor = Never
    /\ req = [p \in Procs |-> Idle]

-----------------------------------------------------------------------------
(* The web layer. *)

(* Mutant: a session pulls whether a bank is linked or not. *)
VisitUnlinked(p, s) ==
    /\ req[p] = Idle
    /\ s \in due
    /\ due' = due \ {s}
    /\ Become(p, [op |-> "Credential"])
    /\ UNCHANGED <<day, cred, last, stored, wrong, floor>>

(* A page load or "sync now" of a session that is due: ShouldSync stamps   *)
(* the session before it is known whether there is anything to pull from.  *)
Visit(p, s) ==
    /\ req[p] = Idle
    /\ s \in due
    /\ due' = due \ {s}
    /\ IF cred = NotLinked
       THEN UNCHANGED req
       ELSE Become(p, [op |-> "Credential"])
    /\ UNCHANGED <<day, cred, last, stored, wrong, floor>>

(* An hour has passed since the stamp, or a new session starts. *)
BecomeDue(s) ==
    /\ s \notin due
    /\ due' = due \cup {s}
    /\ UNCHANGED <<day, cred, last, stored, wrong, floor, req>>

Tick ==
    /\ day < MaxDay
    /\ day' = day + 1
    /\ UNCHANGED <<due, cred, last, stored, wrong, floor, req>>

-----------------------------------------------------------------------------
(* The credential. *)

(* LinkSimpleFIN: the setup token is claimed, a new credential replaces    *)
(* the old one and its start date, last_success_at stays, and a first pull *)
(* follows.  A link that fails before it saves spends the token and leaves *)
(* no trace here.  MarkSynced stamps the session when that pull succeeds;  *)
(* as an hour may pass at any time (BecomeDue), it is the same to stamp it *)
(* here.                                                                   *)
Link(p, s) ==
    /\ req[p] = Idle
    /\ cred' = NoDate
    /\ due' = due \ {s}
    /\ Become(p, [op |-> "Credential"])
    /\ UNCHANGED <<day, last, stored, wrong, floor>>

(* SetSyncStart reads the credential only for its access URL. *)
SetStart(d) ==
    /\ cred # NotLinked
    /\ cred' = d
    /\ UNCHANGED <<day, due, last, stored, wrong, floor, req>>

-----------------------------------------------------------------------------
(* Sync. *)

ReadCredential(p) ==
    /\ At(p, "Credential")
    /\ Become(p, [op |-> "Window", from |-> cred, since |-> day])
    /\ UNCHANGED <<day, due, cred, last, stored, wrong, floor>>

(* Where the window starts, and what decided it: 90 days back at first,    *)
(* then a week before the last success, unless the start date is later.    *)
NoOverlap(now) ==                      \* mutant: starts at the last success
    IF last = Never THEN now - FirstPull ELSE last
Default(now) == IF last = Never THEN now - FirstPull ELSE last - Overlap

Window(from, now) ==
    IF from # NoDate /\ from > Default(now)
    THEN [rule |-> "chosen", start |-> from]
    ELSE [rule |-> IF last = Never THEN "first" ELSE "overlap",
          start |-> Default(now)]

(* now is taken after the credential was read and before the last success. *)
ReadWindow(p) ==
    /\ At(p, "Window")
    /\ \E now \in req[p].since .. day :
          LET w == Window(req[p].from, now)
          IN Become(p, [op |-> "Fetch", rule |-> w.rule, start |-> w.start, now |-> now])
    /\ UNCHANGED <<day, due, cred, last, stored, wrong, floor>>

(* What the bridge answers to a window: everything in it that it must have *)
(* by now, and any of the rest.                                            *)
InWindow(start, now) == {t \in Txs : start <= Posted[t] /\ Posted[t] <= now}
Reported(start, now) ==
    {got \in SUBSET InWindow(start, now) :
        \A t \in InWindow(start, now) :
            Posted[t] + MaxLag <= day => t \in got}

Fetch(p) ==
    /\ At(p, "Fetch")
    /\ \E got \in Reported(req[p].start, req[p].now) :
          /\ got \cap BadAmount \cap wrong = {}
          /\ Become(p, [op |-> "Compare", rule |-> req[p].rule, start |-> req[p].start,
                        now |-> req[p].now, got |-> got,
                        twice |-> got \cap Twice \cap wrong])
    /\ UNCHANGED <<day, due, cred, last, stored, wrong, floor>>

NotDropped(got) == got                 \* mutant: known ids are inserted again
Unknown(got) == got \ stored

(* ExistingTransactionHashes; the pool of the transfer detection is read   *)
(* next and decides no more than the states of the rows.                   *)
Compare(p) ==
    /\ At(p, "Compare")
    /\ Become(p, [op |-> "Store", rule |-> req[p].rule,
                  start |-> req[p].start, now |-> req[p].now,
                  fresh |-> Unknown(req[p].got), twice |-> req[p].twice])
    /\ UNCHANGED <<day, due, cred, last, stored, wrong, floor>>

(* The primary key refuses a row that another pull inserted meanwhile, and *)
(* the second row of an id that the answer lists twice.                    *)
Refused(r) == r.fresh \cap stored # {} \/ r.fresh \cap r.twice # {}

WhenStored(r) == day                   \* mutant: the clock is read at the end
SuccessAt(r) == r.now

Highest(a, b) == IF a = Never \/ b > a THEN b ELSE a

Store(p) ==
    /\ At(p, "Store")
    /\ ~Refused(req[p])
    /\ stored' = stored \cup req[p].fresh
    /\ last' = SuccessAt(req[p])
    /\ floor' = IF req[p].rule = "overlap" THEN floor
                ELSE Highest(floor, req[p].start)
    /\ Become(p, Idle)
    /\ UNCHANGED <<day, due, cred, wrong>>

(* The request ends without a trace: the bank call fails, an amount cannot *)
(* be parsed, a row is refused and the closure rolled back, the client has *)
(* gone, or the process is restarted.  The steps that only read leave      *)
(* nothing behind, so an end before the bank is asked is one at the call,  *)
(* and an end after it one at the closure.                                 *)
Fail(p) ==
    /\ req[p].op \in {"Fetch", "Store"}
    /\ Become(p, Idle)
    /\ UNCHANGED <<day, due, cred, last, stored, wrong, floor>>

(* The bank corrects what a pull could not store. *)
Correct ==
    /\ wrong # {}
    /\ wrong' = {}
    /\ UNCHANGED <<day, due, cred, last, stored, floor, req>>

-----------------------------------------------------------------------------
Pull(p) ==
    ReadCredential(p) \/ ReadWindow(p) \/ Fetch(p) \/ Compare(p) \/ Store(p)

Begin(p) == \E s \in Sessions : Link(p, s) \/ Visit(p, s)

Next ==
    \/ \E p \in Procs : Begin(p) \/ Pull(p) \/ Fail(p)
    \/ \E d \in StartDates \cup {NoDate} : SetStart(d)
    \/ \E s \in Sessions : BecomeDue(s)
    \/ Tick
    \/ Correct

Spec == Init /\ [][Next]_vars

(* Time passes, requests do not all hang (the bank client gives up after a *)
(* minute), the member keeps loading pages, and no obstacle stands for     *)
(* ever: of infinitely many pulls that ask the bank, some get an answer,   *)
(* and of infinitely many that could commit, some do.                      *)
Fairness ==
    /\ WF_vars(Tick)
    /\ WF_vars(Correct)
    /\ \A s \in Sessions :
          WF_vars(BecomeDue(s)) /\ SF_vars(\E p \in Procs : Visit(p, s))
    /\ WF_vars(\E p \in Procs : Pull(p) \/ Fail(p))
    /\ SF_vars(\E p \in Procs : Fetch(p))
    /\ SF_vars(\E p \in Procs : Store(p))

FairSpec == Spec /\ Fairness

-----------------------------------------------------------------------------
TypeOK ==
    /\ day \in Days
    /\ due \subseteq Sessions
    /\ cred \in StartDates \cup {NoDate, NotLinked}
    /\ last \in Days \cup {Never}
    /\ stored \subseteq Txs
    /\ wrong \subseteq Txs
    /\ floor \in Int \cup {Never}
    /\ req \in [Procs -> Request]

(* No earlier than the first window, or than the start date of a pull that *)
(* was limited by one.                                                     *)
Wanted(t) == floor # Never /\ Posted[t] >= floor

(* sync.go: a success stores the time taken before the bank was asked, and *)
(* the next window starts a week earlier.  So whatever pulls overlap, fail *)
(* or finish in another order than they began, moving last_success_at back *)
(* or forth, every wanted transaction the bridge had to know by            *)
(* last_success_at is stored: no later window needs to reach it.           *)
NothingSkipped ==
    last # Never =>
        \A t \in Txs : Wanted(t) /\ Posted[t] + MaxLag <= last => t \in stored

(* Once a bank is linked a transaction that is posted arrives, however     *)
(* many pulls fail, conflict or are abandoned first, and after any time    *)
(* that something the bank reports could not be stored; unless a pull was  *)
(* asked for later transactions only.                                      *)
Arrives ==
    \A t \in Txs :
        cred # NotLinked /\ Posted[t] <= day
            ~> t \in stored \/ (floor # Never /\ Posted[t] < floor)
=============================================================================
