# so-budget: specification and proofs

TLA+ models of so-budget, the household budget server in `src/`, with the TLC
configurations that check them and TLAPS proofs of what matters most.  Paths
below are relative to `src/internal/` unless they start with `src/`.

so-budget serves a small household.  Each member links bank accounts; the bank
transactions land in a private, encrypted inbox; the member flags the ones the
household pays for, which creates entries in a ledger both members see and edit.

## 1. The system

### Inventory

| Component | State it keeps | Operations | Correct when |
|---|---|---|---|
| Inbox (`service/inbox.go`, `store/private.go`) | `transactions`: state `new`, `flagged`, `dismissed`, sealed blob with suggestion | Flag, EditFlagged, Dismiss, Restore, Unflag, AcceptAllSuggestions, ReapplyRules | flagged exactly while the ledger has its entry; nothing private becomes visible unflagged |
| Shared ledger (`service/ledger.go`, `store/entries.go`) | `household_entries`, unique per payer and source | AddManualEntry, UpdateEntryFields, DeleteEntry (by either member), MonthLedger (reads) | a transaction is paid for once, by its owner; deleting an entry returns its transaction |
| Accounts and keys (`service/auth.go`, `store/users.go`, `crypto`) | one row per user: two wraps of a data key, derivation parameters | Invite, Activate, Login, ChangePassword, Recover | one data key per user, opened by password and by recovery code, for ever |
| Sessions (`web/session.go`) | in memory: principal with data key, last pull, flash, staged import | Create, Get, Delete, ShouldSync | expire; at most one pull an hour each |
| Sync (`service/sync.go`) | sealed credential with start date, account blobs, `last_success_at` | LinkSimpleFIN, SetSyncStart, Sync, RenameAccount | a settled transaction is stored once; a failed pull leaves nothing; windows overlap |
| Rules (`domain/rules.go`, `service/rules.go`) | household and private rules, categories | add, delete, Evaluate | built-in before private before household, longest match wins |
| Transfers (`domain/transfer.go`) | none | DetectTransfers | each transaction in at most one pair |
| Planning (`service/planning.go`, `store/planning.go`, `domain/planning.go`) | `planned_expenses`, `contributions`, the entries' links | add, update, delete, match by hand, match on Flag, SetContribution | a plan is matched at most once a month automatically; a link names a plan; a contribution counts from its month to the next setting |
| Amounts, months, reports (`domain/money.go`, `month.go`, `report.go`) | none | ParseCents, ComputeMonth | sums agree with the entries |
| CSV import (`service/importcsv.go`, `web/importcsv.go`) | preview staged in the session | preview, commit | each file imported once |
| Store (`store/store.go`, migrations) | the SQLite handle | WithTx | a closure commits as a whole or not at all |
| Backups (`store/backup.go`) | files | BackupTo, PruneBackups | the newest `keep` survive |
| Attempt limit and derivation slots (`web/auth.go`) | in memory: a log of attempts, a semaphore | allowAuthAttempt, withKDF | a bounded number of attempts a minute; whoever was accepted is answered |
| Web pages, SimpleFIN client, configuration, command line | none | | |

### How the parts interact

Every HTTP request runs on its own goroutine and calls the service directly;
the service calls the store.  All shared state is in the database, except the
session map (a mutex) and the fields of one session (another).  Members share
the ledger, categories, household rules and plans; transactions, rules and
credentials belong to one of them.  A session runs Sync after login and, on a
page load, when its last pull is an hour old; so two tabs, or two devices, run
requests of the same member at the same time.

### What is hard

* **Interleaving.**  The handle has one connection (`SetMaxOpenConns(1)`), so a
  statement, and a whole `WithTx` closure, is indivisible.  A request is not:
  almost every operation reads and checks in one statement and writes in a
  later one or in a closure, with key derivations or a call to the bank in
  between.  Which of them look again at what they checked decides what may
  overlap safely, and no test overlaps anything.
* **Two tables written together**: `transactions.state` and
  `household_entries`, from eight operations in four files.
* **Row ids that come back**: `INTEGER PRIMARY KEY` without `AUTOINCREMENT`
  gives the id of a deleted last row out again, under requests that hold it.
* **Stopping anywhere**: a request's context is cancelled when its client
  leaves, and the process may be killed; committed statements stay.
* **Whole-row overwrites**: `SetUserKeys` and `UpdateEntry` write every column
  from what was read earlier.
* **An outside party**: the bank reports transactions late, in part, twice, or
  with amounts that cannot be read, and pulls of one member overlap and commit in
  any order.  Nothing may be missing in the end.
* **Time**: windows of days, months, an hour, a minute; clocks that are read
  before a lock is taken, and stamps in another zone.

`PROJECT.json` lists each hazard at its line, with the properties that cover it.

## 2. Modules

| Module | Models |
|---|---|
| `SharedLedger` | the abstract promise: transactions and the ledger lines they show, one indivisible step per operation, no ids, no requests |
| `Inbox` | inbox, ledger and the storing half of Sync, one action per database statement or closure |
| `MCInbox`, `Inbox*.cfg` | its instances for TLC |
| `InboxProofs` | type correctness; which steps write which table; sharing needs a flag; the two tables agree: per write, then for concurrent safe operations, then for all operations one at a time; when overlapping edits book nothing twice |
| `InboxRefinement` | `Inbox` implements `SharedLedger`, for concurrent safe operations and for all operations one at a time |
| `Accounts` | one member's key row, sessions and the requests that rewrap |
| `DataKey` | the abstract promise of an account: a key chosen once, and two secrets that yield it |
| `MCAccounts`, `Accounts*.cfg` | its instances for TLC |
| `AccountsProofs` | type correctness; one data key for ever; spent codes; `Accounts` implements `DataKey` |
| `Sync` | the pulls of one member: credential, start date, window, the bank's answers, overlapping and failing pulls, the hourly claim |
| `MCSync`, `Sync.cfg` | its instance for TLC |
| `SyncProofs` | type correctness; no window skips a transaction |
| `Planning` | planned expenses, the links of entries to them, the ghost counter, with ids that come back |
| `MCPlanning`, `Planning.cfg` | its instance for TLC |
| `PlanningProofs` | type correctness; matched once; links mean the plan they name; no ghosts before a plan |
| `Web` | attempt limit, derivation slots, sessions, the staged import |
| `MCWeb`, `Web.cfg` | its instance for TLC |
| `WebProofs` | type correctness; the attempt limit; slots are handed on; sessions stay out; one import per file |
| `Amounts`, `Transfers`, `Rules`, `MonthReport`, `ImportCSV` | pure functions: money, pairing of transfers, rules, the figures of a month, the rows of an imported file |
| `Domain` | calls of those functions, and the members' contributions as they are set |
| `MCDomain`, `Domain.cfg` | the inputs for TLC |
| `FoldProofs` | induction over numbers and finite sets; what folds over sequences and sums over sets compute |
| `DomainProofs` | what each function of `Domain` returns, for every input; what a contribution changes when it is set |

### Inbox and the code

`txState` is `transactions.state` by id hash (`"absent"`: no row), `suggested`
the rows whose sealed blob suggests a category and the household, `entries` the
table `household_entries` by row id, and `req[p]` the local variables of the
request that goroutine `p` serves.  An entry is its payer, its source reference
and `val`, which stands for the fields both members may edit.

An operation `X` is an action `XLoad`, the statement it reads and checks with,
and an action `XCommit` or `XWrite`, the closure or statement it writes with;
between them any other request may run, and `Abort` may end it.  An operation
whose check fails changes nothing and has no action.  Where a closure can be
refused by an index there is an action for it (`FlagConflict`, `SyncConflict`),
whose effect is the rollback.  `AcceptAllSuggestions` is a list, then a load and
a commit per item; it stops at the first item that is already flagged.  `Sync`
reads which transactions are stored, reads the rows that are `new`, and writes
all in one closure; what the bank reports is any set of the member's
transactions, what the rules decide any verdict `Evaluate` can return, and
`Transfers` the pairs `DetectTransfers` would find.  `AddManual` is also one row
of a CSV import; `UpdateLoad` and `UpdateWrite` are also MatchEntry, whose link
is not in the model.

`KeepsPromise` is `SharedLedger!Spec` with `status` the state of a transaction
and `ledger[t]` the set of lines the ledger shows for `t`: two entries for one
transaction, or one on the wrong member, have no abstract counterpart.

### Accounts and the code

`user` is the row, `session` the keys in memory, `sealed` the keys some private
row is sealed with, `req` the requests between reading the row and overwriting
it.  A wrap opens with the secret and the derivation parameters it was made
with; `Opens` derives with the row's parameters, as Login and Recover do.
`Restart` may change the configured parameters (`crypto.DefaultParams` in a new
build).  Wrong secrets and short passwords change nothing and are left out, and
so is the length of a derivation: a request may take any time.

`KeepsPromise` is `DataKey!Spec` with `key` the key in the row's password wrap,
`yields` the pairs of a secret and the key its wrap opens to (under the row's
parameters, so that a wrap that no longer opens yields nothing), `stored` the
keys of sealed rows and `held` those in sessions.  A password change and a
recovery are each one abstract `Rewrap`, their `SetUserKeys`; loading a row is a
stutter; a second data key has no abstract counterpart.

### Sync and the code

`cred` is the start date in the sealed credential, `last` is
`sync_state.last_success_at`, `stored` the transactions by id hash, `due` the
sessions whose `ShouldSync` would claim a pull, and `req[p]` the local variables
of a pull.  A pull is five steps: `ReadCredential`, `ReadWindow` (the clock, then
the last success), `Fetch` (the call to the bank), `Compare`
(`ExistingTransactionHashes`) and `Store` (the closure); `Fail` may end it at the
bank or at the closure.  `Visit` is a page load of a session that is due, `Link`
is `LinkSimpleFIN` with the pull that follows it, `SetStart` is `SetSyncStart`.

The bank is an environment with one duty: a transaction is in every answer whose
window holds its day once `MaxLag` days have passed since that day; before that
it may be left out, and an answer may stay out altogether.  `BadAmount` and
`Twice` are transactions with an amount `ParseCents` refuses, and ones listed
under two accounts of an answer, whose second row the primary key refuses; both
fail the whole pull until the bank corrects them (`Correct`).  `floor` is
auxiliary: the latest start of a window that was no continuation of the last
success, below which the member asked for nothing.

`Inbox` has the other half of a pull, what it does to states.  The two modules
share only `Store`'s set of new rows, and each keeps the guard the other's
properties need: the primary key.

### Planning and the code

`entries` and `plans` are `household_entries` and `planned_expenses` by row id.
`AddEntry` is the closure of AddManualEntry and of Flag, which matches and
inserts at once.  MatchEntry reads the entry (`ReadToMatch`), then looks for the
plan (`CheckPlan`), then writes the whole row (`WriteEntry`); an edit of an entry
ends in the same write.  DeletePlanned is `ClearLinks` and `DeletePlan`, two
statements.  `Missed` is the ghost counter.  Auxiliary: `serial` numbers plans in
the order they were made, so that a plan and its successor under the same id can
be told apart; `meant` is the number of the plan a link was made for; `auto` the
entries whose link comes from automatic matching; `hit` the plans that were being
deleted while a request was in flight.

### Web and the code

A sign-in request moves through `pc`: it reads the clock, is allowed or refused
(`allowAuthAttempt`), takes a derivation slot or waits in `queue` for one
(`withKDF`: senders that block on a channel are served in order), derives, and
creates a session.  `authLog`, `live`, `created`, `seen` and `imp` are the fields
of the server, the session store and a session.  A request with a session enters
through `Get` (`SessionStore.Get`, by requireSession) and then previews, commits
or signs out.  A commit is three steps: it reads what is staged (`ReadStaged`),
enters it (`CommitImport`), and clears what is staged by then (`Clear`).
Auxiliary: `at` is when an attempt was accepted, `over` the sessions that were
refused or signed out, `used` and `imports` which files were previewed and
entered, `overlapped` the files two commits had in hand at once.

### Domain and the code

Functions of `domain/` are operators over records that keep what decides their
result: a text is a sign, a number and digits; a rule is the length of its
pattern, whether it matches and what it says; a transaction of a pool is its
account, amount and day.  `Cents` wraps at `Half`, which is 2^63 in the code.
`Domain` calls each with every input of a set, and the properties say in other
terms than the definitions what the result must be.  A name in a file is a word,
how its ASCII letters are capitalised and how the others are: `COLLATE NOCASE`
overlooks only the former.  An imported file gives its entries by row, and its
types their turns in sorted order, as `sort.Strings` leaves them; mapped ids are
checked as the entries are inserted, after the new categories, because that is
where the foreign keys are.  `set` holds each member's contributions by month, and
`SetContribution` is the service's guard and the store's upsert of one row.

## 3. What TLC checks

Every run is exhaustive.  Fairness is stated in `Sync` and `Web`, for one liveness
property each.

| Run | Instance | Shows |
|---|---|---|
| `inbox_serial` | 1 request at a time, all 11 operations, 3 transactions of 2 members (a transfer and another), 3 row ids, 2 values | `TypeOK`, `FlaggedIffEntry`, `KeepsPromise`: 1.1 million states |
| `inbox_concurrent` | 2 requests, all operations, a transfer, 2 row ids | `OnlyFlaggingShares`: 0.8 million states |
| `inbox_safe` | 2 requests, `SafeOps`, one transaction of each member, 3 row ids, 2 values | `FlaggedIffEntry`, `BookedOnceOnOwner`, `KeepsPromise`: 0.5 million states |
| `inbox_dismiss_race` | 2 requests | `DismissedHasNoEntry` is violated |
| `inbox_stale_delete` | 2 requests, 2 transactions, 2 row ids | `DeletedEntryReturnsTx` is violated |
| `accounts` | 2 requests, one of which may activate; 2 keys, 2 passwords, 3 codes, 2 parameter sets, 2 sessions | `TypeOK`, `BothOpenOneKey`, `DataReadable`, `KeepsPromise` |
| `accounts_two_activations` | both may activate | `OneDataKey` is violated |
| `accounts_spent_code` | as `accounts` | `SpentCodeDead` is violated |
| `sync` | 2 pulls at a time of 1 session; 2 transactions, of one and two days before the start; 2 days; one with a bad amount, one listed twice; lag and overlap 2 days | `TypeOK`, `NothingSkipped`, `Arrives`: 50 thousand states |
| `planning` | 2 requests, 2 entry ids, 1 plan id for 2 plans, 2 months, stamps ahead of the clock | `TypeOK`, `MatchedOnce`, `LinksMeant`, `GhostsExisted`: 0.5 million states |
| `web` | either 3 sign-in requests for 2 attempts a minute and 1 slot, or a member with 2 requests at a time and 2 files; time 0 to 4 | `TypeOK`, `RollingBound`, `StaysOut`, `ImportedOnce`, `SlotsTaken`, `KeptUntilImported`, `Answered`: 0.3 million states |
| `domain` | 150 thousand inputs: amounts of 10 bits, pools of up to 4 transactions, up to 3 rules, 2 entries and 2 plans, files of 2 rows with 4 spellings of 2 words; contributions of 2 members over 4 months | `ParsedExactly`, `PartOfTheWhole`, `PairedOff`, `LongestWins`, `CountedOnce`, `AddsUp`, `ImportedWhole`, `SetFromMonthOn` |

**Bounds.**  `MaxId` caps row ids: an insertion that needs a larger one is
disabled.  Three ids hold an entry per transaction, or a manual entry next to
two of them; reuse of an id needs one.  Two requests are enough for every race
the code has between a read and a write, since a third can only be the state
the first two meet; the proofs below need no such bound.  Three recovery codes
allow an activation and two recoveries.  Handlers are interchangeable, and so
are keys, codes and sessions, which the symmetry sets say; passwords and
transactions are not.

`Sync`: a transaction must be able to be before, in and after a window, to be
late and on time, and two pulls must be able to commit in either order across a
change of day.  Two days, a first window of two and a start date at its lower end
give each of these; the proof has no bound.  `Planning`: one plan id for two
plans is the smallest instance in which an id comes back under a request, two
entries the smallest in which a plan could be matched twice, two months the
smallest with a closed one; that several plans fit one entry does not happen in
it, and is covered by the proofs.  `Web`: two attempts a minute and one slot make three
sign-ins enough to be one too many and to wait for a slot; the clock runs past
the minute, past the idle limit and past the absolute limit.  `Domain`: `Half` is
512, so that five dollars are at the end of the type and every wrap is in reach;
four transactions are the smallest pool with two crossing pairs; three rules have
every order of lengths.

**Fairness.**  `Sync!FairSpec`: time passes (`Tick`), the bank corrects an answer
in the end (`Correct`), an hour passes and the member loads a page again
(`BecomeDue`, `Visit`), and pulls do not hang, as the bank client gives up after a
minute (`simplefin/http.go`).  Strong fairness on `Fetch` and `Store` says that
no obstacle stands for ever: of infinitely many calls some are answered, and of
infinitely many closures some commit.  Which pull succeeds is left open, and so
is everything about linking and start dates.  `Web!FairSpec`: the server's
goroutines are scheduled and a derivation ends; nothing is assumed of clients,
clock or restarts.

### What does not hold

Each is the smallest run that shows it; `PROJECT.json` quotes the statement.

* *Dismiss against Flag.*  Dismiss reads `new`; Flag commits; Dismiss sets
  `dismissed`.  The ledger keeps an entry the inbox does not know of.
  ReapplyRules and Sync, which dismiss rows they listed before their closure,
  have the same gap, and so does Restore.
* *Stale delete.*  Two requests delete the same entry; between them another
  transaction is flagged and gets the freed id.  The second request deletes
  that entry and returns the first one's transaction.
* *Two activations.*  Both submissions of one invitation are accepted; the
  second data key replaces the first, and what a session under the first sealed
  is lost.
* *Spent code.*  A password change that overlaps a recovery restores the
  recovery wrap from before it.

The operations that re-check inside their closure (`SafeOps`: Flag, Unflag,
AcceptAll, manual entries, and pulls as long as they meet no transfer half that
is already stored) overlap freely.

Noticed while modelling, and kept in the model as the code has it; the properties
say where they stop:

* *A minute less the wait.*  `web/auth.go:11` speaks of any rolling minute.  The
  clock is read before the lock is taken; an older reading that comes later drops
  nothing, but a newer one that came first may have dropped from the log what is
  still within the minute.  `RollingBound` holds for a minute less that wait,
  which in practice is microseconds, and exactly when there is none.
* *Two commits of one file.*  Until the first has cleared what is staged, a second
  submission enters every row again.  `ImportedOnce` excludes overlaps only;
  retries, sign-outs and restarts are covered.
* *The file of another tab.*  A commit enters what is staged, not what its page
  showed, and clears what is staged by then, also a file previewed meanwhile.
  `KeptUntilImported` names that case.
* *Later than the overlap.*  A transaction that the bank reports more than a week
  after its date may be in no window (`LagWithinOverlap` is an assumption of the
  proof).  A start date that is cleared again does not reach back either: `floor`
  stays.
* *Deleting a plan under a request.*  MatchEntry checks that the plan exists and
  links to it later, and DeletePlanned is not one transaction: an operation that
  overlaps the deletion can leave a link to a plan that is gone, and to whichever
  plan gets the id next.  An edit that overlaps a MatchEntry undoes its link.
  `LinksMeant` excludes overlaps with a deletion, and nothing else.
* *East of UTC* a plan is stamped up to a day early, and a plan added on the first
  of a month counts the month before as missed.  West of it, which is what
  `Ahead` says, `GhostsExisted` holds.
* *The end of the type.*  `ParseCents` wraps silently above 92 quadrillion dollars
  (`domain/money.go:66`), and `entryAmount` accepts the smallest amount as part of
  an income, because it has no opposite.  `ParsedExactly` and `PartOfTheWhole`
  stop there.
* *Capitals outside ASCII.*  Types that differ in the capital of an accented letter
  only become two categories, and so they do in the model: `COLLATE NOCASE`
  (`store/household.go:42`) folds the letters of ASCII.
* *From a month onward.*  The message after saving a contribution says so
  (`web/planning.go:75`), but a setting counts only up to the next month that has
  one already; later settings are kept.  `SetFromMonthOn` states it as it is.
* *A lost rename.*  Sync reads an account's chosen name before its closure and
  writes it inside (`service/sync.go:223`): a rename in between is gone.  Account
  names are not in the model.

## 4. What is proved

TLAPS checks these for all values of the constants that satisfy the assumption
each module states (`InboxAssumption`, `AccountsAssumption`, `SyncAssumption`,
`PlanningAssumption`, `WebAssumption`, `DomainAssumption`): any number of members,
transactions, rows, requests, keys, plans and sessions, any windows and limits.

* `InboxProofs`: `TypeCorrect`; `SharingNeedsFlag` (`OnlyFlaggingShares`, all
  operations, any interleaving).  The argument: three actions add or change an
  entry, and only Flag gives one a source reference; it sets the state in the
  same closure, of a transaction that is stored (`PendingStored`, which is
  inductive because rows are never deleted).

  `FlaggedIffEntry /\ BookedOnceOnOwner` is not inductive: a
  request in flight may write what it read long ago.  So each write has a lemma
  that names what it relies on (`UpdateKeeps`: the entry still has the payer
  that was read; `SetStateKeeps`: the transaction is not flagged; ...).
  `ConcurrentAgreement` (`Ops \subseteq SafeOps`, no transfers) then adds the
  invariant that only safe operations are in flight, which rely on nothing but
  `PendingStored`; `SerialAgreement` (one handler, all operations) adds that
  what the request read is current (`AllCurrent`).

  From the same invariant, `SerialDismissal` and `SerialReturn`: the two
  properties the violation runs refute hold with one request at a time, for all
  operations and with row ids that come back, so an overlap is all that breaks
  them.

  `BookedOnceUnlessReused` looks at one half of the agreement,
  `BookedOnceOnOwner`, with nothing forbidden but the one combination that breaks
  it: an edit that was read before its row was deleted writes its payer over the
  entry that got the id next.  If nothing is edited, or nothing deleted, or there
  is one member, it holds under any interleaving of everything else, dismissals
  and pulls included; with all three it does not, which TLC shows in a few steps.
* `InboxRefinement`: `ConcurrentRefinement` and `SerialRefinement`, the same two
  conditions, `Spec => KeepsPromise`.
* `AccountsProofs`: `TypeCorrect`; `OneKeyForever`: if no two requests can
  submit the invitation at once, `BothOpenOneKey /\ DataReadable`
  (`BothSecretsOpen` for the first alone).  The
  inductive invariant `OneKey` says that every request in flight holds the key
  of the row as it now is, which a step can only break by generating a second
  key; that a password change kept the row's parameters makes its recovery wrap
  agree with them (`KeepsRecoveryWrap`).  Under the same condition
  `KeyGeneratedOnce` (`OneDataKey`), by `Generated`: the keys generated are the
  row's key, and none while the member is only invited;
  and `KeyRefinement` (`KeepsPromise`), where `OneKey` is what makes `SetUserKeys`
  an abstract `Rewrap` whatever the request read.  `SpentCodeStaysDead`
  (`SpentCodeDead`, one request at a time): a password change writes back the
  recovery wrap it read, which is still the row's (`RowCurrent`), and a code is
  never generated twice (`CodesKnown`).
* `SyncProofs`: `SyncTyped`; `NeverSkips`: under `LagWithinOverlap`,
  `NothingSkipped`.  The invariant cannot speak of the table alone, since a pull
  that began long ago may still commit and move `last` back.  So `IInv` says what
  each pull in flight owes (`Owes`): what its window leaves out is stored, if the
  window continues the last success; its answer is complete (`Complete`); and after
  the comparison, what it will not insert is stored.  Stored rows stay, so no
  other pull can break the debt of one (`OthersOwe`), and `WindowReaches` is where
  the overlap is used.
* `PlanningProofs`: `TypeCorrect`; `PlansMatchedOnce`, inductive because the match
  and the insertion are one closure and every later write takes the entry out of
  `auto`; `LinksNamePlans`, by `Meant`, which adds the rows that requests hold to
  those in the table, and that a plan between the two statements of its deletion
  has no link that is meant for it; `NoGhostBeforePlan`, by `StampedLate`.
* `WebProofs`: `TypeCorrect`; `AttemptsBounded`, by `Limit`: what was accepted
  recently is in the log (`Logged`), because no reading of the clock is older than
  `Lag` (`Clocked`), and the log is never longer than `Cap`; `SlotsHandedOn`
  (`SlotsTaken`), by `SlotsCounted` and `InLine`: a slot that is given back goes to
  the head of the line in the same step, which is the part of `Answered` that is
  not fairness; `SessionsStayOut`, by
  `Ended`: a session that was refused is not in the map, and only a login that was
  not answered yet puts one there; `NoDoubleImport` and `FailureKeepsFile`, by
  `Careful`: a file that was entered is no longer staged, except where a commit is
  about to clear it, and only what was entered is cleared.
* `FoldProofs` has no theorem about the program.  The library's induction rules
  take an operator, which the provers cannot instantiate; here a property is the
  *set* of the numbers, or of the finite sets, that have it, and induction is that
  a set of numbers has a least one (`WFMin`).  A fold over a sequence is then the
  last of a sequence `h` of intermediate values, and a sum over a finite set is
  what is added an element at a time, in any order; sums split by groups.
* `DomainProofs`, for every input that `DomainAssumption` allows (texts, pools,
  rules and files of any length, ledgers of any finite size, types of any width):
  - `ReadExactly`: the digits of a fraction are the number the code makes of them,
    and what fits the type no conversion changes (`WrappedFits`, `NegatedFits`);
    `NoMoreThanTheWhole` rests on the same two.
  - `TransfersInPairs`: after each transaction the ones found so far can be told
    apart into pairs, and one that is left fits none before it that is left.
  - `LongestRuleWins`: after each rule the candidate is a longest of those before.
  - `PlannedCountOnce`, `MonthAddsUp`: sums over entries, grouped by member, by
    plan and by category, are the sum over all of them.
  - `ImportsEachRow`: after each type the categories still start with those there
    were, each new one is called like a type that is not mapped and like no other
    category, and each type that is not mapped has one (`Grown`).  New categories and
    new names are then in bijection, which counts them (`OneForEachName`), and the
    count says which mapped ids exist when the entries are inserted.
  - `ContributionsCountOn`, by `CountsToTheNext`: up to the month that is set
    nothing is different (`ContributionUpTo`), and after it the latest setting
    decides (`LatestCounts`), which is the new one until there is a later one.

The conditions on Inbox and Accounts are needed: the violation runs drop them.
Every safety property that a run checks is proved; only model-checked are the
liveness properties `Arrives` and `Answered`, since fairness and ENABLED are out
of the prover's reach.

## 5. Not modelled

* **Pages and routing** (`web/server.go`, the handlers and templates): they parse
  a form, call the service and render.  They keep no state, and the few decisions
  they make (which session may pull, what is staged) are in `Sync` and `Web`.
  Flash messages, CSRF tokens and the errors of the last pull only show.
* **SimpleFIN client** (`simplefin`): HTTP and JSON.  Its answers are the `Fetch` of
  `Sync`.
* **Backups** (`store/backup.go`) and **configuration, command line**: file-system
  input and output that no other part reads back.
* **Cryptography**: a sealed value is a record that names its key; see `Accounts`.
* **Bank accounts**: blobs with a balance and a name the member may choose
  (RenameAccount).  Nothing else depends on them; the race they have is listed
  above.
* **Rules and categories as rows**: adding, deleting and archiving are one
  statement each on tables of their own.  What the rules say is in `Rules`, for
  any list; that an operation sees a list that is older than its own write is in
  `Inbox`, where the verdict is arbitrary.
* **Substring search, dates and calendar, columns of a CSV file**: Go's library on
  text.  Months and days are numbers here.
* **A report under a concurrent write**: a month's report is assembled from several
  reads and may show a mixture; nothing is written from it.
