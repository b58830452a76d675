# Verification of money-flow-service

TLA+ models of money-flow-service, a shared household ledger (FastAPI,
SQLAlchemy, PostgreSQL, several worker processes), and of the scheduler that
runs its end-to-end tests; the TLC runs that check the models and the TLAPS
proofs of the properties that matter most. Paths are relative to
`backend/app/` unless they begin with `scripts/` or are `orchestrator.py`.

## 1. The system

| Component | State | Operations | Interacts through |
|---|---|---|---|
| Merge of ledger edits (`services/merge.py`, `api/routes/transactions.py`, `holdings.py`) | row, `version`, `EntityPatchLog` | PATCH with `base_version`, delete, legacy-owner remap | row locks; the importer and the package write the same rows |
| Ledger order (`api/routes/transactions.py`) | `order_key`, `created_at` | append, insert above or below, rebalance, move, page through history | row locks of a day, an unlocked `max` |
| Categories (`api/routes/categories.py`) | categories, `category_id` of transactions | create, patch, rename a group, delete; create and patch of a transaction | unique index, foreign key |
| Membership and invitations (`api/routes/household.py`, `api/deps.py`) | member rows, roles, invitations | authorise, change role, remove, invite, revoke, accept | row locks, mail, websockets of removed members |
| Registration and verification (`api/routes/auth.py`) | user, verification tokens, continuation cookie | register, resend, verify | mail, conditional updates |
| Throttles (`api/routes/auth.py`) | counter rows with a window | count, read, record a failure, forget | one conditional update, an insert that may lose |
| Sessions (`api/routes/auth.py`, `api/deps.py`, `core/security.py`) | `RevokedToken` rows, cookies | login, refresh, logout, authenticate, clean up | unique index on the jti |
| Import lease (`api/routes/imports.py`) | `ImportExecutionLock` row, heartbeat thread | acquire, take over, renew, check, commit, release | conditional updates on the lease's stamp |
| Workbook importer (`services/importer.py`) | transactions and holdings with `source_ref` | parse, add, skip, update, commit | dedupe hash, holding identity; members who edit |
| Migration packages (`services/migration_package.py`) | exported rows, the target's rows | export, validate, delete, insert, commit | unique indexes; members who enter rows |
| Toss screenshots (`services/toss_screenshot_importer.py`, `api/routes/imports.py`) | OCR lines, preview, entered rows | assemble, preview, review, apply | unique `source_ref` |
| Price refresh (`services/price_service.py`) | `price_refresh_status` row, tasks per worker | request, queue, take over, run, finish | row lock, event loop |
| Quotes (`services/price_service.py`) | shared futures, provider slots, snapshots | fetch, wait, retry, cancel, store | event loop of one worker |
| Portfolio and FX (`services/dashboard.py`, `fx_service.py`) | holdings, snapshots, rate row, a reader's session | load, price, convert, list | a rollback that expires the session |
| Websockets (`main.py`, `services/ws_hub.py`) | used tickets, hub per worker, handlers | ticket, connect, recheck, broadcast, disconnect | member rows; removals on any worker |
| Test scheduler (`scripts/e2e_scheduler`) | queue, capacity, workers, results | assign, complete, raise or lower capacity, start reserves, interrupt, verdict | condition variable, resource locks |
| Capsules of the scheduler | browser, services, ports, database, active job | start, run a job, reset, stop, close | processes and ports of the machine |
| Evidence and runs | staged and published targets, run lock, screenshots | validate, stage, swap, recover, roll back, lock, clean | the file system |
| Orchestrator (`orchestrator.py`) | two children, a flag | start, wait, terminate | signals |

What is hard here: every handler runs on several workers at once and its
database session keeps copies of rows it read before a lock; leases expire
under processes that are still alive; rows that forbid something (used tickets,
revoked tokens, counters) are deleted by a clock; an error path cleans up what
another request may be using; imports meet edits without a lock; futures are
shared by tasks that may each be cancelled; and the test scheduler moves
processes and directories that fail half way. `PROJECT.json` lists these hazards
one by one, at the line where they bite, with the property that covers each.

What makes each component correct: an edit never silently undoes one its author
had not seen (merge); the order of rows survives inserts and paging (order); a
category exists and has its transaction's flow (categories); one owner, and
nobody joins but by an invitation that is open at that moment (membership); an
account has the password of whoever verified it (registration); no window admits
more than its limit (throttles); a token that was ended stays ended and tabs
that race do not log one another out (sessions); imports of one household do not
overlap (lease) and enter everything once (importers); one task per refresh,
none forgotten, no old price shown as new (prices); a ticket opens one
connection and a removed member loses it (websockets); every test runs once, a
run ends, and what it publishes is complete or not there (scheduler).

## 2. Modules

Each component module holds state, one action per operation or step, the
properties, and next to some operations a definition `Mutant...`: the same
operation with a plausible bug, which some property must detect. `MC...` modules
instantiate them; a run that asks about several components that share no state
has a variable `part`, fixed initially, that says which of them a behaviour
follows (the others keep one of their initial states), so the instance is the sum
of its parts and not their product. `...Proofs` modules hold the theorems.

### The ledger

**PatchMerge** - one row with all its writers. `LoadRow` is a client's GET;
`LockRow` the `SELECT ... FOR UPDATE`; then the handler rejects
(`PatchRejected`), finds nothing to change (`PatchNoop`), conflicts
(`PatchConflict`) or writes (`PatchApply`). `Merge`, `MergeConflict`,
`LoggedSince` and `CoveredSince` are `merge_patch_or_raise` and
`changed_fields_since`. `ImportLoad` and `ImportWrite` are the two halves of
the importer, which takes no lock. Columns hold abstract values; `ValidRow` is
the handler's cross-column check. History: `touched` (columns others changed
since a client loaded the row), `overrun` (an import wrote over a version it
had not loaded).

**LedgerOrder** - rows numbered by `created_at`, with a day and an order key.
`AppendRead` reads the largest key, `AppendCommit` writes (moves between days
likewise). An insert takes a snapshot (`InsertBegin`), waits for its locks
(`InsertLock`), which under READ COMMITTED keep the order of the snapshot but
show committed keys, takes the middle of a gap or renumbers (`Rebalance`,
`InsertAgain`) and commits. The reader's `ReadPage` follows a cursor, in both
directions. Its lists are sorted by rank (**Ranks**: the row at place n has n - 1
rows before it), as are those of LedgerTransfer.

**Categories** - every handler in a reading and a committing half; the unique
name, the unique `source_ref` and the foreign key are decided at commit.
`Replay` is the replay window of a create.

### Accounts

**Registration** - one address, several browsers, each request in the steps its
commits separate: read, create or reuse, issue, send, clean up. Tokens carry the
password that was pending and the continuation secret of their browser.

**AuthThrottle** - one key of `RegisterThrottle` or of `LoginThrottle`, its
window and all requests at it; `Count` is the conditional update, `InsertCount`
the insert that may lose, `RecordFailure` the login's.

**AuthSession** - pairs of tokens with their expiry, `RevokedToken` rows, the
browser's cookies and its requests in flight. `Insert`, `Duplicate` and
`Victim` are the flushing of a revocation: written, refused by the unique index
(everything rolled back), or aborted in a deadlock between a refresh (refresh
token first) and a logout (access token first). A session has
`autoflush=False`, so a row is written at `flush` or `commit` only.

**Membership** - roles, member rows, invitations and the requests being served.
A request keeps the copy of the actor's row that `get_current_household`
loaded; `Seen` says which roles a handler sees after `_lock_household_members`
(its own copy for the actor, committed rows for the others). `CheckInvite` and
`CreateInvite`, `AcceptLoad` and `AcceptJoin` are the halves of a handler
around its lock; `MailFails` is the clean-up after a failed mail; `Abandon`
stands for errors that leave no trace.

### Imports

**ImportLock** - the lease row with its stamp, the imports of all workers, the
heartbeat and the clock. `Tick` contains the timing assumption of the code: a
heartbeat comes round every `Interval`, and a commit follows its last renewal
within `Deadline`, `Interval <= Deadline <= Timeout`. `RenewError` is a
heartbeat that fails with or without having committed.

**WorkbookImport** - a sheet of transaction contents or of holding cells is
parsed (`ImportBegin`), applied row by row into the session (`ApplyTransaction`;
`SkipRow`, `AddRow` and `UpdateRow` with the two dictionaries of
`_apply_holdings`) and committed or not. `ParsedTransactions` gives a row its ordinal among equal rows and, with its hash, its `source_ref`;
the four `...Holding` operators are the four holding sheets with their defaults.
Between imports members add, edit and delete.

**LedgerTransfer** - export of a household, damage of the package, and its
application: delete, insert with new order keys and mapped categories, owners
and holdings, commit or fail at an index, while members enter rows. Export and
apply sort by day, key and creation or place in the package (`Sooner`).

**TossImport** - `FeedHeader`, `FeedAmount`, `FeedBalance` and `FeedText` are the
loop over the OCR lines with its pending row; `Preview` merges the images and
marks repeats; `ApplyReads` and `ApplyCommits` are the two halves of the apply.

### Prices

**PriceRefresh** - the status row, each worker's task and the requests between
taking a lease (in a thread) and starting a task (on the event loop). The age
of the heartbeat is one of fresh, old (past the take-over grace) and stale.

**Quotes** - what a refresh does: one network task per symbol no fresh snapshot
answers, tasks of several refreshes sharing one future of `_quote_flights`, slots
per provider, retry and fallback provider, the cancellation of a task by its own
refresh or through the shared future, and the snapshots written at the end. A
price is the moment it was answered at.

**Portfolio** (extends Quotes) - a reader's steps between its awaits; `AskRate`
rolls the session back, so what is read later is the row as it is then.

### Websockets

**WsAccess** - tickets and the rows of used ones, the handler's steps, the hubs
of all workers, removal of members and the disconnection it starts.

### The test scheduler

**JobBoard** - what a run promises: a job is taken once, two jobs with a common
lock never run together, a run is published only when every job has reported
success. **Scheduler** - the queue with the capacity that a worker reads before
it takes the lock, affinity to an engine, the controller with its counts of
healthy and pressed samples, reserve workers that may fail to start, interrupts,
the drain and the verdict. `Board == INSTANCE JobBoard WITH ...` maps the
queue's sets to the states of the jobs.

**Capsules** - start on a port that was free a moment before, the browser pool,
jobs whose process is spawned and known in two steps, the reset of the database,
stop and close; processes and ports that stay are errors (`stuck`).
**Publication** - every call on the file system is a step that may fail, be
interrupted between the call and the line that notes it, or be the last one.
**LocalRun** - the kernel lock, the owner file, the legacy run with the shared
screenshot directory and `latest-run.json`; tests may outlive a killed run.
**Orchestrator** - two children, the flag of the signal handler, the terminations.

`PROJECT.json` maps every definition to its lines.

### External parts

Process crashes, the clock, the browser, the mail server, lost responses, lock
waits and deadlock detection of the database, price and rate providers, the OCR
engine, test processes and ports are not in the repository's code; they are
modelled from how the code uses them and marked external. The isolation level is
PostgreSQL's default, READ COMMITTED.

## 3. What TLC checks

| Run | Shows | Instance |
|---|---|---|
| `accounts` | `ChosenByVerifier`: a verified account has the password of the browser that verified it; `PendingWasMailed`: nobody waits for a mail that was not sent; `ThrottleHolds`: no window admits more than its limit | 2 browsers, 2 requests, 3 tokens, 2 users in turn; 3 attempts at a limit of 2, clock to 5 windows |
| `access` | `RefreshedOnce`, `EndedStaysEnded`, `JarIsLive` (sessions); `SoleOwner`, `PendingOnlyForOutsiders`, `JoinsOnlyByInvite` (membership) | 2 requests with 3 pairs until an access token expires, or 2 pairs until the refresh tokens have expired; 2 users, 2 requests, 2 invitations |
| `ledger` | `LandsBesideAnchor`, `OrderIsKept`, `ReadsEachOnce` (order); `FlowAgrees`, `RefAnsweredOnce` (categories); `NoSilentOverwrite` (merge of a transaction) | 2 writers, 4 rows, 2 days, order step 2, pages of 1; 2 editors, 2 categories, 2 transactions; 2 clients, 4 columns, versions to 4 |
| `imports` | `ImportedOnce`, `HoldingsFollowSheet` (workbooks); `AppliedIsExported` (packages); `RowsStayTogether`, `IncludedIsEntered` (screenshots); `LogExplainsVersions` (a holding under patches and an import) | 2 contents, sheets to 3 rows, 5 kinds of holding cell, 2 imports with an edit; 2 rows and 2 newcomers; 5 OCR lines, 2 images; 2 clients and 1 import |
| `workers` | `CommitsAreSerial`, `StaleLeaseYields` (lease); `TicketOpensOnce`, `RevokedAreDisconnected` (websockets) | 2 workers, clock to 6, timeout 2; 2 connections, 2 tickets, 2 servers |
| `prices` | `SingleRunner`, `QueuedIsAnswered`, `OrphansAreRecovered` (lease); `FreshIsFresh`, `QuotesEnd` (quotes); `AmountsAgree` (portfolio) | 2 workers, 2 requests, 6 leases, 1 crash; 3 refreshes, 2 symbols, 1 slot; 2 readers, 2 holdings |
| `scheduling` | `ImplementsBoard`: Scheduler implements JobBoard; `RunEnds`: every run reaches a verdict | 2 warm workers, 1 reserve, 3 jobs, 2 engines, 1 shared lock |
| `hosting` | `NothingLeftSilently`, `StopReaches` (capsules); `AllOrNothing`, `NothingLost`, `CompleteMeansPublished` (publication); `ManifestIsOwn` (runs); `ChildrenEnd` (orchestrator) | 2 capsules, 2 ports, 2 jobs in one of them; 2 jobs with 17 outcomes each; 2 runs |
| `patch_holding_stale_import`, `membership_last_owner`, `price_refresh_runner`, `auth_leeway` (violated) | see findings | as the passing runs, or smaller |

Why these bounds suffice to meet the interesting cases: the properties are about
races of two actors, and each instance has one actor more or room for the race
to be followed by a third event (a third version after two patches, a third pair
after two rotations, a take-over of what was taken over, a third refresh that is
cancelled through a future neither its own nor its canceller's, a second import
after an edit). Clocks run past every deadline the code compares with. An order
step of 2 has one key between two rows, so the second insert into a gap
renumbers; pages of one row make every row a cursor. Thresholds of the
scheduler's controller are scaled to one sample. Leases of PriceRefresh are
reused once nobody refers to them, so its bound limits nothing.

Deadlock is checked in `workers`. In the other passing runs a behaviour really may stop:
all rows, tokens or imports that the bounds allow are used up, the row was
deleted, the run has its verdict.

Fairness, where a run is about something that must happen:

* ImportLock: workers make progress and imports keep being requested (weak); a
  take-over that is possible again and again is not crashed every time
  (strong). Nothing is assumed of a holder, which may crash or hang.
* PriceRefresh: coroutines and tasks that can run are resumed by the event loop
  (weak), an unrenewed heartbeat grows old, and refreshes keep being requested:
  recovery is triggered by a request only, there is no timer in the code. From
  some time on a request starts its task before the lease it took is older than
  the take-over grace (`Prompt`): between the two there is only the return from
  a thread to the event loop. Without it two requests could take over each
  other's unstarted lease for ever, which TLC exhibits.
* Quotes: the event loop resumes what can run; a provider answers or times out
  (every request is given a timeout).
* WsAccess: the handler's loop goes round (weak) because `receive_text` is
  given a timeout, and a handler whose connection broke ends.
* Scheduler: threads run, tests end (Playwright has timeouts) and the main
  thread goes on. Nobody has to interrupt, and the controller need not ever see
  a healthy sample.
* Capsules: their threads run and the main thread asks every capsule to stop;
  tests may hang, so nothing is assumed of a test. Orchestrator: each of its
  waits has a time limit (`npm install` is assumed to end).

Exemptions inside properties, each a state the code can really reach:

* `overrun` (PatchMerge) and `stale` (Membership), shown to be reachable by a
  violated run; `crashed` in `PendingWasMailed`: a worker that died between the
  commit of a token and its mail.
* `TicketOpensOnce` excepts a validation that reads the clock before a ticket's
  expiry and reaches the database after it. The properties of AuthSession speak
  of tokens before their expiry; what happens between expiry and leeway is the
  run `auth_leeway`. `JarIsLive` excepts lost answers.
* `LandsBesideAnchor` excepts an insert whose snapshot was in an order that
  others had changed when it got its locks (`current`), and `OrderIsKept` a
  renumbering that did not know one of the two rows: a row that was committed
  after its snapshot keeps a key of the old scale.
* `HoldingsFollowSheet` excepts a row whose holding a later row took over by its
  former row number: a `source_ref` names a place in the sheet, not a holding.
* `AmountsAgree` excepts rates that the provider did not answer, which are stale
  by design. `ThrottleHolds` lets log-ins in flight exceed the limit by their
  number: passwords are checked before a failure is counted.
* `AllOrNothing` and `CompleteMeansPublished` except a rollback that says it
  failed (`failed`) and Ctrl-C between a rename and the line that notes it
  (`cause`); `NothingLost` holds for these too. `ManifestIsOwn` excepts tests
  that outlived their run (`lost`), `ChildrenEnd` a child that is still there
  after its `terminate` (`resisted`).

## 4. Findings

* **A stale import hides its change** (`patch_holding_stale_import`).
  `_apply_holdings` loads without a lock and writes its own version + 1. If a
  PATCH committed in between, the version does not move, and a client that saw
  the patched row overwrites the import's change without a conflict, against
  the comment in `merge.py:68`.
* **A household can lose its last owner** (`membership_last_owner`). Two
  requests of the owner: one hands the ownership over, the other, loaded
  before, still counts its own copy as an owner.
* **A lease nobody runs** (`price_refresh_runner`). A worker whose map still
  holds a task that lost its lease answers a new request with a new lease and
  starts nothing. The next request after the grace period repairs it.
* **A revoked token is accepted within the leeway** (`auth_leeway`). The row is
  deleted at expiry, decoding accepts the token for five seconds more.

## 5. What TLAPS proves

Proofs hold for every value of the constants (any number of clients, users,
workers, requests, columns, versions, jobs, runs) and use the named assumptions
of the component modules only: bounds are naturals, `NoPair`, `NoRun` and their
like are not among what they are the absence of, the import's time spans satisfy
`Interval <= Deadline <= Timeout`, there are leases enough to find an unused one,
and where something is counted it is finite (`Attempt`, `Job`). Each module
states the specification its theorems are about (`Spec`, `SessionSpec`,
`ThrottleSpec`, `RegistrationSpec`, `CategoriesSpec`, `LedgerSpec`, `WsSpec`, `PricesSpec` for
Quotes with Portfolio, `SchedulerSpec`, `LocalSpec`, `PublicationSpec`,
`CapsulesSpec`, `WorkbookSpec`, `TossSpec`, `TransferSpec`): the same Init and Next that the runs compose. Every inductive invariant below was first
checked with TLC on the instance of its run; lemmas `...Initial` and
`...Step` or a theorem `...Inductive` prove it, a `...TypeCorrect` its type part, and
the properties follow from it.

* **LedgerProofs** (PatchMerge): `TypeCorrect`, `LogCorrect`, `PatchesAreSafe`,
  `VersionsNameContents`, `RowsStayValid`. The invariant is
  `IInv == TypeOK /\ LockInv /\ VersionInv /\ CoverInv`. `NoSilentOverwrite`
  speaks of one step; to prove it one must know that the locked copy is the
  row (`LockInv`), that log entries and views do not run ahead of the version
  (`VersionInv`), and that for every client view either a version is missing
  from the log or the logged columns include all that others touched
  (`CoverInv`): so a patch that passes both tests of `merge_patch_or_raise`
  avoids what others touched. An accepted patch and a remap are both shown to
  be a "logged write" once and the invariant is proved for logged writes.
* **LedgerProofs** (Categories): `CategoryFlowsAgree`, `ReferencesAnsweredOnce`.
  `FlowAgrees` is about rows, but a handler writes what it read before other
  commits; `RequestInv` says that what a request in flight will write is still
  right or its commit will refuse it, because a category's flow never changes
  (a patch renames), because the foreign key refuses a deleted category, and
  because a number is given once (`NumbersInv`). `RefsUnique` is the unique index.
* **LedgerProofs** (LedgerOrder): `PagingReadsEachOnce`, `InsertsLandBesideAnchor`,
  `OrderOfRowsIsKept`. Sorting is by rank (`Sorted`), so that what a sorted list
  contains and how it is ordered follows from counting (`SortedByRank`: ranks are
  an injection into as many numbers) and needs no induction. The invariant says
  of each writer (`WriterOk`) that its new row is not there yet, that what it has
  locked exists and what it has renumbered is locked and in the old order, and
  that the key it will insert lies between its anchor and the next locked row;
  of two writers that they are `Apart`; and of the reader (`ReaderOk`) that it has
  seen the steady rows on this side of its cursor once and the others not yet.
  A commit changes only rows its writer has locked, or creates its own.
* **LedgerProofs** (LedgerTransfer): `AppliedIsAlwaysExported`. The invariant is
  that an intact package holds the source's rows in the source's order and its
  holdings (`PackageOK`), and that numbers of members' rows and of inserted rows
  differ (`HomeOK`). The exported list is sorted already, and a list that is in
  order is what sorting returns (`SortedIsUnique`, from counting), so the
  preparation leaves every row in its place (`PreparedInPlace`); the keys given
  to a day's rows count them, so they grow along the list and lie behind the
  largest key that stayed (`PlacedInOrder`).
* **AccessProofs** (Membership): `OneOwner`, `OutsidersOnly`, `Settled`, `JoinByInvite`.
  `IInv == TypeOK /\ RequestInv /\ PendingOnlyForOutsiders /\ SoleOwner`.
  `RequestInv` says what a request may rely on after its lock: an invitation
  being created is for an outsider as long as the household row is locked, one
  being accepted is pending as long as its row is.
* **AccessProofs** (AuthSession): `EndedTokensStayEnded`, `RefreshTokensAreExchangedOnce`,
  `BrowserKeepsALiveToken`. `TokenInv`: rows are written for ended tokens only,
  the two tokens of a pair end together, and a pair that was exchanged has
  ended. `CallInv` says of every token of a request in flight that it was
  inserted, is about to be or need not be; `HeldInv` that an uncommitted row is in
  no other transaction and not in the table, which is the unique index; `FreshInv`
  that a new pair on its way to the browser is known to nobody else, from which
  `JarIsLive` follows when it arrives.
* **AccountsProofs** (AuthThrottle): `ThrottlesHold`. What is admitted is compared
  with the row (`AttemptsInv`: those admitted in this window and those counted
  and not yet judged are at most the row's count; `FailuresInv`: failures spent
  are at most those counted or being recorded, and with the log-ins at their
  password they stay below the limit plus the number of requests), so the
  proof counts sets of requests (`IsFiniteSet(Attempt)`).
* **AccountsProofs** (Registration): `PasswordChosenByVerifier`,
  `PendingTokensWereMailed`. `OwnersInv`: continuations are minted in
  turn, and the browser that can prove one chose the password it activates;
  `FormInv`: a request that mints a continuation carries its own browser's
  password, and what a verification will set is its browser's.
  `PendingWasMailed` is a part of the invariant as it stands.
* **ImportProofs** (WorkbookImport): `WorkbookTypeCorrect`, `AlwaysImportedOnce`,
  `HoldingsAlwaysFollowSheet`. `ImportTypeOK` adds to the types that a parsed
  row's `source_ref` holds its row number (`RowsParsed`). `OnceInv` is
  `ImportedOnce` for the table and for the session of an import: a row is added
  only if no row has its reference, and edits never give one. `FollowInv` speaks
  of an import half way: holdings that were there stay (`KeptHeld`), the
  dictionary of identities is that of the session (`KeysOfSession`), one of
  references knows a holding from before or a row that was applied
  (`RefsOfHoldings`), a holding keeps its identity until the row with its
  reference comes (`KeyUntilApplied`), and every row applied so far has its
  holding or was overtaken (`RowsFollow`). A row applied with a new or a known
  holding is one lemma, `RowWritten`.
* **ImportProofs** (TossImport): `RowsAlwaysStayTogether`, by `ReadingInv`: besides
  the complete rows, every field of the pending row lies below its date and below
  the last complete row, and no header since its date. `IncludedIsAlwaysEntered`,
  by `ReviewInv`: a place of the review has one reference and a reference one
  place (`OneRefEach`), what a request asked for is in the ledger or in the rows
  it is about to commit (`AppliesReview`), and the unique index keeps one
  transaction for a reference (`EntersReview`).
* **WorkerProofs** (ImportLock): `TypeCorrect`, `SerialCommits`, `FreshLeases`.
  `IInv == TypeOK /\ \A w : JobInv(w)`; `JobInv` says that an import that has
  not noticed a failure holds the lease with the stamp it believes in, renewed
  recently enough (`Interval`, `Deadline`) not to be stale, or that its
  heartbeat or its next check will fail. `TimingAssumption` is used exactly
  there.
* **WorkerProofs** (WsAccess): `TicketsOpenOnce`. `TicketInv`: a ticket that opened a
  connection has a row that says so or has expired; `SocketInv`: a handler about
  to use its ticket read the clock before the ticket expired.
* **PriceProofs** (PriceRefresh): `OneRunnerPerLease`, `QueuedRefreshIsAnswered`.
  `SingleRunner` is inductive with `queued => in_progress`; the work is in
  `NewLeaseUnused`: among more leases than tasks, requests and the row together
  can name there is one that nobody names.
* **PriceProofs** (Quotes, Portfolio): `LiveQuotesAreFresh`,
  `PortfolioAmountsAgree`. `QuoteInv(r, k)` dates every answer from the network
  attempt through the shared future to the refresh that takes it; `ViewInv` and
  `ItemInv` say which version of a holding a reader's session may still hold
  between two awaits.
* **SchedulerProofs**: `SchedulerImplementsBoard`, the refinement of JobBoard step
  by step: every step of the scheduler is a step of the board or a stutter.
  `AssignedInv`: queue and threads agree on who runs what, an ended job is never
  assigned again, and outside the pool phase nobody has a job; `RecordedInv`: a
  job about to be recorded has no result yet and is in one worker's hands, so
  as many results as jobs means one result per job, which is how the runner
  decides that a run is complete (`IsFiniteSet(Job)`).
* **HostingProofs** (LocalRun): `ManifestsAreOwn`. `HolderInv`: only the holder of
  the kernel lock is at work and tests run only while it waits for them, unless
  they were lost; `OwnPicturesInv`: from its cleaning on, the run at work finds
  only its own pictures.
* **HostingProofs** (Publication): `PublicationsAreAtomic`,
  `PreviousEvidenceSurvives`, `CompleteMetricsAreTrue`. `Sound(t)` says what the
  flags of a target (`seen`, `had`, `installed`, `recovery`) imply about the disk
  while it is swapped, an interrupt between a call and its flag included;
  `ReachedInv` how far the loops are; `OrderInv` that targets are swapped in
  order, so that new metrics imply new evidence. In a rollback (`RollingInv`) the
  targets below the current one are still `Sound`, the current one is `Sound`,
  `Away` or `Restored`, those above it are `Rolled`. That a recovery exists
  before a backup is dropped is what keeps a copy of every previous target.
* **HostingProofs** (Capsules): `ProcessesAreAccountedFor`. `Accounted` says of
  every capsule that its database is reset before the next job, and that as long
  as nothing failed in it each of its processes is `Known`: there is a handle
  for it or it is being started or waited for. What was handed over is closed
  when the capsule is, and when capsules are closed none is at work.

`RowStaysValid` and `VersionNamesContent` (PatchMerge), `SettledIsFinal`
(Membership) and `FreshLeaseIsSafe` (ImportLock) are proved and no longer checked
by a run.

Only model-checked: liveness, which is out of the prover's reach
(`StaleLeaseYields`, `RevokedAreDisconnected`, `OrphansAreRecovered`, `QuotesEnd`,
`RunEnds`, `StopReaches`, `ChildrenEnd`), and that the violated properties of
section 4 are violated. Every invariant, action property and refinement of a
passing run is a theorem.

## 6. Not modelled

* Of modelled components: acceptance of an invitation by its id (the same handler
  body), household settings and selection, display names and profiles, the
  dashboard's overview (sums of one query), the status read of a refresh and the
  single forced quote (no route uses it), the SQLite file lock of a single-machine
  import, CSRF and origin checks, list filters, payloads of events.
* The race of two holding requests at the identity index.
* Conversions without state: cell formats of workbooks, the package's JSON,
  provider answers, mail templates, test listings and benchmark statistics.
* The frontend, schema creation and upgrade, configuration and request schemas,
  deployment, CI and live-mail scripts: I/O, DDL, glue around external services,
  or a user interface. Each is listed in `PROJECT.json` with its reason.

## 7. What could follow

Liveness proofs need a prover for fairness and `ENABLED`. Of the hazards in
`PROJECT.json`, the lock order of creating and accepting an invitation and the
connection that stays open after a slow send have no property yet.

## 8. Running

`tlc -config X.cfg MCModule` for a run of `PROJECT.json`, `tlapm ModuleProofs.tla`
for a proof module. Every run takes at most about three and a half minutes with two workers,
every proof module a few minutes from nothing.
