# A verification of Family Finance

TLA+ models of the stateful parts of Family Finance (FastAPI backend, PostgreSQL,
Pluggy sync worker, Flutter client), the TLC runs that check them on small instances,
and TLAPS proofs of what matters most for every size. Paths below are relative to the
repository root; backend paths start at `backend/app/`.

## The system

| Component | State it keeps | Operations | What is hard about it | What makes it correct |
|---|---|---|---|---|
| Sync worker (`workers/sync_worker.py`, `sync/`) | `sync_jobs.status`, `pluggy_connections.status`, the data rows; in memory the job list, the SQLAlchemy session, `any_account_failed` | poll, run a job: three calls that must succeed, one account loop, five independent parts | several worker processes, crashes, retries, partial failure, rows deleted under it, expired attributes that open transactions | a "completed" job has all its data; a verdict is reached; no part is lost silently |
| Connections API (`api/connections.py`) | connections and their one job each | connect token, create, list | awaits Pluggy between checks and insert | connection and job appear together |
| Rate limiting (`services/rate_limiting.py`) | `rate_limit_hits` | count, refuse or record | count and insert are not atomic | the limit, up to a bounded overrun; the window opens again |
| Household deletion (`services/household_deletion.py`, `api/households.py`) | every table | 14 deletes after an audit insert | foreign keys, concurrent inserts, two owners, deadlock | all or nothing, exactly one audit event, not refused without a reason |
| Invites and membership (`api/household_members.py`, `api/invites.py`, `auth/dependencies.py`) | invites, members, users | invite or add, accept, first login | the mail is awaited inside the transaction; two ways in | one membership, one role, one used invite |
| Access scope and grants (`auth/access_scope.py`, `api/household_members.py:223`) | grants | replace a member's grants, resolve the scope of a request | replace against connection creation | a member sees what was granted |
| Transaction detail (`api/dashboard.py:355`) | category, splits, manual flag | recategorise, replace splits, flag | concurrent replaces, a sync that overwrites, floats against `NUMERIC` | splits are whole bodies of their clients' last requests and near the amount they were checked against |
| Transfer detection (`services/transfer_detection.py`) | `is_transfer` | match after each sync | greedy, permanent, two workers | legs are paired one to one, none is marked alone, no pair is left over |
| Anomaly rules and review (`services/anomaly_rules.py`, `api/anomalies.py`) | flags | detect, explain, review | dedupe against review, rules that read one after the other, older rows synced later | a reviewed flag is not raised again; equal charges are flagged; banks do not mix |
| Dashboards and finance queries (`api/dashboard.py`, `api/extended_finance.py`) | none | up to eight statements per request | each statement sees another state of the database | rows in scope only, nothing counted twice, references that resolve |
| Assistant, LLM providers, export, alerts, audit listing | messages, audit events | read and summarise | the same; external calls | an answer is built from what its member may see |
| Frontend session (`frontend/lib/data/repositories/auth_repository.dart`) | session, stored tokens | restore, login, refresh, logout | interleaved awaits | a logout is final |
| Frontend scope (`frontend/lib/data/scope_controller.dart`) | selected members, period | load, toggle, persist | load against toggle | the last choice wins |

How they interact: all processes share one PostgreSQL database at READ COMMITTED, and
nothing else. `create_connection` hands a job to the worker by committing a `sync_jobs`
row in status "queued"; the worker answers through the row's status. `delete_household`
takes rows away from everybody. `check_and_record_rate_limit` runs inside the requests
that call external services (connect, invite, explain, assistant). The worker runs
transfer and anomaly detection as the last two parts of a job. PROJECT.json lists the
hazards one by one, each at its line.

## Modules

| Module | Models | State and actions against the code |
|---|---|---|
| `SyncParts` | what a job consists of and in which order | A *part* is what one `db.commit()` of `run_sync_job` saves: the account rows, the transactions of an account, the bills of a credit account, snapshots, investments, loans, anomaly flags, transfers. `Follows` is the control flow from one part to the next. |
| `SyncWorker` | the worker processes beside the API | `households`, `jobStatus`, `connStatus`, `stored` are the database; `run[w]` is the local state of worker `w`: position, job list, attempt number, `any_account_failed`, the unflushed `connection.status`, and whether its session has a transaction open. A step ends at a commit, a rollback or an answer of Pluggy. `CreateConnection` and `DeleteHousehold` are the API's single transactions. |
| `SyncJobs` | the promise to the household | The life cycle of a job with nothing about workers: it runs once, and its verdict is a function of what was saved. |
| `RateLimit` | one scope of the limiter | `age` are the hits by age (rows older than the window can never be counted again, so their identity is reused), `req` the requests between their first query and their commit. `created_at` is the start of the transaction, hence the age a request carries. `Leave` is a request that ends without a hit. |
| `HouseholdDeletion` | the deletion, statement by statement | `rows` is the committed state, `del[d]` the transaction of request `d`: next statement, the ids it read, the rows it deleted. Foreign keys, row locks, the share lock of the audit insert and deadlock detection are PostgreSQL's and marked external. |
| `AtomicDeletion` | what a deletion promises | A household is a set of rows that grows; one step takes all of it away and leaves the request's audit event. |
| `Invites` | one person's way into one household | `invites`, `member`, `user` are the tables, `ask` the invite requests (a draft is flushed but not committed), `acc` the accept requests between check and insert. |
| `InviteRequests` | `invite_member` behind `check_and_record_rate_limit`; extends `Invites` and `RateLimit` | No state of its own: the limiter's requests are the invite requests (`LimiterAssumption`). `Receive` begins the transaction and looks for the person, `PassLimiter` counts and commits a hit, `TooManyRequests` is the 429, `Unlimited` ends before the limiter or inside it (a user is added without asking it), `LetThrough` is the rest of the handler. |
| `TransactionDetail` | `PATCH` and `PUT .../splits` of one transaction | `amount`, `category`, `splits` are its rows, `req[m]` the request of client `m`. The DELETE is two steps: what its snapshot holds (`sees`), and what it deletes once nobody else has a lock on it (`gone`). A PATCH to the category it loaded emits no UPDATE. `cleared` is history: up to which PUT a committed DELETE could see. `UpsertTransactions` is a second run of the sync job. |
| `TransferDetection` | `detect_internal_transfers` | `createdAt` and `isTransfer` are the rows, `run[w]` one run: the rows it read, the debits left, the pairs so far. `paired` and `overlap` are history. One debit is matched per step, as the loop does; the commit marks all legs. |
| `AnomalyRules` | the six rules as functions of a set of transactions | The deviations are compared without division, in whole cents. |
| `AnomalyFlags` | the life of the flags | `RULES` are read one statement (or two) at a time by `run[w]`, then inserted where there is no row yet; `req[m]` flags by hand, reviews, or asks for an explanation. `NextDay` is midnight passing during a run. |
| `AccessGrants` | `PUT /members/{id}/access`, and the scope of a request | `grants` are the rows, each with the number of the request that inserted it; `put[o]` a replacement, its DELETE modelled like that of the splits; `Accessible` and `NarrowedTo` are the functions of `auth/access_scope.py`. |
| `ScopedReads` | every reading endpoint; extends `AccessGrants` | `read` is a request being served: who asks, what its scope was decided from, and what each statement has read. `Endpoints` lists the statements of each endpoint in the code's order; `Statement` runs one of them on what is committed at that moment. Meanwhile banks are connected, rows inserted, splits edited, transfers marked and grants replaced. Of splits only whether a transaction has any is kept: `UpdateTransactionSplits` leaves both outcomes open that overlapping PUTs have in `TransactionDetail`. A connection's creator may be nobody (`NoMember`). |
| `MC*` | TLC's instances | |
| `*Proofs` | theorems about the module they are named after; `InvitesProofs` is about `Invites`, `RateLimit` and `InviteRequests` | |
| `SumTheorems` | facts about the community modules' sums over finite sets | |

`InviteRequests` composes `Invites` and `RateLimit`, `ScopedReads` extends `AccessGrants`,
`AnomalyFlags` extends `AnomalyRules`, `SyncWorker` and `SyncJobs` extend `SyncParts`,
`SyncWorker` instantiates `SyncJobs`, and `HouseholdDeletion` instantiates `AtomicDeletion`: what
`SyncWorker` has as one step, `DeleteHousehold`, is there shown to look like one. The other
components meet only in the database, each module containing the others' commits on its tables as actions (a sync's upsert in `TransactionDetail`, inserts in `HouseholdDeletion`,
arriving rows in `TransferDetection` and `AnomalyFlags`).

Operators introduced by "A different program" are faulty variants of the definition
that follows; no specification uses them. Each shows that a property can tell the code from
a plausible mistake in it.

## Runs

| Run | Instance | Checks | Result |
|---|---|---|---|
| `sync_two` | 2 workers, 1 connection with a checking account and a card, 2 attempts, crashes | `TypeOK`, `RunsKeepCount`, `CompletedIsComplete`, `StatusPublishedWithAccounts`, `AbandonedIsFinal` | holds |
| `sync_one` | 1 worker, 2 connections in 2 households (a card; no account), 2 attempts, crashes | `ImplementsSyncJobs`, `QueuedIsServed` | holds |
| `sync_verdict` | 1 worker, 1 attempt, no crash | `RunsToCompletion` | violated: finding 1 |
| `sync_transaction` | the same | `NeverOpenWhileWaiting` | violated: finding 4 |
| `deletion` | 2 owners, 14 tables full, 4 rows inserted meanwhile, requests killed | `TypeOK`, `AuditedOnce`, `ImplementsAtomicDeletion`, `DeletionHappens` | holds |
| `deletion_split` | 1 owner, nobody else, one split | `NeverRefused` | violated: finding 2 |
| `invite_requests` | 2 owners, 2 accept requests, 2 invites, 2 roles; 1 call per window of 1 tick, 2 rows | `TypeOK`, `JoinedByOneInvite`, `InvitedIsFound`, `RoleIsFinal`, `RateTypeOK`, `OverrunBounded`, `Reopens` | holds |
| `invites_pending` | 2 owners, 1 accept request, 2 invites | `OnePendingInvite` | violated: finding 3 |
| `detail` | 2 clients, 5 bodies, 2 amounts, 2 categories, 3 PUTs, 1 sync | `TypeOK`, `NoHalfBody`, `OnlyOverlappingStay`, `SumNearChecked` | holds |
| `transfers` | 2 workers, 5 rows of 3 accounts, a window of 2 days | `TypeOK`, `SerialRunsMarkPairs`, `NoLegAlone`, `NothingLeftToMatch` | holds |
| `anomaly_flags` | 1 worker, 2 clients, 8 transactions at 2 banks, 2 days, 3 requests | `TypeOK`, `EveryDuplicateFlagged`, `BaselinesApart`, `OnlyMembersReview`, `DismissalsAreSeen`, `FirstOfItsMerchant` | holds |
| `scoped_reads` | an owner and a member, 2 banks, one of them nobody's, all 11 endpoints, 2 replacements of grants, 1 split edit | `TypeOK`, `OnlyScopedRows`, `CountedOnce`, `ReferencesResolve`, `BreakdownsAgree`, `PutReplaces` | holds |

Deadlock checking is off in the runs of `SyncWorker`, `HouseholdDeletion` and `invites_pending`,
where the system may really come to rest: no queued job is left and every household is
deleted, every deletion request has ended, or all invites are used.

What the passing runs show, beyond their names:

* `sync_two`: two processes that poll the same queue may run one job twice, at the same
  time, and one of them may write a verdict after the other. A "completed" job is
  complete all the same, a connection's status appears only together with account rows,
  and a job that was abandoned by a crash is never taken up again.
* `sync_one`: with one worker the job life cycle is that of `SyncJobs`, and a queued job
  gets a verdict or loses its household, unless the worker dies and is not restarted.
* `invite_requests`: invitations race with acceptances, expiry, failed mails and each other,
  behind the limiter, whose commit lies between the search for the person and that for a pending
  invite. Concurrent requests
  overrun the limit, by less than their number; a scope at its limit opens again
  however often it is asked, because a refused call is not recorded.
* `deletion`: every statement is invisible from outside until the commit, in which all rows
  go and the audit event appears (`ImplementsAtomicDeletion`).
* `detail`: overlapping PUTs of two clients may leave the splits of both, because a
  DELETE does not see rows that were committed after it began; but never a part of a body,
  and nothing that was committed when the DELETE of a committed PUT began
  (`OnlyOverlappingStay`). What is true of the sum is that of each
  PUT with the amount it was checked against; two bodies side by side add up to twice that, and
  a later sync may change the amount.
* `transfers`: overlapping runs can mark three rows (each has a counterpart, and the
  marks are permanent), so of them only `NoLegAlone` is claimed; runs that do not overlap mark disjoint pairs.
* `anomaly_flags`: a run that reads rule by rule while another connection's rows arrive
  still flags one of any two equal charges it has seen; reviews are never undone by runs, and a dismissal is
  taken back only by a request that has found the flag dismissed: a flagging that loaded the flag open does not undo a dismissal that
  commits meanwhile, nor does an answer of the provider (`DismissalsAreSeen`). A new
  merchant is flagged again only for an older charge that is synced later, or for another of the
  same day that the database returns first the next time.
* `scoped_reads`: whatever is granted, revoked, connected or synced between the statements
  of a request, its rows are within the scope it decided at its beginning. An unrestricted
  scope has no list of connections, so it also sees banks connected since. A breakdown by
  category counts a transaction twice or not at all only if that transaction
  itself was edited between the statements. The breakdowns by category and by
  member count the same transactions, with splits and without, and the connections without a
  creator too (`BreakdownsAgree`); that the amounts they add up agree is not claimed: splits
  may miss their transaction's amount by the tolerance, and two bodies side by side double it.

**Bounds.** Two workers are enough for every interleaving of two runs of one job; a third
adds no new pair. One credit account exercises both calls of the account loop, a second
account the loop itself, no account the empty map; two connections the job list and a
household deleted while its job waits. Two attempts are a first and a last one (the
code has three). `Hits` is at least the number of rows that can be in the window at once,
so no request is held up by it: `RateAssumption` says so. The inserted rows of
`MCHouseholdDeletion` are an account, a transaction and a snapshot that hang from it, and a
split: the case in which the ids read before the deletes are stale. `Ids` bounds how many
invites are ever created: two, as many as there are for a double invitation or for two
accept requests to use; with one call per window of one tick both invite requests meet at the
limit and it overruns by one.
`MaxPuts` (3 of splits, 2 of grants) lets both clients overlap, and one of them come back
to splits that two have left; `MaxUpserts` and `MaxEdits` are 1, as the properties compare
before and after. `Moments` is 2: rows there from the start, and rows that arrive. In `anomaly_flags`
the thresholds of the rules (days, samples, amounts) are scaled down so that eight
transactions trigger every rule, there is one worker because runs share nothing but the
insert, `Handled` are the two flags that members handle, and `MaxRequests` lets one
member's request overlap another's and follow it. `Ties` are the orders that PostgreSQL may
return rows of one day in. `Payloads` hold an id of another household; `Chips` are the scope
bar empty and set. The proofs below do not depend on any of these bounds.

**Fairness.** `SyncWorker.Fairness` is weak fairness of each worker's own steps: the loop
never blocks for ever because Pluggy's HTTP client has a timeout and every branch ends in
a commit, a rollback or an exception. Nothing promises that somebody restarts a dead
worker, so `Restart` has no fairness and `QueuedIsServed` excuses dead workers.
`HouseholdDeletion.Fairness` says a request that has begun runs on and PostgreSQL breaks
deadlocks; `DeletionHappens` excuses killed requests. `InviteRequests` needs only that time
passes, whatever requests do. The other modules state no liveness: their requests are begun by people, and end
with whatever the one before has left.

## Findings

1. An SQL error in `upsert_accounts` is not rolled back before the commit in the `finally`
   clause: the worker ends and the job stays "running" for ever.
2. `delete_household` leaves `transaction_splits`: a household with a split cannot be
   deleted.
3. Two concurrent invitations of one address leave two pending invites, after which every
   further invitation of that address fails until all but one of them expire.
4. A job waits for `get_item`, `get_accounts`, investments and loans with a transaction open:
   `connection.pluggy_item_id`, an argument of the awaited call, is an attribute that the
   commit before has expired, and reading it begins a transaction. "Never leaves a
   database transaction open while waiting on Pluggy" (`sync_worker.py:64`) is true only of the
   calls of the account loop (theorem `LoopWaitsWithoutTransaction`).

Three more promises are not kept as they are worded. No run is devoted to them; the
models reach each case, and the properties state what is true instead.

* "so limits hold across server restarts and multiple worker processes"
  (`models/rate_limit_hit.py:13`): a limit (`LimitHolds`) is exact only for requests that come one
  after the other (theorem `SequentialLimitHolds`). Requests beside each other all count
  before one of them records; the overrun is bounded by their number (`OverrunBounded`).
* "Full-replace semantics [...] it never changes the total" (`api/dashboard.py:396`):
  overlapping PUTs can leave two bodies, which add up to twice the amount.
  What is replaced is what a PUT's DELETE could see (`OnlyOverlappingStay`), and the sum is right
  for each PUT by itself (`SumNearChecked`).
* "either counted via its own category or via its splits, never both"
  (`api/extended_finance.py:130`): the two are separate statements, and a PUT of splits that commits
  between them makes the transaction count in both or in neither. `CountedOnce` is about
  all the others (`touched` are those edited during the request).

Worth knowing besides: three
marked legs after overlapping runs; a PATCH that loses against another one when it asks
for the category it loaded; two replacements of one member's grants that leave the union, or
end in the unique constraint; an unrestricted export that may refer to a connection or
an account that is newer than the request; a deviation flag that is raised again the next
day, because its key holds the day; flags of members that a restricted member sees listed
but not exported; the assistant's totals, which know neither transfers nor splits; a
foreign-key violation in `create_connection` that is answered like a duplicate.

## Proofs

Eight modules prove theorems for every value of the constants. Each rests on the
`ASSUME` of the module it is about, whose conjuncts are types of the constants and what the
schema's keys guarantee: `PartsAssumption`, `WorkerAssumption`, `RateAssumption` (there are
identities enough for the rows of a window, so none is refused for want of one), `LimiterAssumption`
(the limiter's requests are the invite requests), `InvitesAssumption`, `DetailAssumption`,
`TransferAssumption`, `DeletionAssumption` (a row refers to rows by the foreign keys, and has a
parent for each key that is not nullable), `FlagsAssumption` and `HandledAssumption` (the flags that
members handle are flags),
`GrantsAssumption` (the creator of a connection is a member or nobody), `RowsAssumption` (ids are
unique, foreign keys hold at first, a row carries the connection of the row it is of).

Four properties are violated by the code (Findings). For each there is a theorem that says
under which condition it does hold, so that what is missing is named exactly:
`RunsToCompletionWithoutSqlErrors`, `AloneIsNeverRefused`, `OneOwnerLeavesOnePending`,
`LoopWaitsWithoutTransaction`. The conditions are no SQL error; no split and no insert; one owner;
a call of the account loop.

**`SyncWorkerProofs`**: `TypeCorrect`, `RunsCountCorrectly`, `CompletedJobsAreComplete`,
`LoopWaitsWithoutTransaction`, `StatusComesWithRows`, `AbandonedJobsStay`, for any number of
workers. `CompletedIsComplete` alone is not inductive: nothing in it says why a worker that
stands before the last commit may write "completed". The invariant adds `RunsKeepCount`: everything
`Behind` a run's place is committed unless `any_account_failed` is set.
`Behind` is the set of parts before a place; `FollowingBehind` shows that a step to
the next place adds exactly the part just done, `BehindEnds` that all parts lie behind
the end. Committed parts are only taken away with their household, and then the job is
"deleted" and the run's knowledge is no longer claimed. Each action has a lemma; those
that only move a run share `StepTo` and `LocalStepTo`.

`OnlyDeathAbandons`: a job is left running with nobody on it by a killed worker or by an SQL
error in `upsert_accounts`, and by no other step. `RunsToCompletionWithoutSqlErrors` follows,
with `Resting`: a worker between two jobs holds none.

The refinement of `SyncJobs` is proved twice. `ClaimedJobsImplement`: with any number of
workers, if no job is started that is not queued any more (`Claimed`: what a claim of the row
would ensure, and the code, which reads a list of jobs and then starts them one by one, does
not). `OneWorkerImplements`: with one worker, whose list needs no claim (`ListQueued`). The
invariant is `Serial`: what is stored of a job is no more than what lies behind its run, less if
something failed, so that the verdict it writes is the one `SyncJobs` demands; and no two
runs are in one job (`Apart`). A part that failed (`LosePartSerial`) and every local step
map to a stutter, a commit to a step of `SyncJobs`.

**`HouseholdDeletionProofs`**: `TypeCorrect`, `DeletionIsAuditedOnce`, and `DeletionIsAtomic`, the
refinement of `AtomicDeletion`: each statement maps to a stutter, the commit to the one step
that takes everything. The invariant says that committed rows name rows that exist
(`Referential`), that a request past its audit event holds the household's row so that who
deletes it is alone (`Exclusive`), and that the audit event is committed with the last row
(`Audited`). `TheHousehold` derives from the foreign keys that every row depends on the household,
so nothing can survive it. `OrderRespectsForeignKeys`: a statement is refused only for a row
inserted meanwhile or a split. It needs that the tables before the next statement are empty to
the request (`Emptied`), and `ReferringComesFirst`, a check of the 14 statements against the
schema's keys. `AloneIsNeverRefused` adds that a single request cannot deadlock and cannot find
its household gone.

**`InvitesProofs`**, on `Invites`: `TypeCorrect`, `OneInviteIsUsed`, `InvitesStay`, `RolesAreFinal`.
`Held`: a draft belongs to one request and an accept request holds a committed invite; `Used`: a
used invite made its person a member in its role, so a second one cannot be used.
`OnlyDraftsTogetherMakeTwo`: there are two pending invites for an address only if two requests
held a draft for it at one time (`DraftsAreFirst`: a draft was made when nothing was pending,
and nothing has become so); a single owner never gets there (`DraftsAreHeld`).
On `RateLimit`: `RatesAreTyped`, `OverrunIsBounded`, and `SequentialLimitHolds`: one request at a
time keeps the limit exactly. The invariant counts the requests that have
counted but not yet recorded together with the rows in the window.
On `InviteRequests`: `RequestsFollowBoth`. Its every step is a step of `Invites` and one of
`RateLimit`, or leaves one of them alone, so all of the above holds of the two together.

**`TransactionDetailProofs`**: `TypeCorrect`, `SplitsAreWhole`,
`PutsClearWhatTheySee`, `AloneReplacesAll` (one client's PUT leaves its body and nothing else) and
`SumsStayNear`. `Locks`: what requests have deleted are whole bodies, disjoint between
requests and still in the table until they commit; `Covered`: what a
DELETE could see is gone, or still in the request's hands, and what comes later is numbered
higher; `Checked`: a request past its checks, and
a row that is stored, has a body that fits the amount it was checked against. `RoundedNear`
turns the half cent of each row into the bound on the sum.

**`TransferDetectionProofs`**: `TypeCorrect`, `MarkedRowsHaveCounterparts`, `MatchingIsExhaustive`, and,
as long as no runs overlap, `RunsMarkPairs` and `TransfersNetOut`. `IInv` says of a run that its
pairs are disjoint counterparts and that a debit it has passed has its pair or finds all its
counterparts taken; `SeqInv` that without overlap nothing a run has read is marked meanwhile.
Disjoint pairs of opposite amounts add up to nothing (`PairsAddUpToNothing`), so taking
them out changes no difference of what came in and what went out over all accounts.

**`AnomalyFlagsProofs`**: `TypeCorrect`, `DuplicatesAreFlagged`, `ReviewsSurvive`, `ReopenersHaveSeen`,
`MerchantsFlaggedInOrder`, `BaselinesStayApart`, for every threshold. What two runs have read are
two moments of a table that only grows (`Chain`), so of two equal charges the later run has
seen both; `DuplicatesCaught` and `MerchantsFirst` carry what is found from a run to the table.

**`ScopedReadsProofs`**: `TypeCorrect`, `ResponsesStayInScope`, `PutsReplaceGrants`,
`BreakdownCountsOnce`, `BreakdownsCountTheSame`, `ResponsesAreWhole`, and `UndisturbedPutsReplaceAll`: a
replacement of grants with no other one for the same member beside it never meets the unique
constraint and leaves exactly what it asked for (`SeesAll`). `Numbered`: rows of later
replacements are not what a DELETE saw; `ScopeInv` ties the scope to what it was decided from;
`ReadInv` ties each statement to the scope, also where it selects by ids an earlier one has read;
`CountInv` follows a transaction nobody has touched through the statements
of a breakdown; `ForeignKeys`, `DashboardFits`, `ExportFits` and `SpendingFits` say what is read
after what.

**`SumTheorems`**: what the other proofs need of the community modules' `SumFunctionOnSet`, whose
definition folds over a set in an order it chooses: it is total and integer-valued (`SumType`), an
element can be taken out (`SumRemove`), the sum over two disjoint sets is that of both
(`SumUnion`), and sums of terms that are near each other are near each other (`SumsNear`). The library's
induction theorems take an operator as a parameter, so `SubsetInduction` states induction over the
subsets of a finite set with a set instead, from the well-foundedness of the subset
relation.

Only model-checked: the liveness properties (`QueuedIsServed`, `Reopens`, `DeletionHappens`),
which no installed prover handles. Every invariant, action property and refinement of the
passing runs is proved.

## Not modelled, and why

* The values that `normalize.py` copies (names, types, institutions), wording, severity and
  score of flags, month buckets, limits and sort orders of lists: no property is about them.
* Household creation, alerts, the audit listing and the assistant's history: one statement or
  one insert each, with nothing that could interleave with it.
* The LLM providers, mail, Pluggy and JWT verification: external; their answers are choices
  (an answer, an error, a timeout) where a handler waits for them.
* Audit rows other than that of the deletion, which no code reads back.
* A transaction that Pluggy reports again with another amount or day in `TransferDetection` and
  `AnomalyFlags`: a connection has one job in its life (`create_connection` inserts it, nothing
  else does), so that only happens when two workers run it at once; `TransactionDetail` has
  that case, where the code checks a sum against the amount.
* In `AnomalyFlags` "confirmed" is treated as "dismissed": no code tells them apart but for
  showing them. The order of rows inside one INSERT, and hence a deadlock between two.
* The Flutter client (`frontend/lib`): session, scope bar and views. Its races of awaits are
  listed as hazards; the backend verifies every token and every scope itself.
* Two first logins of one person at once (`auth/dependencies.py:31`): the unique constraint keeps
  one row and the other request fails once. A mail that is sent although its answer came too
  late is contained in `Invites` (the invite is rolled back); nothing is promised to its reader.
* The floats of the anomaly rules at their thresholds, and which error a refused insert of a
  connection is answered with.
* Connection pools, statement timeouts and the loss of the database itself.

## Plan

Done: everything under Modules, and a theorem for each safety property of the passing runs.
Worth adding next: `AuthSession` and `ScopeSelection` of the frontend (login, refresh and logout
interleaved at their awaits; load against toggle); the assistant's request from limit to
stored answer; a composition of `AnomalyFlags` with a second run of a sync job that changes
amounts. Worth proving next: a promise for concurrent replacements as an abstract
specification (whole bodies, one per client) that both `TransactionDetail` and `AccessGrants`
implement, and one for the life of a flag that `AnomalyFlags` implements.
