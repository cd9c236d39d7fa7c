# A verification project for firmcode-tester

firmcode-tester reviews GitHub pull requests. A NestJS API (`src/apps/api`)
receives webhooks and stores rows in PostgreSQL, a BullMQ queue on Redis carries
the work, and a Python worker (`src/apps/worker`) analyses the changed files and
posts comments. This directory holds TLA+ models of the parts whose
correctness depends on order, failure and concurrency, the TLC configurations
that check them, and TLAPS proofs of what matters most.

Paths below are relative to the repository root `src/`; `PROJECT.json` maps each
definition to the lines it models.

## 1. Inventory

| Component | State | Operations | Interacts with |
|---|---|---|---|
| Webhook intake, `apps/api/src/modules/webhooks/github/` | none of its own; local variables of a request between awaits | `acceptDelivery`, `acceptPushDelivery` | called by GitHub (at least once, any order); writes the review tables; adds jobs to the review queue; asks GitHub which pull request a push belongs to |
| Review tables, `postgres-github-webhook.store.ts`, migrations 001 and 003 | `github_deliveries`, `repositories`, `pull_requests`, `review_runs`, `review_run_retries` | one autocommitted SQL statement per call | shared by intake, retry and worker |
| Review queue, `modules/queues/review-queue.ts` | BullMQ job per delivery id: state, attempts, lock, stall count | `add`, take, complete, reject, stalled check | filled by intake and retry, drained by the worker |
| Review worker, `firmcode_worker/review_queue.py`, `pipeline.py` | one job in progress; comments on GitHub | `process_review_pull_request_job`, `DeterministicReviewPipeline.run` | takes jobs, updates `review_runs`, posts comments |
| Run retry, `modules/review-runs/` | none of its own | `retryReviewRun`, `createRetryReviewRun` | dashboard request; writes three tables, adds a job |
| Comment publishing, `pipeline.py`, `published_comments.py` | comments on GitHub, `published_comments`, a token cached per process | progress comment, inline review, summary, records | called by the pipeline; find-then-create on GitHub |
| Codebase scans, `modules/codebase-scans/`, `modules/repositories/`, `codebase_scan.py` | `codebase_scan_runs`, findings, a second queue, a job scheduler | manual, initial and scheduled scans; configuration updates; planner; findings upserted, resolved and triaged | dashboard, sync of an installation, scheduler, worker |
| GitHub account and installations, `modules/github/` | OAuth states, connections, installations, repositories | start and finish OAuth, connect an installation, sync | GitHub, dashboard |
| Workspace resolution, `modules/auth/workspace-resolver.ts` | workspaces, memberships | `ensurePersonalWorkspace` and its lookups | every dashboard request |
| Migrations, `infrastructure/database/migrations.ts` | `schema_migrations` | apply the pending ones | start of the API |
| Analysis of changed files, `_prepare_changed_files`, `parse_patch_hunks`, `_build_semgrep_inline_review_comments` | none | read hunks, cap files, choose inline comments | pipeline |
| Large-PR handling, file risk, TypeScript diff parser, `packages/shared/src` | none | pure functions | no caller in the applications |
| LLM client and output validation, `firmcode_worker/llm`, `review` | none | retry loop, deduplication | the review pipeline does not call it; a codebase scan may, to reword findings |
| Semgrep, tree-sitter, chunker, CI explanation | none | text transformations | pipeline |
| Rules, settings, billing, dashboard queries, auth policy, web UI | rows read and written one statement at a time | reads and upserts | dashboard |

What is hard in this system:

* **Nothing is transactional across calls.** A webhook request is six to eight
  awaits, each one autocommitted. Requests for different deliveries, and repeated
  requests for one, interleave between any two of them.
* **GitHub may repeat and reorder deliveries**, and a push produces both a `push`
  and a `synchronize` delivery for the same head.
* **The queue is at-least-once.** A job is tried again after an exception, after a
  worker's death, and while its first worker is still busy if the lock expired.
* **The worker checks once and publishes later.** `verify_publishable` reads two
  rows, seconds before the GitHub calls that follow it.
* **A status is written by five different actors**: intake (create, supersede),
  worker (running, succeeded, failed), the publish check (superseded) and a retry.
* **The retry's BEGIN ... COMMIT runs on a connection pool**, so it is a
  transaction only when the pool happens to hand out the same connection.
* **GitHub has no upsert.** A comment is looked for by its marker or its text on
  the first page of a list and then written; attempts of one run, or of two,
  stand between.
* **A scan is tied to a job whose id repeats**, to unique indexes that other runs
  may hold, and to a schedule that two settings rows decide.
* **Memberships, claims and connections are checked in one statement and
  written in another.**

What makes each component correct: a delivery has at most one verdict and the
verdict says what was created; a job never starts without the rows it needs; a
status never claims more than what is on the pull request; a run that was
superseded before it could publish stays silent; a run is superseded only
because of another head; a job has one worker at a time unless a lock was lost;
whatever reaches the queue ends. Comments are not duplicated, records say what GitHub
shows, and the progress comment does not stay at "running". A scan in
progress has somebody to end it, and the findings are those of the newest scan.
An organization keeps an admin, an installation its workspace, a GitHub account
one user. A hunk is numbered as the file is, every file is accounted for, and
budgets hold.

## 2. Modules

Modules are layered by EXTENDS, so that each action names everything it changes.

| Module | Models | State |
|---|---|---|
| `ReviewTables` | the rows and each SQL statement on them | `deliveryStatus`, `prHead`, `enabled`, `runStatus`, `runHead`, `runError`, `retryRow` |
| `ReviewQueue` | BullMQ as configured by `review-queue.ts` and the worker | `jobState`, `attempts`, `stalls`, `lock` |
| `WebhookIntake` | a request handler per `<<delivery, copy>>`, one action per await | `hPc`, `hHead`, `hEnabled`, GitHub's `ghHead`, fault counters |
| `ReviewWorker` | worker processes | `wPc`, `wRun`, `posted` |
| `RunRetry` | one retry request per run | `rPc` |
| `ReviewLifecycle` | the abstract life of a run (refined by the system) | `life`, `summary` |
| `ReviewSystem` | the composition: `Next`, `Spec`, `FairSpec`, all properties | all of the above |
| `MCReviewSystem` | instances for TLC: deliveries named for what they are | |
| `ReviewSystem_proofs`, `ReviewRefinement_proofs`, `ReviewDelivery_proofs` | theorems (section 7) | |
| `CommentPublishing` | `DeterministicReviewPipeline.run` seen from GitHub: every GitHub call and every record | `comments`, `inline`, `summaryRecord`, `inlineRecord`, `token`, the attempts |
| `MCCommentPublishing`, `CommentPublishing_proofs` | its instance, theorems | |
| `ScanTables` | scan runs, findings, the scan queue and the job scheduler | `scans`, `findings`, `jobState`, `jobRun`, `attempts`, `stalls`, `lock`, `scheduler` |
| `ScanScheduling` | the API requests that schedule scans, one action per await | `qPc`, `qRun`, the settings rows |
| `ScanPipeline` | the workers' side of a scan | `wPc`, `wJob`, `wRun`, `wCommit`, `wTodo`, `branchHead` |
| `CodebaseScans` | their composition and the properties | all of the above |
| `MCCodebaseScans`, `CodebaseScans_proofs` | its instance, theorems | |
| `WorkspaceMembers` | first requests and membership changes, by statement | `members`, `created`, `req` |
| `GitHubAccounts` | OAuth, connections, claims, syncs, composed with `WorkspaceMembers` | `states`, `connection`, `owner`, `row`, `access`, `home` |
| `MCGitHubAccounts`, `GitHubAccounts_proofs`, `WorkspaceMembers_proofs` | instance and theorems | |
| `ChangedFiles` | what a review makes of the changed files: parser, cap, choice of inline comments | `lines`, `changedLines`, `outcome`, `inline` |
| `ScanPlan` | the planner of a codebase scan | `verdict`, `bytes`, `totalBytes` |
| `WorkerAnalysis`, `WorkerAnalysis_proofs` | both analyses as one specification, theorems | `job` |

`ReviewTables` and `ReviewQueue` contain no behaviour of their own: an operator
such as `SupersedeQueuedOrRunningReviewRuns` is one SQL statement, an operator
such as `RejectJob` one queue operation, and the actions of the actors call them.

How the code corresponds:

* *Intake.* `CreateDelivery` is the `INSERT ... ON CONFLICT DO NOTHING` that makes
  repeated requests harmless, together with the routing by event type that
  follows it without an await. `ResolvePushPullRequest`, `UpsertRepository`,
  `UpsertPullRequestRow`, `SupersedeOthers`, `CreateRun`, `EnqueueRun`,
  `MarkDelivery` are the awaits in their order. `HandlerFault` is a call that
  throws: inside the `try` block the delivery is marked failed, outside it the
  request ends. `HandlerCrash` is the death of the API process. The early
  exits (disabled repository, draft, no open pull request, unsupported event,
  deleted ref) are branches of these actions.
* *Worker.* `TakeReviewJob`, `StartRun` (`mark_running`), `VerifyPublishable` and
  `VerifySupersede` (the read, then the unconditional update),
  `PublishInline`, `PublishSummary`, `FinishRun` (`mark_succeeded`),
  `CompleteReviewJob`; or `PipelineFails`, `FailRun` (`mark_failed`),
  `RejectReviewJob`. The early return of a run that may not publish also ends in
  `mark_succeeded`, as in the code: only the `status <> 'superseded'` condition
  of that update keeps the status. `WorkerFault` is a status update that the
  database refuses. `WorkerCrash`, `FreezePastLock` and `RecoverStalledJob` are
  the ways a job changes hands.
* *Retry.* `RetryRequest` is every check of the service; then either
  `RetryTransaction` (one connection) or `RetryInsertDelivery`, `RetryInsertRun`,
  `RetryInsertRow` (several), then `RetryEnqueue`. `RetryFault` stops the
  request anywhere.

* *Publishing.* `StartAttempt` is a job taken (first attempt or not); `Publish` begins a
  `_publish_progress`, whose `ProgressList` and `ProgressWrite` are the GET and
  the PATCH or POST and whose errors are swallowed (`ProgressNotPublished`);
  then `Analyse`, with the two early ways out of the publish check; `InlineList`,
  `InlinePost`, `InlineRead`, `RecordInlineComments`; `SummaryList`,
  `SummaryWrite`, `RecordSummaryComment`, and the last progress. `CallFails` is any
  other call that raises, with or without its effect on GitHub.
* *Codebase scans.* A request goes from `StartRequest` through `SaveConfiguration`,
  `SaveRepository`, `FindTarget`, `SetScheduler`, `FindTargetAgain`, `FindActive`,
  `InsertScanRun`, `Enqueue` as far as its kind does; `MarkEnqueueFailed` is the
  `catch`. A worker goes `Take`, `CreateScan` (only a scheduled job),
  `AssertRepositoryEnabled`, `FetchDefaultBranchSha`, `HasSuccessful`,
  `MarkSuperseded` or `MarkRunning`, `UpsertFinding`, `MarkSucceeded`,
  `ReadOwnStatus`, `ResolveStaleFindings`, `MarkSucceeded` again; an exception
  leads to `MarkScanFailed`. The partial unique indexes of migration 008 are conditions
  under which an insert or an update raises.
* *Accounts.* A request is a record with a program counter; each action is one
  statement or one call to GitHub. What was read before (a membership, an
  owner, a list of repositories) is a field of the record.
* *Analysis.* `OpenFile`, `ReadHeader`, `ReadLine`, `CloseFile` read one patch;
  `CapFiles` skips the rest; `SelectInline` is the sort and the cut. `Decide` is
  one turn of the planner's loop, `FinishPlan` and `AbandonPlan` its ends.

### Abstractions

Of the review path:

* One repository with one pull request. Runs of different pull requests touch no
  common row, except for the queue, in which jobs do not affect each other.
* A head SHA is the number of the push that created it; 0 is "no row".
* A run is named `<<delivery, depth>>`: depth 0 is GitHub's delivery, depth n+1
  the dashboard retry of depth n, whose delivery id in the code is `retry:` and
  the original run's id. A second retry request for the same run at the same time
  reaches the UNIQUE delivery id and changes nothing, so one request at a time is
  modelled for each run.
* Events are the five kinds the handler tells apart (`EventKind`). Signature and
  payload validation precede the first effect.
* A failed call has no effect. A call that took effect and whose reply was lost
  leads to the state that is also reached when the call succeeds and the next one
  fails or the process dies.
* Fetching files, semgrep, tree-sitter and diff parsing touch no shared row, and
  stand between `StartRun` and `VerifyPublishable` without a step of their own;
  they may raise (`PipelineFails` at `verify`).
* When the pool spreads BEGIN and the INSERTs over connections, one of the
  connections could also be left inside a transaction that another request then
  commits or rolls back. Only the two outcomes above are modelled.
* BullMQ is modelled from the options it is given. That it accepts
  `retry:<run id>` as a job id is assumed.
* `updateReviewRunStatus` and `verifyReviewRunHeadBeforePublishing` of the store
  have no caller in the program and are left out. Progress comments are in
  `CommentPublishing`; artifact files and rows are left out.

Of comment publishing:

* A comment is its position in GitHub's list; the listing is taken to be current.
* `verify_publishable` answers either way; what makes it answer is `ReviewSystem`'s.
* Two summary bodies of one run may be equal or differ, so that the unique index
  on run and body hash may or may not be hit. How many comments say "running"
  beside the one the worker finds is left open. `dry_run` and records without a
  GitHub id are left out.
* A token is valid until it expires and is not renewed while the process lives,
  as `review_queue.py:237` builds one client per process.

Of codebase scans:

* One repository; a commit is its place on the default branch. What Semgrep finds in
  a commit is the constant `Seen`. Artifact files and the optional rewording of
  findings by an LLM change no row.
* The suppressed and false-positive statuses are one, since the upsert treats
  them alike. Audit events and read-only queries are left out.

Of accounts:

* An installation without a row and one with a NULL workspace are alike. An
  organization workspace is the organization, as its unique id lets only one
  INSERT create it.
* The default organization, audit events and the initial scan a sync enqueues are
  left out (the last is the `sync` request of `ScanScheduling`). Resolving a selected
  workspace only reads. New members get `developer`, the code's default.

Of the analyses:

* A patch is made from an edit script, so that there is a truth to compare with: GitHub
  shows some of its lines, in hunks. A line's text does not matter, except that a
  carriage return inside it makes two lines of one (`ReadSplitLine`).
* A blob is its place in path order, with a size and a class of path.

## 3. Properties

Safety, in `ReviewSystem`:

* `VerdictIsFinal`: a delivery that has a verdict never gets another one.
* `VerdictMatchesWork`: "processed" only when run and job exist, "ignored" only
  when neither does.
* `JobHasRun`: a job has its run, and a retry's job also has the row that ties it
  to the original, with the same head.
* `SucceededMeansPublished`: a succeeded run has its summary on the pull request.
* `SealedRunStaysSilent`: a run superseded while no worker is past the publish
  check for it stays superseded and never posts again.
* `SupersessionHasCause`: a run is superseded only if a request for another head
  has written the pull request's row.
* `CurrentHeadIsReviewed`: once everything is handled and the row shows the head
  on GitHub, a run for that head was carried through, provided no late push or
  synchronize names an older head and nothing failed.
* `OneWorkerPerRun`: without a crash or a freeze no two workers are at one run.
* `RefinesLifecycle`: seen from the status and the summary alone, the system is
  `ReviewLifecycle`.

Liveness, under `FairSpec`: `DeliveriesEnd`, `JobsEnd`, `QueuedRunsEnd`.

In `CommentPublishing`:

* `OneCommentPerMarker`, `OneCopyPerInlineComment`: there are never more copies of a
  marker comment that is on the first page, or of an inline comment, than attempts
  were at work at once.
* `CompletedMeansPublished`: a run that ended normally has its comments, and records
  name only comments that exist.
* `RecordNamesTheRunShown`: the record of a summary comment names the run shown in it.
* `ProgressCommentEnds`: at rest the progress comment does not say "running"; the
  exceptions (`excused`) are written out: the last progress failed or was never begun,
  or attempts have met since nobody was at work (`sideBySide`), so that the last
  progress of one may go to a comment that the list no longer shows.

In `CodebaseScans`:

* `NoScanIsStranded`: a scan shown as in progress has a job, a worker or a
  request that will end it.
* `SupersededMeansScanned`: a scan is skipped only for a commit another run scanned.
* `FindingsFollowTheLastScan`: the open findings are those of the newest commit
  scanned, as long as scans do not overlap.
* `ScheduleFollowsSettings`: at rest there is a job scheduler only for a repository
  that is to be scanned.

In `WorkspaceMembers` and `GitHubAccounts`:

* `OneAdminRemains`, `PersonalWorkspacesAreFew`, `InstallationKeepsItsWorkspace`,
  `AccountHasOneUser`, `FiledRepositoriesAreVisible`.

In `ChangedFiles` and `ScanPlan`:

* `LinesAreNumberedRight`: the parser's numbers are those of the edit script.
* `EveryFileIsAccountedFor`, `InlineCommentsAreTheWorst`, `PlanKeepsBudgets`.

Where the code really allows an exception, the property names it by a history
variable that is set by exactly that exception (`excused`, `unrecorded`,
`abandoned`, `JobIdTaken`, `uncounted`, `split`); section 6 says what each one is.

Every property of a passing run has a mutant in `PROJECT.json`: a plausible bug,
written beside the definition it changes ("Mutant of ..."), that makes the run fail.

## 4. Runs

| Run | Instance | What it shows |
|---|---|---|
| `intake` | push, draft, ignorable event and tag push, two requests each; one failing call; the repository may be switched off | one truthful verdict per delivery |
| `workers` | an `opened` of head 1 and a `synchronize` of head 2, in any order; two workers; two attempts; one stall; one crash or freeze | statuses, supersession, the publish check, lock loss, refinement |
| `one_push` | the `push` and the `synchronize` of one push, and an `opened` of the head before; one worker | supersession between deliveries of the same head; some run for the current head is carried through |
| `retries` | one delivery and its retry; two workers; two attempts; one failing call and one crash | a half-made retry never starts; a retry beside the re-attempts of the original |
| `progress` | `opened` and `push` with two heads; one worker; one crash; fairness | what is begun ends |
| `publishing` | an older and a newer run of one pull request, three attempts in all, two workers, pages of two comments | duplicates, records, the end of the progress comment |
| `scans` | two API requests in five combinations, one scheduler tick, two workers, a push | the life of scan runs, findings and schedule |
| `accounts` | two users, two organizations, two GitHub accounts, an installation, a repository that moves; three requests, two at a time | checks and writes of different requests interleave |
| `analysis` | three files with patches of up to three lines, two findings; trees of four blobs | the algorithms against their definitions |
| `late_supersession` | as `workers`, smaller | expected violation, see section 6 |
| `out_of_order` | two `synchronize` deliveries | expected violation |
| `stalled_out` | one delivery, two crashes, one stall allowed | expected violation |

### Bounds, and why they are enough

* `Delivery`: what a request does depends on its kind and head. Interference
  between deliveries is through supersession and `pull_requests.head_sha`, which
  two deliveries of different heads exercise in both orders.
* `Copies = 2`: a third request for a delivery meets what the second meets, an
  existing row.
* `MaxHead = 2`: equal and different heads, older and newer.
* `MaxRetries = 1`: the retry of a retry is the retry of a run of the same table.
* `MaxAttempts = 2` (the code: 3): a last attempt and one that is not.
  `MaxStalled = 1` is BullMQ's default.
* `MaxDbFaults`, `MaxCrashes` bound failures per behaviour; each can hit at any
  step. In `progress` crashes are no more than a job may stall, which is exactly
  the assumption `QueuedRunsEnd` states.

* `publishing`: `MaxAttempts = 3` is one attempt more than there are workers, so a
  re-attempt meets a first attempt of another run; `PageSize = 2` (the code: 100) with
  room for four comments lets a comment of somebody else push one or both marker
  comments off the page; the two runs share one inline comment and differ in another.
* `scans`: `MaxScans = 2` is a scan and a second one that meets it, in the index, the
  reuse or the skip; `MaxCommit = 2` an older and a newer commit; a finding that the
  second commit fixes; `MaxAttempts = 2`, `MaxStalled = 1`, one fault, as above. The five
  combinations of requests are those that touch the same rows.
* `accounts`: `MaxRequests = 3` is two that interleave and one that comes after.
* `analysis`: three lines are enough for a hunk that begins and ends inside the file and
  for two hunks; two findings and room for one comment; a cap of two with three
  files.

What the bounds leave open is proved (section 7) for every safety property of these
runs; only the liveness of `progress` rests on its bounds alone.

Deadlock is checked in every passing run of the review path: the only states without
another step are those of `Quiescent`, where all handlers are done, all workers idle, and
no job is waiting. In `publishing`, `scans`, `accounts` and `analysis` the number of
attempts, requests and lines is bounded and nothing goes on after them, so these four
switch the deadlock check off; they check no liveness either. Symmetry is used for
workers, and for requests and GitHub accounts in `accounts`, in runs that check no
liveness.

## 5. Fairness

Liveness is checked on the review path. `FairSpec` assumes weak fairness only: a request that has been received keeps
running, so does a worker that has a job, and so does a retry request (both
runtimes are event loops that run what is ready); a waiting job is taken when a
worker is idle (BullMQ's blocking read); the stalled check of an orphaned job
runs again and again (every 60 seconds). Nothing obliges GitHub to deliver,
users to push or to retry, the pipeline to fail or to succeed, or a fault to happen.

## 6. Findings

Three statements of the documentation do not hold in the code; each is an
expected violation with a short counterexample.

1. `late_supersession`. `docs/WEBHOOK_IDEMPOTENCY.md:35` says a superseded run
   never publishes unless it completed before. `verify_publishable` is asked once
   and the comments follow; a supersession in between is not seen.
   `SealedRunStaysSilent` is what does hold.
2. `out_of_order`. `docs/WEBHOOK_IDEMPOTENCY.md:34` says runs for older SHAs are
   superseded. The statement supersedes every run with another SHA: an old
   `synchronize` handled late supersedes the run of the current head.
3. `stalled_out`. `docs/PRD.md:87` says failed jobs are retryable from persisted
   state. A job failed by the stall limit leaves its run `running`, which the
   retry refuses.

Met on the way, not stated as properties:

* `docs/WEBHOOK_IDEMPOTENCY.md:47` speaks of re-fetching the head before
  publishing; the worker compares with `pull_requests.head_sha`, which only a
  handled webhook moves.
* A push that matches no head falls back to the first open pull request
  that contains the commit.
* A retry that stops between its INSERTs (when not in one transaction) leaves the
  delivery row; every later request hits the UNIQUE id, so the run can never be
  retried. A retry whose job cannot be added leaves a queued run that no
  request re-adds. `JobHasRun` shows that neither starts.
* A delivery whose request died stays `processing`; a redelivery is answered as a
  duplicate. `DeliveriesEnd` excuses exactly this.

Of codebase scans:

* A manual scan without a commit always has the same job id, and BullMQ ignores an
  `add` whose id exists; completed and failed jobs are kept. The second manual
  scan of a repository stays queued and later requests reuse its row, although
  `docs/OPERATIONS_RUNBOOK.md:164` and `:201` prescribe one. The same holds for
  install scans (`JobIdTaken`).
* A worker that dies between a scheduled run's insert and `mark_running` leaves a
  queued run without a commit; the index on repository and trigger makes every later
  scheduled scan of the repository fail.
* A request whose `add` failed marks its run failed, also when it had reused a run that a
  worker has meanwhile ended with success.
* A second attempt after a stall may fail or supersede the run that the first is
  still working on.
* The worker asks only for `repositories.enabled`: switching scans off does not
  stop a job that is already queued.
* A sync that overlaps with a configuration update may leave a scheduler for a repository
  that is not to be scanned (`overlapped`); so may a failure between the two
  statements of `repositories.store.ts:1017`.

Of comment publishing:

* Once a hundred comments stand before it, a marker comment is not found, a new one is
  posted, and its record may violate the unique index on run and body.
* A run that is not publishable any more returns without a last progress (`excused`).
* An attempt lists the comments, then patches the one it found or posts a new one. When two
  attempts meet there, the last "completed" may be written to a comment that is no longer
  the one found first, while that one still says "running" (`sideBySide`).
* The cached token lives for an hour and the process may live longer.

Of accounts:

* `settings.service.ts:174` says at least one active admin must remain. Two admins who
  remove each other at the same time both count the other one (`uncounted`).
* `docs/RELEASE_CHECKLIST.md:77` lets developers manage installations; the
  policy lets only admins.
* A connection is moved by a DELETE and an INSERT; the account is nobody's if the
  process dies in between.
* Two first requests at once create two personal workspaces.
* An installation that is claimed between the check and the upsert ends the rest of
  `connectAccessibleInstallations` without a message.
* A list of repositories that is out of date when it is filed moves a transferred
  repository back to its former installation.

Of the analyses:

* `parse_patch_hunks` replaces every carriage return by a line feed: one inside a line makes
  two lines of it, and the rest of that hunk is misnumbered (`split`).

## 7. Proofs

Every safety property that a passing run checks, and each of the action properties,
is proved for every value of the constants: any number of deliveries, workers,
requests, users and files, any assignment of kinds and heads, and every bound. Only
the named assumptions are used, which TLC evaluates in each run:

* `TablesAssumption`, `QueueAssumption`, `IntakeAssumption`, `WorkerAssumption`,
  `ScanTablesAssumption`, `SchedulingAssumption`, `PipelineAssumption`,
  `ChangedFilesAssumption`, `ScanPlanAssumption`, `AccountsAssumption`: bounds are naturals,
  inputs have their type, `NoWorker`, `NoRun` and `Nobody` are not members of the sets
  they stand beside.
* `PublishingAssumption` and `MembersAssumption` also say that the set of workers, the
  comments one run wants, and the set of requests are finite: the properties count
  attempts and requests, and a count of an infinite set means nothing.

`ReviewSystem_proofs`:

* `TypeCorrect`, `TypeSafety`: `Spec => []TypeOK`. `TypeOK` is not inductive, since
  `attempts` and `stalls` would leave their range if a job with spent attempts
  were still waiting. `QueueInv` is the strengthening: a job that may still run has
  attempts and stalls left, and a lock is held exactly while its job is active.
* `SucceededIsPublished`: `Spec => []SucceededMeansPublished`. The strengthening
  `PublishInv` adds what a worker about to call `mark_succeeded` knows: its run is
  superseded, or its summary is up. It is inductive because of `Monotone`:
  no step of anybody ends a supersession or removes a comment.
* `SealedStaysSilent`: `Spec => SealedRunStaysSilent`, an action property. A worker
  gets past the publish check only with a run that is not superseded, and only a
  worker past the check adds comments.
* `OneWorker`: `Spec => []OneWorkerPerRun`. `LockInv`: before the first crash or
  freeze a worker holds the lock of its job and an active job is with its
  worker, so the stalled check never finds an orphan.

`ReviewRefinement_proofs`:

* `JobsHaveRuns`: `Spec => []JobHasRun`. `ExistInv` and `RetryInv` say that whoever is
  past the creation of a run (a job, a handler about to add one, a worker, a
  retry request) has it, and that a retry's run stands beside its original's with
  the same head. Heads are compared across the chain, so the invariant speaks
  of all runs, not of the jobs alone.
* `ImplementsLifecycle`: `Spec => RefinesLifecycle`, the refinement of
  `ReviewLifecycle`, one lemma per actor. `Create` needs that the run is new, `Start`,
  `Fail` and `Supersede` that it exists (`ExistInv`), `Succeed` that its
  summary is up (`PublishInv`).

`ReviewDelivery_proofs`:

* `VerdictIsTruthful` and `VerdictStays`: `VerdictMatchesWork` and `VerdictIsFinal`.
  `DeliveryInv`: at most one request of a delivery is at work, its row says
  "processing", and the run and the job exist exactly as far as it has come.
* `SupersededForCause`: `Spec => []SupersessionHasCause`. `CauseInv`: the head in the
  pull request's row was written by some request, and a worker about to supersede
  its run has seen another head; causes never go away.
* `HeadIsReviewed`: `Spec => []CurrentHeadIsReviewed`. The property speaks of a state of
  rest, so two invariants say how it is reached. `HeadInv`: as long as nothing is
  disturbed and the row shows the head on GitHub, some request *stands* for that head: its
  run is about to be created, or is there with that head, not superseded, and with
  nobody about to supersede it. The witness changes: an `opened` delivery that comes late
  moves the row back, and the next request that writes the head stands for it.
  `WayInv`: without faults a run that has not ended is on its way, with its request before
  the `add`, its job waiting, or a worker at it. At rest nothing is on its way, so
  the run that stands for the head has ended.

`CommentPublishing_proofs`:

* `SpecTypeOK`. `TypeInv` adds that a worker with an id in hand has that of a comment that
  exists, with the marker looked for, and that the attempts at work are never more than
  `width`.
* `SpecCompletedMeansPublished`. `PublishedInv`: what is on GitHub at each place of `run()`;
  inline comments are there, then recorded, then a summary is. Comments and
  records are never taken back (`Grows`), so no other attempt disturbs it.
* `SpecRecordNamesTheRunShown`. `RecordedInv`: a summary whose record differs is in the hands of
  the one attempt about to record it.
* `SpecProgressCommentEnds`. `ProgressInv`: an attempt that has met no other still finds the
  comment it is about to write. `SomebodyComments` does not spoil that: a list grows
  at its end, so the first page keeps what it shows.
* `SpecOneCommentPerMarker`, `SpecOneCopyPerInlineComment`. `MarkerInv` and `CopyInv`
  count the copies *and* the attempts that have seen none and are about to post: together
  they are at most `width`. A post moves one from the second set to the first. An attempt
  joins the second set only when its list shows no copy, and then there are only attempts
  to count, which `TypeInv` bounds by `width`.

`CodebaseScans_proofs`:

* `SpecTypeOK`. `JobInv`, `WorkerInv`, `RequestInv`: a job, a worker and a request name a
  run that has a row, and a worker past `mark_running` one that has its commit.
* `SpecSupersededMeansScanned`. `ScannedInv`: a worker about to skip a commit knows of a run
  that scanned it, and runs that scanned are remembered in `scanned`.
* `SpecNoScanIsStranded`. `StrandInv` is stronger than the property: a worker about to
  return or raise, an active job without its worker and a request whose job id is in
  use do not count. Each step that lets go of a run must end it or hand it on.
* `SpecScheduleFollowsSettings`. `ScheduleInv`: an update that overlaps with no other request
  is alone, and what the settings and the schedule say is given for each of its
  statements, at which they differ for a while.
* `SpecFindingsFollowTheLastScan`. `FindingsInv`: while nothing is disturbed one worker at
  a time is between its reading of the branch and its last write; what it has upserted
  so far is open, it scans no older commit than `latest`, and its run can be marked
  `succeeded` without meeting the unique index of migration 008.

`GitHubAccounts_proofs` and `WorkspaceMembers_proofs`, from `MembersAssumption`
and `AccountsAssumption`:

* `AdminRemains`: `Spec => []OneAdminRemains`. `AdminInv`: a request that is about to write
  with a valid count has another active admin besides its target; whatever
  removes that admin voids the count.
* `InstallationKept`: `Spec => InstallationKeepsItsWorkspace`. Only the upsert writes an
  owner, and its WHERE leaves another workspace's claim alone, whatever the check before
  it saw.
* `OneUser`: `Spec => []AccountHasOneUser`. `AccountInv` is the property with the domain of
  the table; it is inductive beside `AdminInv`, which says what a request at each point
  has: an account is in the table, or in the hands of a request that will insert it.
* `AccountsTypeOK`, `FiledVisible`: `TypeOK` and `FiledRepositoriesAreVisible`.
  `AccountsInv`: a request at each of its statements has what that statement names; in
  particular the installation it files under is claimed, and stays claimed
  (`InstallationKept` says by whom).
* `PersonalFew`: `Spec => []PersonalWorkspacesAreFew`. `PersonalInv` counts the personal
  workspaces a user has and the first requests that may still add one: together
  they are at most `peak`. It needs that nobody is an admin of a personal workspace, so
  that no settings request changes a membership there.

`WorkerAnalysis_proofs`, from `ChangedFilesAssumption` and `ScanPlanAssumption`:

* `LinesNumbered`: `Spec => []LinesAreNumberedRight`, for edit scripts of any length cut into any
  hunks. `ParserInv`: inside a hunk each counter of the parser is one more than the number
  of old (new) lines before its position, provided the rest of the hunk has such a line.
  That is what the header says at the start of the hunk and what each line keeps.
* `FilesAccountedFor`: `Spec => []EveryFileIsAccountedFor`, for any number of files
  and any cap. `FilesInv`: exactly the files up to `cursor` are decided, and `cursor` stays
  within the cap, so the reviewed files are among the first `MaxFiles`.
* `CommentsAreTheWorst`: `Spec => []InlineCommentsAreTheWorst`, for any number of
  findings. The model gives each candidate the place a stable sort gives it, by counting
  the candidates before it; `PlacesSort` shows that this is a permutation in order of rank,
  so that the first places are the worst (`FirstAreWorst`).
* `BudgetsKept`: `Spec => []PlanKeepsBudgets`, for trees of any size. `BudgetsInv`: a function
  from positions to naturals gives the bytes selected so far, and `totalBytes` is its last
  value. `OneTotal` shows that there is only one such function, with the least
  position at which two could differ (`LeastNumber`, from the library's theorem on
  well-founded relations), so it is the recursive one of the property. This is
  the only induction over data; it is stated about sets of numbers, not about predicates.
* `AnalysisTypes`: `Spec => []TypeOK`.

Each step lemma has one case per action or per actor; the temporal part of a
theorem is its last line. The strengthenings were checked by TLC on the runs'
instances before they were proved, except for `BudgetsInv`, which quantifies over
functions into the naturals.

What attempted proofs said about the models, each corrected since:

* The history behind `ProgressCommentEnds` only looked at attempts at work at the same moment as
  the last write. With two faults TLC then found a progress comment left at "running" by
  an attempt that had met another one earlier; `sideBySide` remembers the meeting until
  nobody is at work.
* `peak` counted logins into organizations too, which gave `PersonalWorkspacesAreFew` slack
  the code does not need. `LoginsOf` now counts first requests without an organization.
* Two CASE expressions of `ScanScheduling` had guards that overlap, so that the value in
  the overlap was TLC's choice, not the code's order of conditions.
* `SomebodyComments` went past `MaxComments` at its bound.

Only model-checked: the liveness properties `DeliveriesEnd`, `JobsEnd` and `QueuedRunsEnd`
(TLAPS does not prove liveness under fairness). The three violated properties
are refuted by their runs.

## 8. Not modelled, and plan

Not modelled, with the reasons in `PROJECT.json`: authorization policy, rules, billing
and the other settings, dashboard queries (decisions without state, single statements),
the web UI, wire contracts (they guard what the models take as given), the adapters of
Semgrep and tree-sitter, chunker and CI explanation (text transformations), the large-PR
and risk functions of `packages/shared` and the TypeScript comment publishers and diff
parser (no caller in the applications), migrations. The trees `semgrep`,
`pr-agent` and the tree-sitter grammars are third-party code that this system runs as
programs or does not run at all. They are most of the Python lines of the repository, so
the models cover the core of firmcode's own stateful code and a small share of
the whole.

Next, in this order:

1. An abstract specification of a scan run that `CodebaseScans` implements, as
   `ReviewLifecycle` is for review runs: which outcomes a re-attempt or a failed request
   may still change (section 6), and that a commit scanned stays scanned.
2. One of the marker comments, seen as a register that attempts write, implemented by
   `CommentPublishing` as long as attempts do not meet.
3. Migrations: two processes and one list of pending migrations.
