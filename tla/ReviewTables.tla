---------------------------- MODULE ReviewTables ----------------------------
(***************************************************************************)
(* The PostgreSQL rows the review path reads and writes, for one           *)
(* repository with one pull request, and the SQL statements on them.       *)
(* Every statement is one autocommitted query of the API or the worker, so *)
(* each operator below is one atomic step of whoever calls it; several     *)
(* deliveries and several workers interleave between any two of them.      *)
(*                                                                         *)
(* A head SHA is the number of the push that created it (1 is the head the *)
(* pull request was opened with), 0 stands for "no row".  A review run is  *)
(* identified by its delivery id (UNIQUE in the table): <<d, 0>> is the    *)
(* run GitHub delivery d created, <<d, n+1>> the dashboard retry of        *)
(* <<d, n>>, whose delivery id is "retry:" and the original run's id.      *)
(***************************************************************************)
EXTENDS Naturals, FiniteSets

CONSTANTS Delivery,    \* GitHub delivery ids
          MaxHead,     \* bound on the pushes to the pull request
          MaxRetries   \* bound on the length of a chain of retries

ASSUME TablesAssumption == MaxHead \in Nat \ {0} /\ MaxRetries \in Nat

Head == 1..MaxHead
RunId == Delivery \X (0..MaxRetries)
RetryOf(r) == <<r[1], r[2] + 1>>   \* review_run_retries.retry_review_run_id
CanRetry(r) == r[2] < MaxRetries

DeliveryStatus == {"none", "processing", "processed", "ignored", "failed"}
RunStatus == {"none", "queued", "running", "succeeded", "failed", "superseded"}

(* error_code of a failed run, as getRetryability sorts it: one of         *)
(* DETERMINISTIC_VALIDATION_ERROR_CODES, any other, or null.               *)
ErrorCode == {"null", "deterministic", "other"}

VARIABLES
  deliveryStatus, \* github_deliveries.status, "none" when there is no row
  prHead,         \* pull_requests.head_sha
  enabled,        \* repositories.enabled
  runStatus,      \* review_runs.status
  runHead,        \* review_runs.head_sha
  runError,       \* review_runs.error_code
  retryRow        \* runs with a review_run_retries row (original_review_run_id)

runVars == <<runStatus, runHead, runError>>
tableVars == <<deliveryStatus, prHead, enabled, runVars, retryRow>>

TablesTypeOK ==
  /\ deliveryStatus \in [RunId -> DeliveryStatus]
  /\ prHead \in 0..MaxHead
  /\ enabled \in BOOLEAN
  /\ runStatus \in [RunId -> RunStatus]
  /\ runHead \in [RunId -> 0..MaxHead]
  /\ runError \in [RunId -> ErrorCode]
  /\ retryRow \subseteq RunId

TablesInit ==
  /\ deliveryStatus = [r \in RunId |-> "none"]
  /\ prHead = 0
  /\ enabled = TRUE
  /\ runStatus = [r \in RunId |-> "none"]
  /\ runHead = [r \in RunId |-> 0]
  /\ runError = [r \in RunId |-> "null"]
  /\ retryRow = {}

RunExists(r) == runStatus[r] # "none"
Terminal == {"succeeded", "failed", "superseded"}
-----------------------------------------------------------------------------
(* github_deliveries: INSERT ... ON CONFLICT DO NOTHING and the verdict.   *)
DeliveryExists(r) == deliveryStatus[r] # "none"
InsertDelivery(r, s) ==
  /\ ~DeliveryExists(r)
  /\ deliveryStatus' = [deliveryStatus EXCEPT ![r] = s]
MarkDeliveryProcessed(r, s) ==
  deliveryStatus' = [deliveryStatus EXCEPT ![r] = s]

(* pull_requests: the upsert overwrites head_sha unconditionally, so the   *)
(* row shows the delivery written last, not the newest push.               *)
UpsertPullRequest(h) == prHead' = h

(* review_runs: a new row is 'queued'.                                     *)
CreateReviewRun(r, h) ==
  /\ ~RunExists(r)
  /\ runStatus' = [runStatus EXCEPT ![r] = "queued"]
  /\ runHead' = [runHead EXCEPT ![r] = h]
  /\ UNCHANGED runError

(* The runs of the pull request that a delivery for head h supersedes:     *)
(* every live run for a different head, older or newer.                    *)
(* Mutant of SupersededBy: head_sha <> $2 is forgotten. *)
SupersededByAny(h) == {r \in RunId : runStatus[r] \in {"queued", "running"}}
SupersededBy(h) ==
  {r \in RunId : runStatus[r] \in {"queued", "running"} /\ runHead[r] # h}
SupersedeQueuedOrRunningReviewRuns(h) ==
  /\ runStatus' = [r \in RunId |-> IF r \in SupersededBy(h) THEN "superseded"
                                                              ELSE runStatus[r]]
  /\ runError' = [r \in RunId |-> IF r \in SupersededBy(h) THEN "other"
                                                             ELSE runError[r]]
  /\ UNCHANGED runHead

(* The worker's three updates, all with  WHERE status <> 'superseded'.     *)
(* Mutant of UpdateStatus: no status condition. *)
UpdateAnyStatus(r, s, e) ==
  /\ runStatus' = [runStatus EXCEPT ![r] = s]
  /\ runError' = [runError EXCEPT ![r] = e]
  /\ UNCHANGED runHead
UpdateStatus(r, s, e) ==
  /\ UNCHANGED runHead
  /\ IF runStatus[r] # "superseded"
       THEN /\ runStatus' = [runStatus EXCEPT ![r] = s]
            /\ runError' = [runError EXCEPT ![r] = e]
       ELSE UNCHANGED <<runStatus, runError>>
(* Mutant of MarkRunning: no status condition. *)
MarkAnyRunning(r) == UpdateAnyStatus(r, "running", "null")
MarkRunning(r) == UpdateStatus(r, "running", "null")
MarkSucceeded(r) == UpdateStatus(r, "succeeded", "null")
MarkFailed(r, e) == UpdateStatus(r, "failed", e)

(* verify_publishable's own update has no status condition.                *)
SupersedeRun(r) ==
  /\ runStatus' = [runStatus EXCEPT ![r] = "superseded"]
  /\ runError' = [runError EXCEPT ![r] = "other"]
  /\ UNCHANGED runHead
=============================================================================
