------------------------------- MODULE RunRetry -----------------------------
(***************************************************************************)
(* ReviewRunRetryService.retryReviewRun: a developer asks the dashboard to *)
(* retry a failed run.  createRetryReviewRun writes a delivery, a run and  *)
(* a review_run_retries row between BEGIN and COMMIT, but on a pg Pool:    *)
(* the statements may run on one connection, and are then one transaction, *)
(* or on several, and are then committed one by one and not rolled back.   *)
(***************************************************************************)
EXTENDS ReviewWorker

RetryPc == {"idle", "insertDelivery", "insertRun", "insertRetry", "enqueue"}

VARIABLE rPc  \* where the request that retries each run is

RetryTypeOK == rPc \in [RunId -> RetryPc]
RetryInit == rPc = [r \in RunId |-> "idle"]

RetryMove(r, from, to) == rPc[r] = from /\ rPc' = [rPc EXCEPT ![r] = to]
NoWork == UNCHANGED <<prHead, enabled, ghHead, handlerVars, workerVars>>

Retryable(r) == runStatus[r] = "failed" /\ runError[r] # "deterministic"

(* The checks of the request: no retry yet, and a run that may be retried. *)
RetryRequest(r) ==
  /\ CanRetry(r)
  /\ r \notin retryRow
  /\ Retryable(r)
  /\ RetryMove(r, "idle", "insertDelivery")
  /\ UNCHANGED <<tableVars, queueVars, faultVars>> /\ NoWork

(* The delivery id exists already: the INSERT throws.                      *)
RetryConflict(r) ==
  /\ RetryMove(r, "insertDelivery", "idle")
  /\ DeliveryExists(RetryOf(r))
  /\ UNCHANGED <<tableVars, queueVars, faultVars>> /\ NoWork

(* On one connection: the three rows appear with the COMMIT.               *)
RetryTransaction(r) ==
  /\ RetryMove(r, "insertDelivery", "enqueue")
  /\ InsertDelivery(RetryOf(r), "processed")
  /\ CreateReviewRun(RetryOf(r), runHead[r])
  /\ retryRow' = retryRow \cup {r}
  /\ UNCHANGED <<queueVars, faultVars>> /\ NoWork

(* Mutant of RetryInsertDelivery: the job before the run and the retry row. *)
RetryInsertDeliveryOnly(r) ==
  /\ RetryMove(r, "insertDelivery", "enqueue")
  /\ InsertDelivery(RetryOf(r), "processed")
  /\ UNCHANGED <<runVars, retryRow, queueVars, faultVars>> /\ NoWork

(* On several connections: each row appears with its own statement.        *)
RetryInsertDelivery(r) ==
  /\ RetryMove(r, "insertDelivery", "insertRun")
  /\ InsertDelivery(RetryOf(r), "processed")
  /\ UNCHANGED <<runVars, retryRow, queueVars, faultVars>> /\ NoWork
RetryInsertRun(r) ==
  /\ RetryMove(r, "insertRun", "insertRetry")
  /\ CreateReviewRun(RetryOf(r), runHead[r])
  /\ UNCHANGED <<deliveryStatus, retryRow, queueVars, faultVars>> /\ NoWork
RetryInsertRow(r) ==
  /\ RetryMove(r, "insertRetry", "enqueue")
  /\ retryRow' = retryRow \cup {r}
  /\ UNCHANGED <<deliveryStatus, runVars, queueVars, faultVars>> /\ NoWork

(* The job, and retry_job_id, which only the dashboard shows.              *)
RetryEnqueue(r) ==
  /\ RetryMove(r, "enqueue", "idle")
  /\ EnqueuePullRequestReview(RetryOf(r))
  /\ UNCHANGED <<tableVars, faultVars>> /\ NoWork

RetryFault(r) ==
  /\ rPc[r] # "idle"
  /\ rPc' = [rPc EXCEPT ![r] = "idle"]
  /\ \/ dbFaults < MaxDbFaults /\ dbFaults' = dbFaults + 1 /\ UNCHANGED crashes
     \/ crashes < MaxCrashes /\ crashes' = crashes + 1 /\ UNCHANGED dbFaults
  /\ UNCHANGED <<tableVars, queueVars>> /\ NoWork

RetryStep(r) ==
  \/ RetryConflict(r) \/ RetryTransaction(r) \/ RetryInsertDelivery(r)
  \/ RetryInsertRun(r) \/ RetryInsertRow(r) \/ RetryEnqueue(r)
RetryNext == \E r \in RunId : RetryRequest(r) \/ RetryStep(r) \/ RetryFault(r)
=============================================================================
