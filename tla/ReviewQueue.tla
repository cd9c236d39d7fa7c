---------------------------- MODULE ReviewQueue -----------------------------
(***************************************************************************)
(* The BullMQ queue "review-runs", as src/ uses it: add() with the delivery*)
(* id as jobId (a second add with the same id changes nothing, because     *)
(* removeOnComplete and removeOnFail are false), `attempts` tries with     *)
(* back-off, a lock per active job, and a stalled-job check that returns a *)
(* job whose lock expired to the queue, at most MaxStalled times.  BullMQ  *)
(* itself is a library; its delivery guarantee is at-least-once.  A job is *)
(* named by the review run it carries.                                     *)
(***************************************************************************)
EXTENDS ReviewTables

CONSTANTS Worker,       \* worker processes (replicas), one job at a time each
          NoWorker,     \* the holder of a job nobody holds
          MaxAttempts,  \* REVIEW_PULL_REQUEST_JOB_OPTIONS.attempts
          MaxStalled    \* BullMQ's maxStalledCount

ASSUME QueueAssumption ==
  MaxAttempts \in Nat \ {0} /\ MaxStalled \in Nat /\ NoWorker \notin Worker

JobState == {"none", "waiting", "active", "completed", "failed"}

VARIABLES
  jobState,  \* "waiting" covers BullMQ's wait list and its back-off delay
  attempts,  \* failed tries so far (attemptsMade)
  stalls,    \* times the job was found stalled
  lock       \* the worker whose lock on the job is valid

queueVars == <<jobState, attempts, stalls, lock>>

QueueTypeOK ==
  /\ jobState \in [RunId -> JobState]
  /\ attempts \in [RunId -> 0..MaxAttempts]
  /\ stalls \in [RunId -> 0..(MaxStalled + 1)]
  /\ lock \in [RunId -> Worker \cup {NoWorker}]

QueueInit ==
  /\ jobState = [r \in RunId |-> "none"]
  /\ attempts = [r \in RunId |-> 0]
  /\ stalls = [r \in RunId |-> 0]
  /\ lock = [r \in RunId |-> NoWorker]

(* Queue.add with jobId = deliveryId.                                      *)
EnqueuePullRequestReview(r) ==
  /\ jobState' = [jobState EXCEPT ![r] = IF @ = "none" THEN "waiting" ELSE @]
  /\ UNCHANGED <<attempts, stalls, lock>>

TakeJob(w, r) ==
  /\ jobState[r] = "waiting"
  /\ jobState' = [jobState EXCEPT ![r] = "active"]
  /\ lock' = [lock EXCEPT ![r] = w]
  /\ UNCHANGED <<attempts, stalls>>

(* The processor returned.  A worker that lost its lock changes nothing.   *)
CompleteJob(w, r) ==
  /\ IF lock[r] = w
       THEN /\ jobState' = [jobState EXCEPT ![r] = "completed"]
            /\ lock' = [lock EXCEPT ![r] = NoWorker]
       ELSE UNCHANGED <<jobState, lock>>
  /\ UNCHANGED <<attempts, stalls>>

(* Mutant of RejectJob: attempts without a limit. *)
RejectJobForever(w, r) ==
  /\ attempts' = [attempts EXCEPT ![r] = IF @ < MaxAttempts THEN @ + 1 ELSE @]
  /\ jobState' = [jobState EXCEPT ![r] = "waiting"]
  /\ lock' = [lock EXCEPT ![r] = NoWorker]
  /\ UNCHANGED stalls

(* Mutant of RejectJob: one attempt too many. *)
RejectJobOnceMore(w, r) ==
  /\ IF lock[r] = w
       THEN /\ attempts' = [attempts EXCEPT ![r] = @ + 1]
            /\ jobState' = [jobState EXCEPT ![r] =
                 IF attempts[r] < MaxAttempts THEN "waiting" ELSE "failed"]
            /\ lock' = [lock EXCEPT ![r] = NoWorker]
       ELSE UNCHANGED <<attempts, jobState, lock>>
  /\ UNCHANGED stalls

(* The processor raised: back to the queue, or failed for good.            *)
RejectJob(w, r) ==
  /\ IF lock[r] = w
       THEN /\ attempts' = [attempts EXCEPT ![r] = @ + 1]
            /\ jobState' = [jobState EXCEPT ![r] =
                 IF attempts[r] + 1 < MaxAttempts THEN "waiting" ELSE "failed"]
            /\ lock' = [lock EXCEPT ![r] = NoWorker]
       ELSE UNCHANGED <<attempts, jobState, lock>>
  /\ UNCHANGED stalls

(* The stalled-job check finds the lock of an active job expired.          *)
StallJob(r) ==
  /\ jobState[r] = "active"
  /\ stalls' = [stalls EXCEPT ![r] = @ + 1]
  /\ jobState' = [jobState EXCEPT ![r] =
       IF stalls[r] < MaxStalled THEN "waiting" ELSE "failed"]
  /\ lock' = [lock EXCEPT ![r] = NoWorker]
  /\ UNCHANGED attempts
=============================================================================
