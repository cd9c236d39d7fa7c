----------------------------- MODULE ReviewWorker ---------------------------
(***************************************************************************)
(* The Python worker: run_bullmq_review_worker takes a job,                *)
(* process_review_pull_request_job marks the run and calls                 *)
(* DeterministicReviewPipeline.run, which analyses the changed files, asks *)
(* the database once whether the run may still publish, and then posts     *)
(* inline comments and the summary.  Everything between two statements     *)
(* that other processes can see is one step.                               *)
(***************************************************************************)
EXTENDS WebhookIntake

CONSTANT NoRun  \* what an idle worker works on
ASSUME WorkerAssumption == NoRun \notin RunId

VARIABLES
  wPc,    \* where each worker process is in its job
  wRun,   \* the run of that job
  posted  \* <<run, kind>>: comments a run has put on the pull request

workerVars == <<wPc, wRun, posted>>

WorkerPc == {"idle", "markRunning", "verify", "verifySupersede",
             "inline", "summary", "markSucceeded", "complete",
             "markFailed", "reject"}
CommentKind == {"inline", "summary"}

WorkerTypeOK ==
  /\ wPc \in [Worker -> WorkerPc]
  /\ wRun \in [Worker -> RunId \cup {NoRun}]
  /\ \A w \in Worker : wPc[w] # "idle" <=> wRun[w] # NoRun
  /\ posted \subseteq RunId \X CommentKind

WorkerInit ==
  /\ wPc = [w \in Worker |-> "idle"]
  /\ wRun = [w \in Worker |-> NoRun]
  /\ posted = {}

Move(w, from, to) == wPc[w] = from /\ wPc' = [wPc EXCEPT ![w] = to]
Free(w, from) == Move(w, from, "idle") /\ wRun' = [wRun EXCEPT ![w] = NoRun]
Busy(w, r) == wRun[w] = r
NoIntake == UNCHANGED <<deliveryStatus, prHead, enabled, retryRow,
                        ghHead, handlerVars>>
-----------------------------------------------------------------------------
TakeReviewJob(w, r) ==
  /\ Move(w, "idle", "markRunning")
  /\ TakeJob(w, r)
  /\ wRun' = [wRun EXCEPT ![w] = r]
  /\ UNCHANGED <<posted, runVars, faultVars>> /\ NoIntake

(* The whole run goes ahead even when the update matched no row because    *)
(* the run was superseded while it waited in the queue.                    *)
StartRun(w) ==
  /\ Move(w, "markRunning", "verify")
  /\ MarkRunning(wRun[w])
  /\ UNCHANGED <<wRun, posted, queueVars, faultVars>> /\ NoIntake

(* Mutant of VerifyPublishable: no check before publishing. *)
VerifyNothing(w) ==
  /\ Move(w, "verify", "inline")
  /\ UNCHANGED <<wRun, posted, tableVars, queueVars, faultVars>> /\ NoIntake

(* Once the files are fetched and scanned, which touches no row of this    *)
(* model, verify_publishable reads the run and pull_requests.head_sha (not *)
(* GitHub); every comment is posted after this one check.                  *)
VerifyPublishable(w) ==
  LET r == wRun[w]
  IN  /\ Move(w, "verify",
              IF runStatus[r] = "superseded" THEN "markSucceeded"
              ELSE IF runHead[r] # prHead THEN "verifySupersede"
              ELSE "inline")
      /\ UNCHANGED <<wRun, posted, tableVars, queueVars, faultVars>> /\ NoIntake
VerifySupersede(w) ==
  /\ Move(w, "verifySupersede", "markSucceeded")
  /\ SupersedeRun(wRun[w])
  /\ UNCHANGED <<wRun, posted, queueVars, faultVars>> /\ NoIntake

(* Mutant of PublishInline: a run with inline comments skips its summary.   *)
PublishInlineOnly(w) ==
  /\ Move(w, "inline", "markSucceeded")
  /\ posted' = posted \cup {<<wRun[w], "inline">>}
  /\ UNCHANGED <<wRun, tableVars, queueVars, faultVars>> /\ NoIntake

(* publish_inline_review_comments, unless no finding earned a comment.     *)
PublishInline(w) ==
  /\ Move(w, "inline", "summary")
  /\ \/ posted' = posted \cup {<<wRun[w], "inline">>}
     \/ UNCHANGED posted
  /\ UNCHANGED <<wRun, tableVars, queueVars, faultVars>> /\ NoIntake

PublishSummary(w) ==
  /\ Move(w, "summary", "markSucceeded")
  /\ posted' = posted \cup {<<wRun[w], "summary">>}
  /\ UNCHANGED <<wRun, tableVars, queueVars, faultVars>> /\ NoIntake

(* Also reached by the early return of a run that may not publish.         *)
FinishRun(w) ==
  /\ Move(w, "markSucceeded", "complete")
  /\ MarkSucceeded(wRun[w])
  /\ UNCHANGED <<wRun, posted, queueVars, faultVars>> /\ NoIntake

CompleteReviewJob(w) ==
  /\ Free(w, "complete")
  /\ CompleteJob(w, wRun[w])
  /\ UNCHANGED <<posted, runVars, faultVars>> /\ NoIntake

(* Mutant of PipelineFails: the exception is logged and swallowed.         *)
FailsSwallowed(w) ==
  /\ wPc[w] \in {"verify", "verifySupersede", "inline", "summary"}
  /\ wPc' = [wPc EXCEPT ![w] = "markSucceeded"]
  /\ UNCHANGED <<wRun, posted, tableVars, queueVars, faultVars>> /\ NoIntake

(* Mutant of PipelineFails: mark_failed is forgotten. *)
FailsUnmarked(w) ==
  /\ wPc[w] \in {"verify", "verifySupersede", "inline", "summary"}
  /\ wPc' = [wPc EXCEPT ![w] = "reject"]
  /\ UNCHANGED <<wRun, posted, tableVars, queueVars, faultVars>> /\ NoIntake

(* The pipeline raises, before or after the comments of that step are up.  *)
PipelineFails(w) ==
  /\ wPc[w] \in {"verify", "verifySupersede", "inline", "summary"}
  /\ wPc' = [wPc EXCEPT ![w] = "markFailed"]
  /\ \/ UNCHANGED posted
     \/ wPc[w] \in CommentKind /\ posted' = posted \cup {<<wRun[w], wPc[w]>>}
  /\ UNCHANGED <<wRun, tableVars, queueVars, faultVars>> /\ NoIntake

(* error_code is the exception's: one that a retry cannot mend, or not.    *)
FailRun(w) ==
  /\ Move(w, "markFailed", "reject")
  /\ \E e \in {"deterministic", "other"} : MarkFailed(wRun[w], e)
  /\ UNCHANGED <<wRun, posted, queueVars, faultVars>> /\ NoIntake

RejectReviewJob(w) ==
  /\ Free(w, "reject")
  /\ RejectJob(w, wRun[w])
  /\ UNCHANGED <<posted, runVars, faultVars>> /\ NoIntake

(* The database refuses one of the three status updates: the exception     *)
(* goes straight to BullMQ, past mark_failed.                              *)
WorkerFault(w) ==
  /\ dbFaults < MaxDbFaults
  /\ wPc[w] \in {"markRunning", "markSucceeded", "markFailed"}
  /\ wPc' = [wPc EXCEPT ![w] = "reject"]
  /\ dbFaults' = dbFaults + 1
  /\ UNCHANGED <<wRun, posted, crashes, tableVars, queueVars>> /\ NoIntake

(* The process dies; the lock it held is only found expired later.         *)
WorkerCrash(w) ==
  /\ crashes < MaxCrashes
  /\ wPc[w] # "idle"
  /\ Free(w, wPc[w])
  /\ crashes' = crashes + 1
  /\ UNCHANGED <<posted, dbFaults, tableVars, queueVars>> /\ NoIntake

Orphan(r) == jobState[r] = "active" /\ ~Busy(lock[r], r)
(* Mutant of RecoverStalledJob: the lock expires before it is renewed. *)
RecoverTooEarly(r) ==
  /\ jobState[r] = "active"
  /\ StallJob(r)
  /\ UNCHANGED <<workerVars, runVars, faultVars>> /\ NoIntake
RecoverStalledJob(r) ==
  /\ Orphan(r)
  /\ StallJob(r)
  /\ UNCHANGED <<workerVars, runVars, faultVars>> /\ NoIntake

(* Synchronous GitHub calls and semgrep block the event loop past          *)
(* REVIEW_WORKER_LOCK_DURATION_MS: the job is given away while its first   *)
(* worker is still at it.  Counted with the crashes.                       *)
FreezePastLock(r) ==
  /\ crashes < MaxCrashes
  /\ jobState[r] = "active" /\ ~Orphan(r)
  /\ StallJob(r)
  /\ crashes' = crashes + 1
  /\ UNCHANGED <<workerVars, runVars, dbFaults>> /\ NoIntake

WorkerStep(w) ==
  \/ StartRun(w) \/ VerifyPublishable(w) \/ VerifySupersede(w)
  \/ PublishInline(w) \/ PublishSummary(w) \/ FinishRun(w)
  \/ CompleteReviewJob(w) \/ FailRun(w) \/ RejectReviewJob(w)

WorkerNext ==
  \/ \E w \in Worker : \/ WorkerStep(w) \/ PipelineFails(w)
                       \/ WorkerFault(w) \/ WorkerCrash(w)
                       \/ \E r \in RunId : TakeReviewJob(w, r)
  \/ \E r \in RunId : RecoverStalledJob(r) \/ FreezePastLock(r)
=============================================================================
