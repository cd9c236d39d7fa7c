------------------------- MODULE ReviewSystem_proofs ------------------------
(***************************************************************************)
(* Theorems about ReviewSystem for every set of deliveries and workers and *)
(* every bound.                                                            *)
(***************************************************************************)
EXTENDS ReviewSystem, TLAPS

(* A job that may still run has attempts and stalls left, and its lock is  *)
(* held exactly while it is active.                                        *)
QueueInv ==
  \A r \in RunId :
    /\ jobState[r] \in {"none", "waiting", "active"} =>
         attempts[r] < MaxAttempts /\ stalls[r] <= MaxStalled
    /\ lock[r] # NoWorker <=> jobState[r] = "active"

TypeInv == TypeOK /\ QueueInv

LEMMA RunOfIsRun == \A h \in Handler : RunOf(h) \in RunId
BY TablesAssumption DEF Handler, RunOf, RunId

LEMMA RunIdParts ==
  ASSUME NEW r \in RunId
  PROVE  r = <<r[1], r[2]>> /\ r[1] \in Delivery /\ r[2] \in 0..MaxRetries
BY DEF RunId

LEMMA RetryIsRun == \A r \in RunId : CanRetry(r) => RetryOf(r) \in RunId /\ RetryOf(r) # r
BY TablesAssumption DEF RunId, RetryOf, CanRetry

LEMMA InitTypeInv == Init => TypeInv
BY TablesAssumption, QueueAssumption, IntakeAssumption, WorkerAssumption
   DEF Init, TypeInv, TypeOK, QueueInv, TablesTypeOK, QueueTypeOK, IntakeTypeOK, WorkerTypeOK,
   RetryTypeOK, TablesInit, QueueInit, IntakeInit, WorkerInit, RetryInit, Head, DeliveryStatus,
   RunStatus, ErrorCode, JobState, HandlerPc, WorkerPc, CommentKind, RetryPc

LEMMA IntakeTypeInv ==
  ASSUME TypeInv, IntakeNext, UNCHANGED <<workerVars, rPc>>
  PROVE  TypeInv'
<1> USE TablesAssumption, QueueAssumption, IntakeAssumption
        DEF TypeInv, TypeOK, QueueInv, TablesTypeOK, QueueTypeOK, IntakeTypeOK, WorkerTypeOK,
        RetryTypeOK, Head, DeliveryStatus, RunStatus, ErrorCode, JobState, HandlerPc,
        tableVars, runVars, queueVars, handlerVars, faultVars, intakeVars, workerVars,
        At, Goto, OnlyPc, Handler
<1>1. CASE PushToBranch
  BY <1>1 DEF PushToBranch
<1>2. CASE DisableRepository
  BY <1>2 DEF DisableRepository
<1>3. ASSUME NEW h \in Handler, HandlerStep(h) \/ HandlerFault(h) \/ HandlerCrash(h)
      PROVE  TypeInv'
  <2>1. CASE CreateDelivery(h)
    <3>1. h[1] \in Delivery /\ EventHead[h[1]] \in 0..MaxHead
      OBVIOUS
    <3>2. /\ hHead' = [hHead EXCEPT ![h] = EventHead[h[1]]]
          /\ \E pc \in HandlerPc : hPc' = [hPc EXCEPT ![h] = pc]
          /\ \/ UNCHANGED deliveryStatus
             \/ deliveryStatus' = [deliveryStatus EXCEPT ![RunOf(h)] = "processing"]
          /\ UNCHANGED <<ghHead, hEnabled, faultVars, prHead, enabled, runVars, retryRow, queueVars>>
      BY <2>1 DEF CreateDelivery, InsertDelivery
    <3> QED  BY <3>1, <3>2
  <2>2. CASE ResolvePushPullRequest(h)
    <3>1. ghHead \in 0..MaxHead
      OBVIOUS
    <3>2. CASE UNCHANGED hHead
      BY <2>2, <3>2 DEF ResolvePushPullRequest
    <3>3. CASE hHead' = [hHead EXCEPT ![h] = ghHead]
      BY <2>2, <3>1, <3>3 DEF ResolvePushPullRequest
    <3> QED  BY <2>2, <3>2, <3>3 DEF ResolvePushPullRequest
  <2>3. CASE UpsertRepository(h)
    BY <2>3 DEF UpsertRepository
  <2>4. CASE UpsertPullRequestRow(h)
    BY <2>4 DEF UpsertPullRequestRow, UpsertPullRequest, AfterUpsert
  <2>5. CASE SupersedeOthers(h)
    BY <2>5 DEF SupersedeOthers, SupersedeQueuedOrRunningReviewRuns, SupersededBy
  <2>6. CASE CreateRun(h)
    <3>1. RunOf(h) \in RunId /\ hHead[h] \in 0..MaxHead
      BY RunOfIsRun
    <3>2. hPc' \in [Handler -> HandlerPc]
      BY <2>6 DEF CreateRun
    <3>3. /\ runStatus' \in [RunId -> RunStatus] /\ runHead' \in [RunId -> 0..MaxHead]
          /\ runError' = runError
      <4>1. CASE UNCHANGED runVars
        BY <4>1
      <4>2. CASE CreateReviewRun(RunOf(h), hHead[h])
        BY <3>1, <4>2 DEF CreateReviewRun
      <4> QED  BY <2>6, <4>1, <4>2 DEF CreateRun
    <3>4. UNCHANGED <<deliveryStatus, prHead, enabled, retryRow, queueVars, ghHead, hHead, hEnabled, faultVars>>
      BY <2>6 DEF CreateRun
    <3> QED  BY <3>2, <3>3, <3>4
  <2>7. CASE EnqueueRun(h)
    BY <2>7, ZenonT(60) DEF EnqueueRun, EnqueuePullRequestReview
  <2>8. CASE MarkDelivery(h)
    BY <2>8 DEF MarkDelivery, Verdict, MarkDeliveryProcessed
  <2>9. CASE HandlerFault(h)
    BY <2>9 DEF HandlerFault, InTry
  <2>10. CASE HandlerCrash(h)
    BY <2>10 DEF HandlerCrash
  <2> QED  BY <1>3, <2>1, <2>2, <2>3, <2>4, <2>5, <2>6, <2>7, <2>8, <2>9, <2>10 DEF HandlerStep
<1> QED  BY <1>1, <1>2, <1>3 DEF IntakeNext

LEMMA WorkerTypeInv ==
  ASSUME TypeInv, WorkerNext, UNCHANGED rPc
  PROVE  TypeInv'
<1> USE TablesAssumption, QueueAssumption, IntakeAssumption, WorkerAssumption
        DEF TypeInv, TypeOK, QueueInv, TablesTypeOK, QueueTypeOK, IntakeTypeOK, WorkerTypeOK,
        RetryTypeOK, RunStatus, ErrorCode, JobState, WorkerPc, CommentKind,
        tableVars, runVars, queueVars, handlerVars, faultVars, intakeVars, workerVars,
        NoIntake, Move
<1>1. ASSUME NEW w \in Worker, wPc[w] # "idle"
      PROVE  wRun[w] \in RunId
  BY <1>1
<1>2. ASSUME NEW w \in Worker, WorkerStep(w) \/ PipelineFails(w) \/ WorkerFault(w) \/ WorkerCrash(w)
      PROVE  TypeInv'
  <2>1. CASE StartRun(w)
    BY <1>1, <2>1 DEF StartRun, MarkRunning, UpdateStatus
  <2>2. CASE VerifyPublishable(w)
    BY <1>1, <2>2 DEF VerifyPublishable
  <2>3. CASE VerifySupersede(w)
    BY <1>1, <2>3 DEF VerifySupersede, SupersedeRun
  <2>4. CASE PublishInline(w)
    BY <1>1, <2>4 DEF PublishInline
  <2>5. CASE PublishSummary(w)
    BY <1>1, <2>5 DEF PublishSummary
  <2>6. CASE FinishRun(w)
    BY <1>1, <2>6 DEF FinishRun, MarkSucceeded, UpdateStatus
  <2>7. CASE CompleteReviewJob(w)
    BY <1>1, <2>7 DEF CompleteReviewJob, CompleteJob, Free
  <2>8. CASE FailRun(w)
    BY <1>1, <2>8 DEF FailRun, MarkFailed, UpdateStatus
  <2>9. CASE RejectReviewJob(w)
    BY <1>1, <2>9 DEF RejectReviewJob, RejectJob, Free
  <2>10. CASE PipelineFails(w)
    BY <1>1, <2>10 DEF PipelineFails
  <2>11. CASE WorkerFault(w)
    BY <1>1, <2>11 DEF WorkerFault
  <2>12. CASE WorkerCrash(w)
    BY <1>1, <2>12 DEF WorkerCrash, Free
  <2> QED
    BY <1>2, <2>1, <2>2, <2>3, <2>4, <2>5, <2>6, <2>7, <2>8, <2>9, <2>10, <2>11, <2>12 DEF WorkerStep
<1>3. ASSUME NEW w \in Worker, NEW r \in RunId, TakeReviewJob(w, r)
      PROVE  TypeInv'
  BY <1>3 DEF TakeReviewJob, TakeJob
<1>4. ASSUME NEW r \in RunId, RecoverStalledJob(r) \/ FreezePastLock(r)
      PROVE  TypeInv'
  <2>1. StallJob(r) /\ UNCHANGED <<tableVars, workerVars, ghHead, handlerVars, dbFaults>>
    BY <1>4 DEF RecoverStalledJob, FreezePastLock
  <2>2. crashes' \in 0..MaxCrashes
    BY <1>4 DEF RecoverStalledJob, FreezePastLock
  <2> QED  BY <2>1, <2>2 DEF StallJob
<1> QED  BY <1>2, <1>3, <1>4 DEF WorkerNext

LEMMA RetryTypeInv ==
  ASSUME TypeInv, RetryNext
  PROVE  TypeInv'
<1> USE TablesAssumption, QueueAssumption, IntakeAssumption
        DEF TypeInv, TypeOK, QueueInv, TablesTypeOK, QueueTypeOK, IntakeTypeOK, WorkerTypeOK,
        RetryTypeOK, DeliveryStatus, RunStatus, JobState, RetryPc,
        tableVars, runVars, queueVars, handlerVars, faultVars, intakeVars, workerVars,
        NoWork, RetryMove
<1> SUFFICES ASSUME NEW r \in RunId, RetryRequest(r) \/ RetryStep(r) \/ RetryFault(r)
             PROVE  TypeInv'
  BY DEF RetryNext
<1>1. CASE RetryRequest(r)
  BY <1>1 DEF RetryRequest
<1>2. CASE RetryConflict(r)
  BY <1>2 DEF RetryConflict
<1>3. CASE RetryTransaction(r)
  BY <1>3 DEF RetryTransaction, InsertDelivery, CreateReviewRun
<1>4. CASE RetryInsertDelivery(r)
  BY <1>4 DEF RetryInsertDelivery, InsertDelivery
<1>5. CASE RetryInsertRun(r)
  BY <1>5 DEF RetryInsertRun, CreateReviewRun
<1>6. CASE RetryInsertRow(r)
  BY <1>6 DEF RetryInsertRow
<1>7. CASE RetryEnqueue(r)
  BY <1>7 DEF RetryEnqueue, EnqueuePullRequestReview
<1>8. CASE RetryFault(r)
  BY <1>8 DEF RetryFault
<1> QED  BY <1>1, <1>2, <1>3, <1>4, <1>5, <1>6, <1>7, <1>8 DEF RetryStep

LEMMA StutterTypeInv == ASSUME TypeInv, UNCHANGED vars PROVE TypeInv'
BY DEF TypeInv, TypeOK, QueueInv, TablesTypeOK, QueueTypeOK, IntakeTypeOK, WorkerTypeOK,
   RetryTypeOK, vars, tableVars, runVars, queueVars, handlerVars, faultVars, intakeVars, workerVars

(* Every variable keeps its type, attempts and stalls stay within their    *)
(* bounds and locks belong to active jobs: the rows, the queue, the        *)
(* handlers and the workers of every instance.                             *)
THEOREM TypeCorrect == Spec => []TypeInv
<1>1. Init => TypeInv
  BY InitTypeInv
<1>2. TypeInv /\ [Next]_vars => TypeInv'
  BY IntakeTypeInv, WorkerTypeInv, RetryTypeInv, StutterTypeInv DEF Next
<1> QED  BY <1>1, <1>2, PTL DEF Spec

(* In particular the type invariant the runs check: no row, job, request or*)
(* worker ever holds a value the code does not give it.                    *)
THEOREM TypeSafety == Spec => []TypeOK
<1>1. TypeInv => TypeOK
  BY DEF TypeInv
<1> QED  BY <1>1, TypeCorrect, PTL
-----------------------------------------------------------------------------
(* What no step of anybody undoes.  Supersession is final and comments stay.*)
LEMMA Monotone ==
  ASSUME TypeInv, [Next]_vars
  PROVE  /\ \A r \in RunId : runStatus[r] = "superseded" => runStatus'[r] = "superseded"
         /\ posted \subseteq posted'
<1> USE DEF TypeInv, TypeOK, TablesTypeOK, tableVars, runVars, handlerVars, faultVars, intakeVars,
        workerVars, NoIntake, OnlyPc
<1>1. CASE IntakeNext /\ UNCHANGED <<workerVars, rPc>>
  <2>1. CASE PushToBranch \/ DisableRepository
    BY <1>1, <2>1 DEF PushToBranch, DisableRepository
  <2>2. ASSUME NEW h \in Handler, HandlerStep(h) \/ HandlerFault(h) \/ HandlerCrash(h)
        PROVE  \/ UNCHANGED runStatus
               \/ runStatus' = [r \in RunId |-> IF r \in SupersededBy(hHead[h]) THEN "superseded"
                                                                              ELSE runStatus[r]]
               \/ /\ runStatus[RunOf(h)] = "none"
                  /\ runStatus' = [runStatus EXCEPT ![RunOf(h)] = "queued"]
    BY <2>2 DEF HandlerStep, CreateDelivery, ResolvePushPullRequest, UpsertRepository,
       UpsertPullRequestRow, SupersedeOthers, SupersedeQueuedOrRunningReviewRuns, CreateRun,
       CreateReviewRun, RunExists, EnqueueRun, MarkDelivery, Verdict, HandlerFault, HandlerCrash
  <2> QED  BY <1>1, <2>1, <2>2 DEF IntakeNext
<1>2. CASE WorkerNext /\ UNCHANGED rPc
  <2>1. ASSUME NEW w \in Worker,
               WorkerStep(w) \/ PipelineFails(w) \/ WorkerFault(w) \/ WorkerCrash(w)
        PROVE  /\ posted \subseteq posted'
               /\ \/ UNCHANGED runStatus
                  \/ runStatus[wRun[w]] # "superseded"
                     /\ \E st \in RunStatus : runStatus' = [runStatus EXCEPT ![wRun[w]] = st]
                  \/ runStatus' = [runStatus EXCEPT ![wRun[w]] = "superseded"]
    BY <2>1 DEF WorkerStep, StartRun, VerifyPublishable, VerifySupersede, SupersedeRun, PublishInline,
       PublishSummary, FinishRun, CompleteReviewJob, FailRun, RejectReviewJob, MarkRunning,
       MarkSucceeded, MarkFailed, UpdateStatus, PipelineFails, WorkerFault, WorkerCrash, RunStatus
  <2>2. ASSUME NEW r \in RunId, \/ RecoverStalledJob(r) \/ FreezePastLock(r)
                                \/ \E w \in Worker : TakeReviewJob(w, r)
        PROVE  UNCHANGED <<runStatus, posted>>
    BY <2>2 DEF RecoverStalledJob, FreezePastLock, TakeReviewJob
  <2> QED  BY <1>2, <2>1, <2>2 DEF WorkerNext
<1>3. CASE RetryNext
  <2>1. ASSUME NEW r \in RunId, RetryRequest(r) \/ RetryStep(r) \/ RetryFault(r)
        PROVE  /\ UNCHANGED posted
               /\ \/ UNCHANGED runStatus
                  \/ /\ runStatus[RetryOf(r)] = "none"
                     /\ runStatus' = [runStatus EXCEPT ![RetryOf(r)] = "queued"]
    BY <2>1 DEF RetryRequest, RetryStep, RetryConflict, RetryTransaction, RetryInsertDelivery,
       RetryInsertRun, RetryInsertRow, RetryEnqueue, RetryFault, CreateReviewRun, RunExists, NoWork
  <2> QED  BY <1>3, <2>1 DEF RetryNext
<1>4. CASE UNCHANGED vars
  BY <1>4 DEF vars
<1> QED  BY <1>1, <1>2, <1>3, <1>4 DEF Next

(* A worker about to mark its run succeeded has published the summary, or  *)
(* comes from the early return of a run that is superseded for good.       *)
PublishInv ==
  /\ SucceededMeansPublished
  /\ \A w \in Worker : wPc[w] = "markSucceeded" =>
       runStatus[wRun[w]] = "superseded" \/ <<wRun[w], "summary">> \in posted

LEMMA PublishInvStep ==
  ASSUME TypeInv, PublishInv, [Next]_vars
  PROVE  PublishInv'
<1>1. /\ \A r \in RunId : runStatus[r] = "superseded" => runStatus'[r] = "superseded"
      /\ posted \subseteq posted'
  BY Monotone
<1> USE DEF TypeInv, TypeOK, TablesTypeOK, WorkerTypeOK, PublishInv, SucceededMeansPublished,
        tableVars, runVars, handlerVars, faultVars, intakeVars, workerVars, NoIntake, Move
<1>2. CASE IntakeNext /\ UNCHANGED <<workerVars, rPc>>
  <2>1. \A r \in RunId : runStatus'[r] = "succeeded" => runStatus[r] = "succeeded"
    BY <1>2 DEF IntakeNext, PushToBranch, DisableRepository, HandlerStep, CreateDelivery,
       ResolvePushPullRequest, UpsertRepository, UpsertPullRequestRow, SupersedeOthers,
       SupersedeQueuedOrRunningReviewRuns, CreateRun, CreateReviewRun, EnqueueRun, MarkDelivery,
       Verdict, HandlerFault, HandlerCrash, OnlyPc
  <2> QED  BY <1>1, <1>2, <2>1
<1>3. ASSUME NEW w \in Worker, WorkerStep(w) \/ PipelineFails(w) \/ WorkerFault(w) \/ WorkerCrash(w)
      PROVE  PublishInv'
  <2>1. CASE FinishRun(w)
    <3>1. wRun[w] \in RunId
      BY <2>1, WorkerAssumption DEF FinishRun
    <3> QED  BY <1>1, <2>1, <3>1 DEF FinishRun, MarkSucceeded, UpdateStatus
  <2>2. CASE PublishSummary(w)
    BY <1>1, <2>2 DEF PublishSummary
  <2>3. CASE VerifyPublishable(w)
    BY <1>1, <2>3 DEF VerifyPublishable
  <2>4. CASE VerifySupersede(w)
    <3>1. wRun[w] \in RunId
      BY <2>4, WorkerAssumption DEF VerifySupersede
    <3> QED  BY <1>1, <2>4, <3>1 DEF VerifySupersede, SupersedeRun
  <2>5. CASE \/ StartRun(w) \/ PublishInline(w) \/ CompleteReviewJob(w) \/ FailRun(w)
             \/ RejectReviewJob(w) \/ PipelineFails(w) \/ WorkerFault(w) \/ WorkerCrash(w)
    <3>1. /\ \A v \in Worker : wPc'[v] = "markSucceeded" => wPc[v] = "markSucceeded" /\ wRun'[v] = wRun[v]
          /\ \A r \in RunId : runStatus'[r] = "succeeded" => runStatus[r] = "succeeded"
      BY <2>5 DEF StartRun, MarkRunning, UpdateStatus, PublishInline, CompleteReviewJob, FailRun,
         MarkFailed, RejectReviewJob, PipelineFails, WorkerFault, WorkerCrash, Free
    <3>2. \A v \in Worker : wPc[v] = "markSucceeded" => wRun[v] \in RunId
      BY WorkerAssumption
    <3> QED  BY <1>1, <3>1, <3>2
  <2> QED  BY <1>3, <2>1, <2>2, <2>3, <2>4, <2>5 DEF WorkerStep
<1>4. ASSUME NEW r \in RunId, \/ RecoverStalledJob(r) \/ FreezePastLock(r)
                              \/ \E w \in Worker : TakeReviewJob(w, r)
      PROVE  PublishInv'
  <2>1. /\ UNCHANGED <<runStatus, posted>>
        /\ \A v \in Worker : wPc'[v] = "markSucceeded" => wPc[v] = "markSucceeded" /\ wRun'[v] = wRun[v]
    BY <1>4 DEF RecoverStalledJob, FreezePastLock, TakeReviewJob
  <2> QED  BY <2>1
<1>5. CASE RetryNext
  <2>1. /\ UNCHANGED workerVars
        /\ \A r \in RunId : runStatus'[r] = "succeeded" => runStatus[r] = "succeeded"
    BY <1>5 DEF RetryNext, RetryRequest, RetryStep, RetryConflict, RetryTransaction,
       RetryInsertDelivery, RetryInsertRun, RetryInsertRow, RetryEnqueue, RetryFault,
       CreateReviewRun, NoWork
  <2>2. \A v \in Worker : wPc[v] = "markSucceeded" => wRun[v] \in RunId
    BY WorkerAssumption
  <2> QED  BY <1>1, <2>1, <2>2
<1>6. CASE UNCHANGED vars
  BY <1>6 DEF vars
<1> QED  BY <1>2, <1>3, <1>4, <1>5, <1>6 DEF Next, WorkerNext

(* A run marked succeeded has its summary on the pull request, for every   *)
(* number of workers, crashes, lost locks, supersessions and retries.      *)
THEOREM SucceededIsPublished == Spec => []SucceededMeansPublished
<1>1. Init => PublishInv
  BY DEF Init, TablesInit, WorkerInit, PublishInv, SucceededMeansPublished
<1>2. TypeInv /\ PublishInv /\ [Next]_vars => PublishInv'
  BY PublishInvStep
<1>3. PublishInv => SucceededMeansPublished
  BY DEF PublishInv
<1> QED  BY <1>1, <1>2, <1>3, TypeCorrect, PTL DEF Spec
-----------------------------------------------------------------------------
(* The gate: a worker passes the publish check only with a run that is not *)
(* superseded, and only a worker past it adds comments to its run.         *)
LEMMA SealedStep ==
  ASSUME TypeInv, [Next]_vars, NEW r \in RunId, Sealed(r)
  PROVE  Sealed(r)' /\ CommentsOf(r)' = CommentsOf(r)
<1>1. runStatus'[r] = "superseded"
  BY Monotone DEF Sealed
<1> USE DEF TypeInv, TypeOK, WorkerTypeOK, Sealed, PastGate, CommentsOf, workerVars, Move
<1>2. CASE UNCHANGED workerVars
  BY <1>1, <1>2
<1>3. ASSUME NEW w \in Worker, WorkerStep(w) \/ PipelineFails(w) \/ WorkerFault(w) \/ WorkerCrash(w)
      PROVE  Sealed(r)' /\ CommentsOf(r)' = CommentsOf(r)
  <2>1. CASE VerifyPublishable(w)
    BY <1>1, <2>1 DEF VerifyPublishable
  <2>2. CASE PublishInline(w) \/ PublishSummary(w) \/ PipelineFails(w)
    <3>1. wPc[w] \in {"inline", "summary"} => wRun[w] # r
      OBVIOUS
    <3>2. \A v \in Worker : wRun'[v] = wRun[v] /\ (v # w => wPc'[v] = wPc[v])
      BY <2>2 DEF PublishInline, PublishSummary, PipelineFails
    <3>3. wPc'[w] \in {"inline", "summary"} => wPc[w] \in {"inline", "summary"}
      BY <2>2 DEF PublishInline, PublishSummary, PipelineFails
    <3>4. \A c \in posted' \ posted : c[1] = wRun[w] /\ wPc[w] \in {"inline", "summary"}
      BY <2>2 DEF PublishInline, PublishSummary, PipelineFails, CommentKind
    <3> QED  BY <1>1, <3>1, <3>2, <3>3, <3>4, Monotone
  <2>3. CASE \/ StartRun(w) \/ VerifySupersede(w) \/ FinishRun(w) \/ CompleteReviewJob(w)
             \/ FailRun(w) \/ RejectReviewJob(w) \/ WorkerFault(w) \/ WorkerCrash(w)
    <3>1. /\ UNCHANGED posted
          /\ \A v \in Worker : wPc'[v] \in {"inline", "summary"} => wPc'[v] = wPc[v] /\ wRun'[v] = wRun[v]
      BY <2>3 DEF StartRun, VerifySupersede, FinishRun, CompleteReviewJob, FailRun, RejectReviewJob,
         WorkerFault, WorkerCrash, Free
    <3> QED  BY <1>1, <3>1
  <2> QED  BY <1>3, <2>1, <2>2, <2>3 DEF WorkerStep
<1>4. ASSUME NEW q \in RunId, NEW w \in Worker, TakeReviewJob(w, q)
      PROVE  Sealed(r)' /\ CommentsOf(r)' = CommentsOf(r)
  BY <1>1, <1>4 DEF TakeReviewJob
<1>5. ASSUME NEW q \in RunId, RecoverStalledJob(q) \/ FreezePastLock(q)
      PROVE  UNCHANGED workerVars
  BY <1>5 DEF RecoverStalledJob, FreezePastLock
<1>6. RetryNext \/ UNCHANGED vars => UNCHANGED workerVars
  BY DEF RetryNext, RetryRequest, RetryStep, RetryConflict, RetryTransaction, RetryInsertDelivery,
     RetryInsertRun, RetryInsertRow, RetryEnqueue, RetryFault, NoWork, vars
<1> QED  BY <1>2, <1>3, <1>4, <1>5, <1>6 DEF Next, WorkerNext

(* A run superseded before any worker passed its publish check stays       *)
(* superseded and never posts a comment.                                   *)
THEOREM SealedStaysSilent == Spec => SealedRunStaysSilent
<1>1. TypeInv /\ [Next]_vars =>
        [\A r \in RunId : Sealed(r) => Sealed(r)' /\ CommentsOf(r)' = CommentsOf(r)]_vars
  BY SealedStep
<1> QED  BY <1>1, TypeCorrect, PTL DEF Spec, SealedRunStaysSilent
-----------------------------------------------------------------------------
(* As long as nothing has crashed or frozen, a worker holds the lock of    *)
(* its job and a job is active only in the hands of the worker at it.      *)
LockInv ==
  crashes = 0 =>
    /\ \A w \in Worker : wRun[w] # NoRun => lock[wRun[w]] = w
    /\ \A r \in RunId : jobState[r] = "active" => lock[r] \in Worker /\ wRun[lock[r]] = r

LEMMA LockStep ==
  ASSUME TypeInv, LockInv, [Next]_vars
  PROVE  LockInv'
<1> USE QueueAssumption, WorkerAssumption, IntakeAssumption
        DEF TypeInv, TypeOK, QueueInv, QueueTypeOK, WorkerTypeOK, LockInv, tableVars, runVars,
        queueVars, handlerVars, faultVars, intakeVars, workerVars, NoIntake, Move
<1>1. ASSUME UNCHANGED <<jobState, lock, wRun>>, crashes' = 0 => crashes = 0
      PROVE  LockInv'
  BY <1>1
<1>2. CASE IntakeNext /\ UNCHANGED <<workerVars, rPc>>
  <2>1. CASE PushToBranch \/ DisableRepository
    BY <1>1, <1>2, <2>1 DEF PushToBranch, DisableRepository
  <2>2. ASSUME NEW h \in Handler, EnqueueRun(h)
        PROVE  LockInv'
    <3>1. /\ \A r \in RunId : jobState'[r] = "active" => jobState[r] = "active"
          /\ UNCHANGED <<lock, wRun, crashes>>
      BY <1>2, <2>2 DEF EnqueueRun, EnqueuePullRequestReview, OnlyPc
    <3> QED  BY <3>1
  <2>3. ASSUME NEW h \in Handler,
               \/ CreateDelivery(h) \/ ResolvePushPullRequest(h) \/ UpsertRepository(h)
               \/ UpsertPullRequestRow(h) \/ SupersedeOthers(h) \/ CreateRun(h) \/ MarkDelivery(h)
               \/ HandlerFault(h)
        PROVE  UNCHANGED <<jobState, lock, crashes>>
    BY <2>3 DEF CreateDelivery, ResolvePushPullRequest, UpsertRepository, UpsertPullRequestRow,
       SupersedeOthers, CreateRun, MarkDelivery, Verdict, HandlerFault, OnlyPc
  <2>4. ASSUME NEW h \in Handler, HandlerCrash(h)
        PROVE  UNCHANGED <<jobState, lock>> /\ crashes' # 0
    BY <2>4 DEF HandlerCrash, IntakeTypeOK
  <2> QED  BY <1>1, <1>2, <2>1, <2>2, <2>3, <2>4 DEF IntakeNext, HandlerStep
<1>3. ASSUME NEW w \in Worker, CompleteReviewJob(w) \/ RejectReviewJob(w)
      PROVE  LockInv'
  <2>1. /\ wRun[w] \in RunId
        /\ wRun' = [wRun EXCEPT ![w] = NoRun]
        /\ UNCHANGED crashes
        /\ CompleteJob(w, wRun[w]) \/ RejectJob(w, wRun[w])
    BY <1>3 DEF CompleteReviewJob, RejectReviewJob, Free
  <2>2. CASE lock[wRun[w]] = w
    <3>1. /\ lock' = [lock EXCEPT ![wRun[w]] = NoWorker]
          /\ \A r \in RunId : jobState'[r] = "active" => r # wRun[w] /\ jobState[r] = "active"
      BY <2>1, <2>2 DEF CompleteJob, RejectJob
    <3> QED  BY <2>1, <2>2, <3>1
  <2>3. CASE lock[wRun[w]] # w
    BY <2>1, <2>3 DEF CompleteJob, RejectJob
  <2> QED  BY <2>2, <2>3
<1>4. ASSUME NEW w \in Worker, NEW r \in RunId, TakeReviewJob(w, r)
      PROVE  LockInv'
  BY <1>4 DEF TakeReviewJob, TakeJob
<1>5. ASSUME NEW w \in Worker,
             \/ StartRun(w) \/ VerifyPublishable(w) \/ VerifySupersede(w) \/ PublishInline(w)
             \/ PublishSummary(w) \/ FinishRun(w) \/ FailRun(w) \/ PipelineFails(w) \/ WorkerFault(w)
      PROVE  UNCHANGED <<jobState, lock, wRun, crashes>>
  BY <1>5 DEF StartRun, VerifyPublishable, VerifySupersede, PublishInline, PublishSummary, FinishRun,
     FailRun, PipelineFails, WorkerFault
<1>6. ASSUME \/ \E w \in Worker : WorkerCrash(w)
             \/ \E r \in RunId : FreezePastLock(r)
      PROVE  crashes' # 0
  BY <1>6 DEF WorkerCrash, FreezePastLock, IntakeTypeOK
<1>7. ASSUME NEW r \in RunId, RecoverStalledJob(r)
      PROVE  LockInv'
  <2>1. crashes # 0 /\ UNCHANGED crashes
    BY <1>7 DEF RecoverStalledJob, Orphan, Busy
  <2> QED  BY <2>1
<1>8. CASE RetryNext
  <2>1. /\ \A r \in RunId : jobState'[r] = "active" => jobState[r] = "active"
        /\ UNCHANGED <<lock, wRun>>
        /\ crashes' = 0 => crashes = 0
    BY <1>8 DEF RetryNext, RetryRequest, RetryStep, RetryConflict, RetryTransaction,
       RetryInsertDelivery, RetryInsertRun, RetryInsertRow, RetryEnqueue, EnqueuePullRequestReview,
       RetryFault, NoWork, IntakeTypeOK
  <2> QED  BY <2>1
<1>9. CASE UNCHANGED vars
  BY <1>1, <1>9 DEF vars
<1> QED
  BY <1>1, <1>2, <1>3, <1>4, <1>5, <1>6, <1>7, <1>8, <1>9 DEF Next, WorkerNext, WorkerStep

(* Without a crash or a freeze two workers are never at the same run, for  *)
(* any number of workers, attempts and retries.                            *)
THEOREM OneWorker == Spec => []OneWorkerPerRun
<1>1. Init => LockInv
  BY DEF Init, QueueInit, WorkerInit, LockInv
<1>2. TypeInv /\ LockInv /\ [Next]_vars => LockInv'
  BY LockStep
<1>3. LockInv => OneWorkerPerRun
  BY DEF LockInv, OneWorkerPerRun
<1> QED  BY <1>1, <1>2, <1>3, TypeCorrect, PTL DEF Spec
=============================================================================
