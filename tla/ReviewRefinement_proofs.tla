----------------------- MODULE ReviewRefinement_proofs ----------------------
(***************************************************************************)
(* No job without its run, and ReviewSystem implements ReviewLifecycle.    *)
(***************************************************************************)
EXTENDS ReviewSystem_proofs

(* Whatever is past the creation of a run has it: the job, the handler     *)
(* about to add the job, the worker, the retry request and the retry's     *)
(* original.                                                               *)
ExistInv ==
  /\ \A r \in RunId : jobState[r] # "none" => RunExists(r)
  /\ \A h \in Handler : hPc[h] = "enqueue" => RunExists(RunOf(h))
  /\ \A w \in Worker : wRun[w] # NoRun => RunExists(wRun[w])

(* A retry's run exists only beside its original's, with the same head,    *)
(* and its job only beside the retry row.                                  *)
RetryInv ==
  /\ \A o \in RunId : rPc[o] # "idle" => CanRetry(o) /\ RunExists(o)
  /\ \A o \in RunId : rPc[o] \in {"insertRetry", "enqueue"} => RunExists(RetryOf(o))
  /\ \A o \in RunId : rPc[o] = "enqueue" => o \in retryRow
  /\ \A o \in RunId : CanRetry(o) /\ RunExists(RetryOf(o)) =>
       RunExists(o) /\ runHead[RetryOf(o)] = runHead[o]
  /\ \A o \in RunId : CanRetry(o) /\ jobState[RetryOf(o)] # "none" => o \in retryRow

Inv == TypeInv /\ ExistInv /\ RetryInv

(* The run a retry comes from.                                             *)
LEMMA RetryOrigin ==
  ASSUME NEW r \in RunId, r[2] > 0
  PROVE  LET o == <<r[1], r[2] - 1>>
         IN  o \in RunId /\ CanRetry(o) /\ RetryOf(o) = r
BY TablesAssumption DEF RunId, CanRetry, RetryOf

LEMMA RetryInjective ==
  \A p, q \in RunId : RetryOf(p) = RetryOf(q) => p = q
BY TablesAssumption DEF RunId, RetryOf

LEMMA RetryNotOriginal ==
  \A p \in RunId, h \in Handler : RetryOf(p) # RunOf(h)
BY TablesAssumption DEF RunId, Handler, RetryOf, RunOf

LEMMA InitInv == Init => ExistInv /\ RetryInv
<1> SUFFICES ASSUME Init PROVE ExistInv /\ RetryInv
  OBVIOUS
<1> QED
  BY RetryIsRun DEF Init, TablesInit, QueueInit, IntakeInit, WorkerInit, RetryInit, ExistInv,
     RetryInv, RunExists
-----------------------------------------------------------------------------
(* How a step of each actor touches the runs, the jobs and the retry rows. *)
Kept == \A r \in RunId : runStatus'[r] = "none" <=> runStatus[r] = "none"

LEMMA IntakeRuns ==
  ASSUME TypeInv, IntakeNext
  PROVE  /\ UNCHANGED retryRow
         /\ \/ /\ Kept /\ UNCHANGED <<runHead, jobState>>
               /\ \A h \in Handler : hPc'[h] = "enqueue" => hPc[h] = "enqueue"
            \/ \E h \in Handler :
                 /\ CreateReviewRun(RunOf(h), hHead[h])
                 /\ UNCHANGED jobState
                 /\ \A g \in Handler : hPc'[g] = "enqueue" => g = h \/ hPc[g] = "enqueue"
            \/ \E h \in Handler :
                 /\ hPc[h] = "enqueue"
                 /\ EnqueuePullRequestReview(RunOf(h))
                 /\ UNCHANGED runVars
                 /\ \A g \in Handler : hPc'[g] = "enqueue" => hPc[g] = "enqueue"
<1> USE DEF TypeInv, TypeOK, TablesTypeOK, QueueTypeOK, IntakeTypeOK, At, Goto, OnlyPc, Kept,
        tableVars, runVars, queueVars, handlerVars, faultVars, intakeVars
<1>1. CASE PushToBranch \/ DisableRepository
  BY <1>1 DEF PushToBranch, DisableRepository
<1>2. ASSUME NEW h \in Handler, HandlerFault(h) \/ HandlerCrash(h)
      PROVE  /\ UNCHANGED <<retryRow, runStatus, runHead, jobState>>
             /\ \A g \in Handler : hPc'[g] = "enqueue" => hPc[g] = "enqueue"
  BY <1>2 DEF HandlerFault, HandlerCrash
<1>3. ASSUME NEW h \in Handler, \/ CreateDelivery(h) \/ ResolvePushPullRequest(h)
                                \/ UpsertRepository(h) \/ UpsertPullRequestRow(h) \/ MarkDelivery(h)
      PROVE  /\ UNCHANGED <<retryRow, runStatus, runHead, jobState>>
             /\ \A g \in Handler : hPc'[g] = "enqueue" => hPc[g] = "enqueue"
  BY <1>3 DEF CreateDelivery, ResolvePushPullRequest, UpsertRepository, UpsertPullRequestRow,
     AfterUpsert, MarkDelivery, Verdict
<1>4. ASSUME NEW h \in Handler, SupersedeOthers(h)
      PROVE  /\ Kept /\ UNCHANGED <<retryRow, runHead, jobState>>
             /\ \A g \in Handler : hPc'[g] = "enqueue" => hPc[g] = "enqueue"
  BY <1>4 DEF SupersedeOthers, SupersedeQueuedOrRunningReviewRuns, SupersededBy
<1>5. ASSUME NEW h \in Handler, CreateRun(h)
      PROVE  /\ UNCHANGED <<retryRow, jobState>>
             /\ \/ /\ UNCHANGED runVars
                   /\ \A g \in Handler : hPc'[g] = "enqueue" => hPc[g] = "enqueue"
                \/ /\ CreateReviewRun(RunOf(h), hHead[h])
                   /\ \A g \in Handler : hPc'[g] = "enqueue" => g = h \/ hPc[g] = "enqueue"
  BY <1>5 DEF CreateRun
<1>6. ASSUME NEW h \in Handler, EnqueueRun(h)
      PROVE  /\ hPc[h] = "enqueue"
             /\ EnqueuePullRequestReview(RunOf(h))
             /\ UNCHANGED <<retryRow, runVars>>
             /\ \A g \in Handler : hPc'[g] = "enqueue" => hPc[g] = "enqueue"
  BY <1>6 DEF EnqueueRun
<1> QED  BY <1>1, <1>2, <1>3, <1>4, <1>5, <1>6 DEF IntakeNext, HandlerStep

LEMMA IntakeInv ==
  ASSUME Inv, IntakeNext, UNCHANGED <<workerVars, rPc>>
  PROVE  ExistInv' /\ RetryInv'
<1> USE DEF Inv, ExistInv, RetryInv, RunExists, workerVars
<1>1. ASSUME NEW h \in Handler, CreateReviewRun(RunOf(h), hHead[h]), UNCHANGED <<jobState, retryRow>>,
             \A g \in Handler : hPc'[g] = "enqueue" => g = h \/ hPc[g] = "enqueue"
      PROVE  ExistInv' /\ RetryInv'
  <2>1. /\ \A r \in RunId : RunExists(r)' <=> RunExists(r) \/ r = RunOf(h)
        /\ \A r \in RunId : r # RunOf(h) => runHead'[r] = runHead[r]
        /\ ~RunExists(RunOf(h))
    BY <1>1, RunOfIsRun DEF CreateReviewRun, TypeInv, TypeOK, TablesTypeOK
  <2>2. \A w \in Worker : wRun[w] # NoRun => wRun[w] \in RunId
    BY DEF TypeInv, TypeOK, WorkerTypeOK
  <2>3. ExistInv'
    BY <1>1, <2>1, <2>2, RunOfIsRun
  <2>4. \A o \in RunId : CanRetry(o) /\ RunExists(RetryOf(o))' =>
          RunExists(o)' /\ runHead'[RetryOf(o)] = runHead'[o]
    BY <2>1, RetryIsRun, RetryNotOriginal
  <2> QED  BY <1>1, <2>1, <2>3, <2>4, RetryIsRun
<1>2. ASSUME NEW h \in Handler, hPc[h] = "enqueue", EnqueuePullRequestReview(RunOf(h)),
             UNCHANGED <<runVars, retryRow>>,
             \A g \in Handler : hPc'[g] = "enqueue" => hPc[g] = "enqueue"
      PROVE  ExistInv' /\ RetryInv'
  <2>1. \A r \in RunId : jobState'[r] # "none" => jobState[r] # "none" \/ r = RunOf(h)
    BY <1>2, RunOfIsRun DEF EnqueuePullRequestReview, TypeInv, TypeOK, QueueTypeOK
  <2>2. ExistInv'
    BY <1>2, <2>1 DEF runVars
  <2> QED  BY <1>2, <2>1, <2>2, RetryIsRun, RetryNotOriginal DEF runVars
<1>3. ASSUME Kept, UNCHANGED <<runHead, jobState, retryRow>>,
             \A g \in Handler : hPc'[g] = "enqueue" => hPc[g] = "enqueue"
      PROVE  ExistInv' /\ RetryInv'
  <2>1. \A r \in RunId : RunExists(r)' <=> RunExists(r)
    BY <1>3 DEF Kept
  <2>2. ExistInv'
    BY <1>3, <2>1, RunOfIsRun, WorkerAssumption DEF TypeInv, TypeOK, WorkerTypeOK
  <2> QED  BY <1>3, <2>1, <2>2, RetryIsRun
<1> QED  BY <1>1, <1>2, <1>3, IntakeRuns

LEMMA WorkerRuns ==
  ASSUME Inv, WorkerNext
  PROVE  /\ Kept /\ UNCHANGED <<runHead, retryRow, hPc>>
         /\ \A r \in RunId : jobState'[r] = "none" <=> jobState[r] = "none"
         /\ \A w \in Worker : wRun'[w] # NoRun =>
              wRun'[w] = wRun[w] \/ (wRun'[w] \in RunId /\ jobState[wRun'[w]] # "none")
<1> USE DEF Inv, TypeInv, TypeOK, TablesTypeOK, QueueTypeOK, WorkerTypeOK, Kept, NoIntake, Move,
        tableVars, runVars, queueVars, handlerVars, workerVars
<1>1. ASSUME NEW w \in Worker, wPc[w] # "idle"
      PROVE  wRun[w] \in RunId /\ runStatus[wRun[w]] # "none"
  BY <1>1, WorkerAssumption DEF ExistInv, RunExists
<1>2. ASSUME NEW w \in Worker, WorkerStep(w) \/ PipelineFails(w) \/ WorkerFault(w) \/ WorkerCrash(w)
      PROVE  /\ Kept /\ UNCHANGED <<runHead, retryRow, hPc>>
             /\ \A r \in RunId : jobState'[r] = "none" <=> jobState[r] = "none"
             /\ \A v \in Worker : wRun'[v] # NoRun => wRun'[v] = wRun[v]
  <2>1. CASE StartRun(w) \/ FinishRun(w) \/ FailRun(w)
    BY <1>1, <2>1 DEF StartRun, FinishRun, FailRun, MarkRunning, MarkSucceeded, MarkFailed, UpdateStatus
  <2>2. CASE VerifySupersede(w)
    BY <1>1, <2>2 DEF VerifySupersede, SupersedeRun
  <2>3. CASE CompleteReviewJob(w) \/ RejectReviewJob(w)
    <3>1. /\ \A v \in Worker : wRun'[v] # NoRun => wRun'[v] = wRun[v]
          /\ UNCHANGED <<runVars, retryRow, hPc>>
      BY <2>3 DEF CompleteReviewJob, RejectReviewJob, Free
    <3>2. wRun[w] \in RunId /\ (CompleteJob(w, wRun[w]) \/ RejectJob(w, wRun[w]))
      BY <1>1, <2>3 DEF CompleteReviewJob, RejectReviewJob, Free
    <3>3. lock[wRun[w]] = w => jobState[wRun[w]] = "active"
      BY <3>2, QueueAssumption DEF QueueInv
    <3> QED  BY <3>1, <3>2, <3>3 DEF CompleteJob, RejectJob
  <2>4. CASE \/ VerifyPublishable(w) \/ PublishInline(w) \/ PublishSummary(w)
             \/ PipelineFails(w) \/ WorkerFault(w) \/ WorkerCrash(w)
    BY <2>4 DEF VerifyPublishable, PublishInline, PublishSummary, PipelineFails, WorkerFault,
       WorkerCrash, Free
  <2> QED  BY <1>2, <2>1, <2>2, <2>3, <2>4 DEF WorkerStep
<1>3. ASSUME NEW w \in Worker, NEW r \in RunId, TakeReviewJob(w, r)
      PROVE  /\ UNCHANGED <<runStatus, runHead, retryRow, hPc>>
             /\ \A q \in RunId : jobState'[q] = "none" <=> jobState[q] = "none"
             /\ \A v \in Worker : wRun'[v] # NoRun =>
                  wRun'[v] = wRun[v] \/ (wRun'[v] \in RunId /\ jobState[wRun'[v]] # "none")
  BY <1>3 DEF TakeReviewJob, TakeJob
<1>4. ASSUME NEW r \in RunId, RecoverStalledJob(r) \/ FreezePastLock(r)
      PROVE  /\ UNCHANGED <<runStatus, runHead, retryRow, hPc, wRun>>
             /\ \A q \in RunId : jobState'[q] = "none" <=> jobState[q] = "none"
  BY <1>4 DEF RecoverStalledJob, FreezePastLock, StallJob
<1> QED  BY <1>2, <1>3, <1>4 DEF WorkerNext

LEMMA WorkerInv ==
  ASSUME Inv, WorkerNext, UNCHANGED rPc
  PROVE  ExistInv' /\ RetryInv'
<1> USE DEF Inv, ExistInv, RetryInv, RunExists
<1>1. \A r \in RunId : RunExists(r)' <=> RunExists(r)
  BY WorkerRuns DEF Kept
<1>2. \A w \in Worker : wRun[w] # NoRun => wRun[w] \in RunId
  BY DEF TypeInv, TypeOK, WorkerTypeOK
<1>3. ExistInv'
  BY <1>1, <1>2, WorkerRuns, RunOfIsRun
<1> QED  BY <1>1, <1>3, WorkerRuns, RetryIsRun

LEMMA RetryStepInv ==
  ASSUME Inv, RetryNext
  PROVE  ExistInv' /\ RetryInv'
<1> USE DEF Inv, ExistInv, RetryInv, RunExists, TypeInv, TypeOK, TablesTypeOK, QueueTypeOK,
        WorkerTypeOK, RetryTypeOK, RetryMove, NoWork, tableVars, runVars, queueVars, handlerVars,
        workerVars
<1> SUFFICES ASSUME NEW r \in RunId, RetryRequest(r) \/ RetryStep(r) \/ RetryFault(r)
             PROVE  ExistInv' /\ RetryInv'
  BY DEF RetryNext
<1> UNCHANGED <<hPc, wRun>>
  BY DEF RetryRequest, RetryStep, RetryConflict, RetryTransaction, RetryInsertDelivery,
     RetryInsertRun, RetryInsertRow, RetryEnqueue, RetryFault
<1>1. CASE RetryRequest(r)
  BY <1>1 DEF RetryRequest, Retryable
<1>2. CASE RetryConflict(r) \/ RetryFault(r) \/ RetryInsertDelivery(r)
  BY <1>2 DEF RetryConflict, RetryFault, RetryInsertDelivery
<1>3. CASE RetryInsertRow(r)
  BY <1>3 DEF RetryInsertRow
<1>4. CASE RetryEnqueue(r)
  <2>1. \A q \in RunId : jobState'[q] # "none" => jobState[q] # "none" \/ q = RetryOf(r)
    BY <1>4 DEF RetryEnqueue, EnqueuePullRequestReview
  <2>2. rPc[r] = "enqueue" /\ (\A q \in RunId : rPc'[q] # "idle" => rPc'[q] = rPc[q])
    BY <1>4 DEF RetryEnqueue
  <2> QED  BY <1>4, <2>1, <2>2, RetryIsRun, RetryInjective DEF RetryEnqueue
<1>5. CASE RetryTransaction(r) \/ RetryInsertRun(r)
  <2>1. /\ \A q \in RunId : RunExists(q)' <=> RunExists(q) \/ q = RetryOf(r)
        /\ \A q \in RunId : q # RetryOf(r) => runHead'[q] = runHead[q]
        /\ runHead'[RetryOf(r)] = runHead[r]
        /\ ~RunExists(RetryOf(r))
        /\ CanRetry(r) /\ RunExists(r) /\ RetryOf(r) \in RunId
    BY <1>5, RetryIsRun DEF RetryTransaction, RetryInsertRun, CreateReviewRun
  <2>2. /\ UNCHANGED jobState /\ retryRow \subseteq retryRow'
        /\ \A q \in RunId : q # r => rPc'[q] = rPc[q]
        /\ rPc'[r] = "enqueue" => r \in retryRow'
    BY <1>5 DEF RetryTransaction, RetryInsertRun
  <2>3. ExistInv'
    BY <2>1, <2>2, RunOfIsRun
  <2>4. \A o \in RunId : CanRetry(o) /\ RunExists(RetryOf(o))' =>
          RunExists(o)' /\ runHead'[RetryOf(o)] = runHead'[o]
    BY <2>1, RetryIsRun, RetryInjective
  <2> QED  BY <2>1, <2>2, <2>3, <2>4, RetryIsRun
<1> QED  BY <1>1, <1>2, <1>3, <1>4, <1>5 DEF RetryStep

LEMMA InvStep == Inv /\ [Next]_vars => ExistInv' /\ RetryInv'
<1> SUFFICES ASSUME Inv, [Next]_vars PROVE ExistInv' /\ RetryInv'
  OBVIOUS
<1>1. CASE UNCHANGED vars
  BY <1>1 DEF Inv, ExistInv, RetryInv, RunExists, vars, tableVars, runVars, queueVars, intakeVars,
     handlerVars, workerVars
<1> QED  BY <1>1, IntakeInv, WorkerInv, RetryStepInv DEF Next

LEMMA InvAlways == Spec => []Inv
<1>1. TypeInv /\ TypeInv' /\ ExistInv /\ RetryInv /\ [Next]_vars => ExistInv' /\ RetryInv'
  BY InvStep DEF Inv
<1>2. TypeInv /\ ExistInv /\ RetryInv <=> Inv
  BY DEF Inv
<1> QED  BY <1>1, <1>2, InitInv, TypeCorrect, PTL DEF Spec

(* A worker that takes a job finds its run, and with a retry's job the row *)
(* that ties it to the original, for any chain of retries and however the  *)
(* statements of a retry were committed.                                   *)
THEOREM JobsHaveRuns == Spec => []JobHasRun
<1>1. Inv => JobHasRun
  <2> SUFFICES ASSUME Inv, NEW r \in RunId, jobState[r] # "none"
               PROVE  /\ RunExists(r)
                      /\ r[2] > 0 => LET o == <<r[1], r[2] - 1>>
                                     IN  o \in retryRow /\ runHead[r] = runHead[o]
    BY DEF JobHasRun
  <2>1. RunExists(r)
    BY DEF Inv, ExistInv
  <2> QED  BY <2>1, RetryOrigin DEF Inv, RetryInv
<1> QED  BY <1>1, InvAlways, PTL
-----------------------------------------------------------------------------
(* The refinement: what each step does to the two variables of             *)
(* ReviewLifecycle.                                                        *)
Summaries == {r \in RunId : <<r, "summary">> \in posted}
LifeStep == [Lifecycle!LifeNext]_<<runStatus, Summaries>>

LEMMA IntakeLife ==
  ASSUME Inv, IntakeNext, UNCHANGED workerVars
  PROVE  LifeStep
<1> USE DEF Inv, TypeInv, TypeOK, TablesTypeOK, LifeStep, Summaries, workerVars, tableVars, runVars,
        queueVars, handlerVars, faultVars, intakeVars, OnlyPc
<1>1. ASSUME NEW h \in Handler, SupersedeOthers(h)
      PROVE  Lifecycle!LifeNext
  <2>1. SupersededBy(hHead[h]) \in SUBSET RunId
    BY DEF SupersededBy
  <2>2. Lifecycle!Supersede(SupersededBy(hHead[h]))
    BY <1>1 DEF SupersedeOthers, SupersedeQueuedOrRunningReviewRuns, SupersededBy, Lifecycle!Supersede
  <2> QED  BY <2>1, <2>2 DEF Lifecycle!LifeNext
<1>2. ASSUME NEW h \in Handler, CreateRun(h)
      PROVE  LifeStep
  <2>1. CASE CreateReviewRun(RunOf(h), hHead[h])
    <3>1. Lifecycle!Create(RunOf(h))
      BY <2>1 DEF CreateReviewRun, RunExists, Lifecycle!Create, Lifecycle!Become
    <3> QED  BY <3>1, RunOfIsRun DEF Lifecycle!LifeNext
  <2> QED  BY <1>2, <2>1 DEF CreateRun
<1>3. CASE \/ PushToBranch \/ DisableRepository
           \/ \E h \in Handler : \/ CreateDelivery(h) \/ ResolvePushPullRequest(h)
                                 \/ UpsertRepository(h) \/ UpsertPullRequestRow(h) \/ EnqueueRun(h)
                                 \/ MarkDelivery(h) \/ HandlerFault(h) \/ HandlerCrash(h)
  BY <1>3 DEF PushToBranch, DisableRepository, CreateDelivery, ResolvePushPullRequest,
     UpsertRepository, UpsertPullRequestRow, EnqueueRun, MarkDelivery, Verdict, HandlerFault,
     HandlerCrash
<1> QED  BY <1>1, <1>2, <1>3 DEF IntakeNext, HandlerStep

LEMMA WorkerLife ==
  ASSUME Inv, PublishInv, WorkerNext
  PROVE  LifeStep
<1> USE DEF Inv, TypeInv, TypeOK, TablesTypeOK, WorkerTypeOK, LifeStep, Summaries, tableVars, runVars,
        handlerVars, workerVars, NoIntake, Move
<1>1. ASSUME NEW w \in Worker, wPc[w] # "idle"
      PROVE  wRun[w] \in RunId /\ runStatus[wRun[w]] # "none"
  BY <1>1, WorkerAssumption DEF ExistInv, RunExists
<1>2. ASSUME NEW w \in Worker, StartRun(w)
      PROVE  LifeStep
  <2>1. CASE runStatus[wRun[w]] = "superseded"
    BY <1>2, <2>1 DEF StartRun, MarkRunning, UpdateStatus
  <2>2. CASE runStatus[wRun[w]] # "superseded"
    <3>1. Lifecycle!Start(wRun[w])
      BY <1>1, <1>2, <2>2 DEF StartRun, MarkRunning, UpdateStatus, Lifecycle!Start, Lifecycle!Become
    <3> QED  BY <1>1, <1>2, <3>1 DEF StartRun, Lifecycle!LifeNext
  <2> QED  BY <2>1, <2>2
<1>3. ASSUME NEW w \in Worker, FailRun(w)
      PROVE  LifeStep
  <2>1. CASE runStatus[wRun[w]] = "superseded"
    BY <1>3, <2>1 DEF FailRun, MarkFailed, UpdateStatus
  <2>2. CASE runStatus[wRun[w]] # "superseded"
    <3>1. Lifecycle!Fail(wRun[w])
      BY <1>1, <1>3, <2>2 DEF FailRun, MarkFailed, UpdateStatus, Lifecycle!Fail, Lifecycle!Become
    <3> QED  BY <1>1, <1>3, <3>1 DEF FailRun, Lifecycle!LifeNext
  <2> QED  BY <2>1, <2>2
<1>4. ASSUME NEW w \in Worker, FinishRun(w)
      PROVE  LifeStep
  <2>1. CASE runStatus[wRun[w]] = "superseded"
    BY <1>4, <2>1 DEF FinishRun, MarkSucceeded, UpdateStatus
  <2>2. CASE runStatus[wRun[w]] # "superseded"
    <3>1. <<wRun[w], "summary">> \in posted
      BY <1>4, <2>2 DEF FinishRun, PublishInv
    <3>2. Lifecycle!Succeed(wRun[w])
      BY <1>1, <1>4, <2>2, <3>1 DEF FinishRun, MarkSucceeded, UpdateStatus, Lifecycle!Succeed,
         Lifecycle!Become
    <3> QED  BY <1>1, <1>4, <3>2 DEF FinishRun, Lifecycle!LifeNext
  <2> QED  BY <2>1, <2>2
<1>5. ASSUME NEW w \in Worker, VerifySupersede(w)
      PROVE  LifeStep
  <2>1. Lifecycle!Supersede({wRun[w]})
    BY <1>1, <1>5 DEF VerifySupersede, SupersedeRun, Lifecycle!Supersede
  <2>2. {wRun[w]} \in SUBSET RunId
    BY <1>1, <1>5 DEF VerifySupersede
  <2> QED  BY <2>1, <2>2 DEF Lifecycle!LifeNext
<1>6. ASSUME NEW r \in RunId, runStatus[r] # "none", UNCHANGED runStatus,
             posted' = posted \cup {<<r, "summary">>}
      PROVE  LifeStep
  <2>1. Summaries' = Summaries \cup {r}
    BY <1>6
  <2>2. Lifecycle!Publish(r)
    BY <1>6, <2>1 DEF Lifecycle!Publish
  <2> QED  BY <2>2 DEF Lifecycle!LifeNext
<1>7. ASSUME NEW r \in RunId, UNCHANGED runStatus, posted' = posted \cup {<<r, "inline">>}
      PROVE  LifeStep
  BY <1>7
<1>8. ASSUME UNCHANGED <<runStatus, posted>>
      PROVE  LifeStep
  BY <1>8
<1>9. ASSUME NEW w \in Worker, PublishInline(w) \/ PublishSummary(w) \/ PipelineFails(w)
      PROVE  LifeStep
  <2>1. UNCHANGED runStatus /\ wPc[w] # "idle"
    BY <1>9 DEF PublishInline, PublishSummary, PipelineFails
  <2>2. \/ UNCHANGED posted
        \/ posted' = posted \cup {<<wRun[w], "summary">>}
        \/ posted' = posted \cup {<<wRun[w], "inline">>}
    BY <1>9 DEF PublishInline, PublishSummary, PipelineFails, CommentKind
  <2>3. wRun[w] \in RunId /\ runStatus[wRun[w]] # "none"
    BY <1>1, <2>1
  <2> QED  BY <1>6, <1>7, <1>8, <2>1, <2>2, <2>3
<1>10. ASSUME NEW w \in Worker, \/ VerifyPublishable(w) \/ CompleteReviewJob(w) \/ RejectReviewJob(w)
                                \/ WorkerFault(w) \/ WorkerCrash(w)
                                \/ \E r \in RunId : TakeReviewJob(w, r)
       PROVE  UNCHANGED <<runStatus, posted>>
  BY <1>10 DEF VerifyPublishable, CompleteReviewJob, RejectReviewJob, WorkerFault, WorkerCrash,
     TakeReviewJob
<1>11. ASSUME NEW r \in RunId, RecoverStalledJob(r) \/ FreezePastLock(r)
       PROVE  UNCHANGED <<runStatus, posted>>
  BY <1>11 DEF RecoverStalledJob, FreezePastLock
<1> QED  BY <1>2, <1>3, <1>4, <1>5, <1>8, <1>9, <1>10, <1>11 DEF WorkerNext, WorkerStep

LEMMA RetryLife ==
  ASSUME Inv, RetryNext
  PROVE  LifeStep
<1> USE DEF Inv, RetryInv, TypeInv, TypeOK, RetryTypeOK, LifeStep, Summaries, tableVars, runVars,
        workerVars, NoWork, RetryMove
<1> SUFFICES ASSUME NEW r \in RunId, RetryRequest(r) \/ RetryStep(r) \/ RetryFault(r)
             PROVE  LifeStep
  BY DEF RetryNext
<1>1. CASE RetryTransaction(r) \/ RetryInsertRun(r)
  <2>1. Lifecycle!Create(RetryOf(r)) /\ RetryOf(r) \in RunId
    BY <1>1, RetryIsRun DEF RetryTransaction, RetryInsertRun, CreateReviewRun, RunExists,
       Lifecycle!Create, Lifecycle!Become
  <2> QED  BY <2>1 DEF Lifecycle!LifeNext
<1>2. CASE \/ RetryRequest(r) \/ RetryConflict(r) \/ RetryInsertDelivery(r) \/ RetryInsertRow(r)
           \/ RetryEnqueue(r) \/ RetryFault(r)
  BY <1>2 DEF RetryRequest, RetryConflict, RetryInsertDelivery, RetryInsertRow, RetryEnqueue, RetryFault
<1> QED  BY <1>1, <1>2 DEF RetryStep

(* The rows of the review path go through the life ReviewLifecycle         *)
(* describes and no other: handlers, retries, workers, lost locks and      *)
(* crashes together never move a run in a way the abstract life forbids.   *)
THEOREM ImplementsLifecycle == Spec => RefinesLifecycle
<1>1. Init => Lifecycle!LifeInit
  BY DEF Init, TablesInit, WorkerInit, Lifecycle!LifeInit
<1>2. Inv /\ PublishInv /\ [Next]_vars => LifeStep
  <2>1. UNCHANGED vars => LifeStep
    BY DEF vars, tableVars, runVars, workerVars, LifeStep, Summaries
  <2> QED  BY <2>1, IntakeLife, WorkerLife, RetryLife DEF Next
<1>3. Spec => []PublishInv
  <2>1. Init => PublishInv
    BY DEF Init, TablesInit, WorkerInit, PublishInv, SucceededMeansPublished
  <2>2. TypeInv /\ PublishInv /\ [Next]_vars => PublishInv'
    BY PublishInvStep
  <2> QED  BY <2>1, <2>2, TypeCorrect, PTL DEF Spec
<1> QED
  BY <1>1, <1>2, <1>3, InvAlways, PTL DEF Spec, RefinesLifecycle, Lifecycle!LifeSpec, LifeStep, Summaries
=============================================================================
