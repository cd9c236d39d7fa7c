------------------------ MODULE ReviewDelivery_proofs -----------------------
(***************************************************************************)
(* One verdict per delivery, a verdict that says what was created, no      *)
(* supersession without another head, and a review of the current head.    *)
(***************************************************************************)
EXTENDS ReviewRefinement_proofs

Working(h) == hPc[h] \notin {"idle", "done"}
Early == {"resolve", "upsertRepository", "upsertPullRequest", "supersede", "createRun", "markIgnored"}
Untouched(r) == ~RunExists(r) /\ jobState[r] = "none"

(* The row inserted by createDelivery admits one request per delivery, and *)
(* what exists of the run and the job follows from where that request is.  *)
DeliveryInv ==
  /\ \A g, h \in Handler : Working(g) /\ Working(h) /\ g[1] = h[1] => g = h
  /\ \A h \in Handler : Working(h) => deliveryStatus[RunOf(h)] = "processing"
  /\ \A h \in Handler : hPc[h] = "markProcessed" =>
       RunExists(RunOf(h)) /\ jobState[RunOf(h)] # "none"
  /\ \A h \in Handler :
       hPc[h] \in Early => Untouched(RunOf(h))
  /\ \A d \in Delivery : deliveryStatus[<<d, 0>>] = "none" => Untouched(<<d, 0>>)
  /\ VerdictMatchesWork

LEMMA OriginalRuns ==
  /\ \A d \in Delivery : <<d, 0>> \in RunId
  /\ \A h \in Handler : h[1] \in Delivery /\ RunOf(h) = <<h[1], 0>>
  /\ \A r \in RunId, d \in Delivery : RetryOf(r) # <<d, 0>>
BY TablesAssumption DEF Handler, RunOf, RunId, RetryOf

(* A step that keeps the handlers, the delivery rows of GitHub, and which  *)
(* of its runs and jobs exist keeps the invariant.                         *)
LEMMA DeliveryInvKept ==
  ASSUME DeliveryInv, UNCHANGED hPc,
         \A d \in Delivery : /\ deliveryStatus'[<<d, 0>>] = deliveryStatus[<<d, 0>>]
                             /\ RunExists(<<d, 0>>)' <=> RunExists(<<d, 0>>)
                             /\ jobState'[<<d, 0>>] = "none" <=> jobState[<<d, 0>>] = "none"
  PROVE  DeliveryInv'
BY OriginalRuns DEF DeliveryInv, VerdictMatchesWork, Untouched, Working, Early

(* A step of the one request that works on its delivery, which changes only*)
(* the row, the run and the job of that delivery.                          *)
LEMMA DeliveryInvMoved ==
  ASSUME Inv, DeliveryInv, NEW h \in Handler, NEW pc \in HandlerPc,
         hPc' = [hPc EXCEPT ![h] = pc],
         \A g \in Handler : Working(g) /\ g[1] = h[1] => g = h,
         \A e \in Delivery : e # h[1] =>
           /\ deliveryStatus'[<<e, 0>>] = deliveryStatus[<<e, 0>>]
           /\ RunExists(<<e, 0>>)' <=> RunExists(<<e, 0>>)
           /\ jobState'[<<e, 0>>] = "none" <=> jobState[<<e, 0>>] = "none",
         pc \notin {"idle", "done"} => deliveryStatus'[RunOf(h)] = "processing",
         pc = "markProcessed" => RunExists(RunOf(h))' /\ jobState'[RunOf(h)] # "none",
         pc \in Early \/ deliveryStatus'[RunOf(h)] \in {"none", "ignored"} => Untouched(RunOf(h))',
         deliveryStatus'[RunOf(h)] = "processed" => RunExists(RunOf(h))' /\ jobState'[RunOf(h)] # "none"
  PROVE  DeliveryInv'
<1> USE DEF DeliveryInv, Working, Untouched, Early
<1>1. h[1] \in Delivery /\ RunOf(h) = <<h[1], 0>>
  BY OriginalRuns
<1>2. \A g \in Handler : g # h => hPc'[g] = hPc[g]
  BY DEF Inv, TypeInv, TypeOK, IntakeTypeOK
<1>3. hPc'[h] = pc
  BY DEF Inv, TypeInv, TypeOK, IntakeTypeOK
<1>4. \A g \in Handler : g # h /\ g[1] = h[1] => ~Working(g)'
  BY <1>2
<1>5. \A g \in Handler : g[1] # h[1] =>
        /\ deliveryStatus'[RunOf(g)] = deliveryStatus[RunOf(g)]
        /\ RunExists(RunOf(g))' <=> RunExists(RunOf(g))
        /\ jobState'[RunOf(g)] = "none" <=> jobState[RunOf(g)] = "none"
  BY OriginalRuns
<1>6. \A f, g \in Handler : Working(f)' /\ Working(g)' /\ f[1] = g[1] => f = g
  BY <1>2, <1>4
<1>7. \A g \in Handler : Working(g)' => deliveryStatus'[RunOf(g)] = "processing"
  BY <1>2, <1>3, <1>4, <1>5
<1>8. \A g \in Handler : hPc'[g] = "markProcessed" =>
        RunExists(RunOf(g))' /\ jobState'[RunOf(g)] # "none"
  BY <1>2, <1>3, <1>4, <1>5
<1>9. \A g \in Handler : hPc'[g] \in Early => Untouched(RunOf(g))'
  BY <1>2, <1>3, <1>4, <1>5
<1>10. \A e \in Delivery : deliveryStatus'[<<e, 0>>] = "none" => Untouched(<<e, 0>>)'
  BY <1>1
<1>11. VerdictMatchesWork'
  BY <1>1 DEF VerdictMatchesWork
<1> QED  BY <1>6, <1>7, <1>8, <1>9, <1>10, <1>11

(* A request that ends without another effect keeps the invariant.         *)
LEMMA DeliveryInvEnded ==
  ASSUME DeliveryInv, UNCHANGED <<deliveryStatus, runStatus, jobState>>,
         \A g \in Handler : Working(g)' => hPc'[g] = hPc[g]
  PROVE  DeliveryInv'
<1>1. \A g \in Handler : hPc'[g] \in Early \cup {"markProcessed"} => hPc'[g] = hPc[g]
  BY DEF Working, Early
<1>2. \A g \in Handler : Working(g)' => Working(g)
  BY DEF Working
<1> QED  BY <1>1, <1>2 DEF DeliveryInv, VerdictMatchesWork, Untouched, RunExists

LEMMA DeliveryWorker ==
  ASSUME Inv, DeliveryInv, WorkerNext
  PROVE  DeliveryInv' /\ UNCHANGED deliveryStatus
<1>1. UNCHANGED deliveryStatus
  BY DEF WorkerNext, WorkerStep, StartRun, VerifyPublishable, VerifySupersede, PublishInline,
     PublishSummary, FinishRun, CompleteReviewJob, FailRun, RejectReviewJob, PipelineFails,
     WorkerFault, WorkerCrash, TakeReviewJob, RecoverStalledJob, FreezePastLock, NoIntake
<1> QED  BY <1>1, WorkerRuns, DeliveryInvKept, OriginalRuns DEF Kept, RunExists

LEMMA DeliveryRetry ==
  ASSUME Inv, DeliveryInv, RetryNext
  PROVE  /\ DeliveryInv'
         /\ \A r \in RunId : deliveryStatus[r] # "none" => deliveryStatus'[r] = deliveryStatus[r]
<1> USE DEF Inv, TypeInv, TypeOK, TablesTypeOK, QueueTypeOK, NoWork, tableVars, runVars, queueVars,
        handlerVars
<1> PICK r \in RunId : RetryRequest(r) \/ RetryStep(r) \/ RetryFault(r)
  BY DEF RetryNext
<1>1. UNCHANGED hPc
  BY DEF RetryRequest, RetryStep, RetryConflict, RetryTransaction, RetryInsertDelivery,
     RetryInsertRun, RetryInsertRow, RetryEnqueue, RetryFault
<1>2. \/ UNCHANGED deliveryStatus
      \/ /\ deliveryStatus[RetryOf(r)] = "none"
         /\ deliveryStatus' = [deliveryStatus EXCEPT ![RetryOf(r)] = "processed"]
  BY DEF RetryRequest, RetryStep, RetryConflict, RetryTransaction, RetryInsertDelivery,
     RetryInsertRun, RetryInsertRow, RetryEnqueue, RetryFault, InsertDelivery, DeliveryExists
<1>3. \/ UNCHANGED runStatus
      \/ runStatus' = [runStatus EXCEPT ![RetryOf(r)] = "queued"]
  BY DEF RetryRequest, RetryStep, RetryConflict, RetryTransaction, RetryInsertDelivery,
     RetryInsertRun, RetryInsertRow, RetryEnqueue, RetryFault, CreateReviewRun
<1>4. \A q \in RunId : q # RetryOf(r) => jobState'[q] = jobState[q]
  BY DEF RetryRequest, RetryStep, RetryConflict, RetryTransaction, RetryInsertDelivery,
     RetryInsertRun, RetryInsertRow, RetryEnqueue, RetryFault, EnqueuePullRequestReview
<1>5. DeliveryInv'
  BY <1>1, <1>2, <1>3, <1>4, DeliveryInvKept, OriginalRuns DEF RunExists
<1> QED  BY <1>2, <1>5

LEMMA DeliveryIntake ==
  ASSUME Inv, DeliveryInv, IntakeNext
  PROVE  /\ DeliveryInv'
         /\ \A r \in RunId : deliveryStatus[r] \in {"processed", "ignored", "failed"} =>
              deliveryStatus'[r] = deliveryStatus[r]
<1> USE DEF Inv, TypeInv, TypeOK, TablesTypeOK, QueueTypeOK, IntakeTypeOK, tableVars, runVars,
        queueVars, handlerVars, At, Goto, OnlyPc
<1>1. CASE PushToBranch \/ DisableRepository
  BY <1>1, DeliveryInvKept, OriginalRuns DEF PushToBranch, DisableRepository, RunExists, intakeVars
<1>2. ASSUME NEW h \in Handler, HandlerStep(h) \/ HandlerFault(h) \/ HandlerCrash(h)
      PROVE  /\ DeliveryInv'
             /\ \A r \in RunId : deliveryStatus[r] \in {"processed", "ignored", "failed"} =>
                  deliveryStatus'[r] = deliveryStatus[r]
  <2> DEFINE d == h[1]
  <2>0. d \in Delivery /\ RunOf(h) = <<d, 0>> /\ <<d, 0>> \in RunId
    BY OriginalRuns
  <2>1. Working(h) => /\ \A g \in Handler : Working(g) /\ g[1] = d => g = h
                      /\ deliveryStatus[<<d, 0>>] = "processing"
    BY <2>0 DEF DeliveryInv
  <2>2. CASE CreateDelivery(h)
    <3>1. CASE hPc' = [hPc EXCEPT ![h] = "done"] /\ UNCHANGED deliveryStatus
      <4>1. UNCHANGED <<runStatus, jobState>> /\ ~Working(h) /\ ~Working(h)'
        BY <2>2, <3>1 DEF CreateDelivery, Arrives, Working
      <4>2. \A g \in Handler : g # h => hPc'[g] = hPc[g]
        BY <3>1
      <4> QED  BY <3>1, <4>1, <4>2, DeliveryInvEnded
    <3>2. CASE ~DeliveryExists(RunOf(h))
      <4>1. PICK pc \in {"markIgnored", "resolve", "upsertRepository"} : hPc' = [hPc EXCEPT ![h] = pc]
        BY <2>2, <3>2 DEF CreateDelivery
      <4>2. /\ deliveryStatus' = [deliveryStatus EXCEPT ![<<d, 0>>] = "processing"]
            /\ deliveryStatus[<<d, 0>>] = "none"
            /\ UNCHANGED <<runStatus, jobState>>
        BY <2>0, <2>2, <3>2 DEF CreateDelivery, InsertDelivery, DeliveryExists
      <4>3. \A g \in Handler : g[1] = d => ~Working(g)
        BY <2>0, <4>2, OriginalRuns DEF DeliveryInv
      <4>4. Untouched(<<d, 0>>)'
        BY <2>0, <4>2 DEF DeliveryInv, Untouched, RunExists
      <4>5. pc \in HandlerPc
        BY <4>1 DEF HandlerPc
      <4> QED  BY <2>0, <4>1, <4>2, <4>3, <4>4, <4>5, DeliveryInvMoved, OriginalRuns DEF RunExists
    <3> QED  BY <2>2, <3>1, <3>2 DEF CreateDelivery
  <2>3. CASE CreateRun(h) /\ ~RunExists(RunOf(h))
    <3>1. /\ Working(h)
          /\ hPc' = [hPc EXCEPT ![h] = "enqueue"]
          /\ runStatus' = [runStatus EXCEPT ![<<d, 0>>] = "queued"]
          /\ UNCHANGED <<deliveryStatus, jobState>>
      BY <2>0, <2>3 DEF CreateRun, CreateReviewRun, Working
    <3>2. "enqueue" \in HandlerPc
      BY DEF HandlerPc
    <3> QED  BY <2>0, <2>1, <3>1, <3>2, DeliveryInvMoved, OriginalRuns DEF RunExists, Early
  <2>4. CASE EnqueueRun(h)
    <3>1. /\ Working(h)
          /\ hPc' = [hPc EXCEPT ![h] = "markProcessed"]
          /\ \A r \in RunId : r # <<d, 0>> => jobState'[r] = jobState[r]
          /\ jobState'[<<d, 0>>] # "none"
          /\ RunExists(<<d, 0>>)
          /\ UNCHANGED <<deliveryStatus, runStatus>>
      BY <2>0, <2>4 DEF EnqueueRun, EnqueuePullRequestReview, ExistInv, Working
    <3>2. "markProcessed" \in HandlerPc
      BY DEF HandlerPc
    <3> QED  BY <2>0, <2>1, <3>1, <3>2, DeliveryInvMoved, OriginalRuns DEF RunExists, Early
  <2>5. CASE MarkDelivery(h)
    <3>1. PICK s \in {"processed", "ignored", "failed"} :
            /\ Working(h)
            /\ s = "processed" => hPc[h] = "markProcessed"
            /\ s = "ignored" => hPc[h] = "markIgnored"
            /\ deliveryStatus' = [deliveryStatus EXCEPT ![<<d, 0>>] = s]
            /\ hPc' = [hPc EXCEPT ![h] = "done"]
            /\ UNCHANGED <<runStatus, jobState>>
      BY <2>0, <2>5 DEF MarkDelivery, Verdict, MarkDeliveryProcessed, Working
    <3>2. /\ s = "processed" => RunExists(<<d, 0>>)' /\ jobState'[<<d, 0>>] # "none"
          /\ s = "ignored" => Untouched(<<d, 0>>)'
      BY <2>0, <3>1 DEF DeliveryInv, RunExists, Untouched, Early
    <3>3. "done" \in HandlerPc
      BY DEF HandlerPc
    <3>4. deliveryStatus'[<<d, 0>>] = s
      BY <2>0, <3>1
    <3>5. \A e \in Delivery : e # d =>
            /\ deliveryStatus'[<<e, 0>>] = deliveryStatus[<<e, 0>>]
            /\ RunExists(<<e, 0>>)' <=> RunExists(<<e, 0>>)
            /\ jobState'[<<e, 0>>] = jobState[<<e, 0>>]
      BY <3>1, OriginalRuns DEF RunExists
    <3>6. "done" \notin Early /\ s # "none" /\ s # "processing"
      BY DEF Early
    <3>7. DeliveryInv'
      BY ZenonT(60), <2>0, <2>1, <3>1, <3>2, <3>3, <3>4, <3>5, <3>6, DeliveryInvMoved
    <3> QED  BY <2>0, <2>1, <3>1, <3>7
  <2>6. ASSUME UNCHANGED <<deliveryStatus, jobState>>, Kept, Working(h),
               NEW pc \in HandlerPc, hPc' = [hPc EXCEPT ![h] = pc],
               \/ pc \in {"markFailed", "done"}
               \/ hPc[h] \in Early /\ pc \in Early
        PROVE  DeliveryInv'
    <3>1. pc \in Early => Untouched(<<d, 0>>)'
      BY <2>0, <2>6 DEF DeliveryInv, Early, Untouched, Kept, RunExists
    <3> QED  BY <2>0, <2>1, <2>6, <3>1, DeliveryInvMoved, OriginalRuns DEF Kept, RunExists, Early
  <2>7. CASE HandlerFault(h) /\ ~Working(h)
    <3>1. /\ hPc' = [hPc EXCEPT ![h] = "done"] /\ UNCHANGED <<deliveryStatus, runStatus, jobState>>
          /\ \A g \in Handler : g # h => hPc'[g] = hPc[g]
          /\ ~Working(h)'
      BY <2>7 DEF HandlerFault, InTry, Working, Arrives
    <3> QED  BY <2>7, <3>1, DeliveryInvEnded
  <2>8. CASE \/ ResolvePushPullRequest(h) \/ UpsertRepository(h) \/ UpsertPullRequestRow(h)
             \/ SupersedeOthers(h) \/ (CreateRun(h) /\ RunExists(RunOf(h)))
             \/ (HandlerFault(h) /\ Working(h)) \/ HandlerCrash(h)
    <3>1. UNCHANGED <<deliveryStatus, jobState>> /\ Kept /\ Working(h)
      BY <2>8 DEF ResolvePushPullRequest, UpsertRepository, UpsertPullRequestRow, SupersedeOthers,
         SupersedeQueuedOrRunningReviewRuns, SupersededBy, CreateRun, HandlerFault, HandlerCrash,
         Kept, Working
    <3>2. \E pc \in HandlerPc :
            /\ hPc' = [hPc EXCEPT ![h] = pc]
            /\ \/ pc \in {"markFailed", "done"}
               \/ hPc[h] \in Early /\ pc \in Early
      BY <2>8 DEF ResolvePushPullRequest, UpsertRepository, UpsertPullRequestRow, AfterUpsert,
         SupersedeOthers, CreateRun, HandlerFault, InTry, HandlerCrash, HandlerPc, Early
    <3> QED  BY <2>6, <3>1, <3>2
  <2> QED  BY <1>2, <2>2, <2>3, <2>4, <2>5, <2>7, <2>8 DEF HandlerStep
<1> QED  BY <1>1, <1>2 DEF IntakeNext

LEMMA DeliveryStep ==
  ASSUME Inv, DeliveryInv, [Next]_vars
  PROVE  /\ DeliveryInv'
         /\ \A r \in RunId : deliveryStatus[r] \in {"processed", "ignored", "failed"} =>
              deliveryStatus'[r] = deliveryStatus[r]
<1>1. CASE UNCHANGED vars
  BY <1>1, DeliveryInvEnded DEF vars, tableVars, runVars, queueVars, intakeVars, handlerVars
<1> QED  BY <1>1, DeliveryIntake, DeliveryWorker, DeliveryRetry DEF Next

LEMMA DeliveryInvAlways == Spec => []DeliveryInv
<1>1. Init => DeliveryInv
  <2> SUFFICES ASSUME Init PROVE DeliveryInv
    OBVIOUS
  <2> QED
    BY OriginalRuns DEF Init, TablesInit, QueueInit, IntakeInit, DeliveryInv, VerdictMatchesWork,
       Working, Untouched, RunExists, Early
<1>2. Inv /\ DeliveryInv /\ [Next]_vars => DeliveryInv'
  BY DeliveryStep
<1> QED  BY <1>1, <1>2, InvAlways, PTL DEF Spec

(* A delivery is reported processed only when its run and its job exist    *)
(* and ignored only when neither does, however often it is sent, whatever  *)
(* else is handled meanwhile, and whichever calls fail.                    *)
THEOREM VerdictIsTruthful == Spec => []VerdictMatchesWork
<1>1. DeliveryInv => VerdictMatchesWork
  BY DEF DeliveryInv
<1> QED  BY <1>1, DeliveryInvAlways, PTL

(* No delivery ever gets a second verdict: not from a repeated request,    *)
(* not from the catch of a failed one, and not from a retry.               *)
THEOREM VerdictStays == Spec => VerdictIsFinal
<1>1. Inv /\ DeliveryInv /\ [Next]_vars =>
        [\A r \in RunId : deliveryStatus[r] \in {"processed", "ignored", "failed"}
                            => deliveryStatus'[r] = deliveryStatus[r]]_vars
  BY DeliveryStep
<1> QED  BY <1>1, InvAlways, DeliveryInvAlways, PTL DEF Spec, VerdictIsFinal
-----------------------------------------------------------------------------
(* Why a supersession has a cause: the row of the pull request always shows*)
(* a head that some request wrote, and the worker's own supersession starts*)
(* from a difference it has seen.                                          *)
Cause(r) == \E h \in Handler : Wrote(h) /\ hHead[h] \notin {0, runHead[r]}
CauseInv ==
  /\ SupersessionHasCause
  /\ \A h \in Handler : Working(h) => hHead[h] # 0
  /\ prHead # 0 => \E h \in Handler : Wrote(h) /\ hHead[h] = prHead
  /\ \A h \in Handler : hPc[h] \in {"supersede", "createRun"} => prHead # 0
  /\ \A r \in RunId : RunExists(r) => prHead # 0
  /\ \A w \in Worker, r \in RunId : wPc[w] = "verifySupersede" /\ wRun[w] = r => Cause(r)

(* The head of a run and the head a request wrote are never changed.       *)
LEMMA HeadKept ==
  ASSUME Inv, [Next]_vars
  PROVE  \A r \in RunId : RunExists(r) => RunExists(r)' /\ runHead'[r] = runHead[r]
<1>1. CASE IntakeNext
  <2>1. CASE Kept /\ UNCHANGED runHead
    BY <2>1 DEF Kept, RunExists
  <2>2. CASE UNCHANGED runVars
    BY <2>2 DEF runVars, RunExists
  <2>3. ASSUME NEW h \in Handler, CreateReviewRun(RunOf(h), hHead[h])
        PROVE  \A r \in RunId : RunExists(r) => RunExists(r)' /\ runHead'[r] = runHead[r]
    BY <2>3, RunOfIsRun DEF CreateReviewRun, RunExists, Inv, TypeInv, TypeOK, TablesTypeOK
  <2> QED  BY <1>1, <2>1, <2>2, <2>3, IntakeRuns DEF Inv
<1>2. CASE WorkerNext
  BY <1>2, WorkerRuns DEF Kept, RunExists
<1>3. CASE RetryNext
  <2>1. PICK q \in RunId : RetryRequest(q) \/ RetryStep(q) \/ RetryFault(q)
    BY <1>3 DEF RetryNext
  <2>2. UNCHANGED runVars \/ CreateReviewRun(RetryOf(q), runHead[q])
    BY <2>1 DEF RetryRequest, RetryStep, RetryConflict, RetryTransaction, RetryInsertDelivery,
       RetryInsertRun, RetryInsertRow, RetryEnqueue, RetryFault, tableVars
  <2> QED  BY <2>2 DEF CreateReviewRun, RunExists, runVars, Inv, TypeInv, TypeOK, TablesTypeOK
<1>4. CASE UNCHANGED vars
  BY <1>4 DEF vars, tableVars, runVars, RunExists
<1> QED  BY <1>1, <1>2, <1>3, <1>4 DEF Next

LEMMA WroteKept ==
  ASSUME Inv, IntakeNext
  PROVE  \A h \in Handler : Wrote(h) => Wrote(h)' /\ hHead'[h] = hHead[h]
<1> USE DEF Inv, TypeInv, TypeOK, IntakeTypeOK, Wrote, At, Goto, OnlyPc, handlerVars, intakeVars
<1>1. CASE PushToBranch \/ DisableRepository
  BY <1>1 DEF PushToBranch, DisableRepository
<1>2. ASSUME NEW g \in Handler, HandlerStep(g) \/ HandlerFault(g) \/ HandlerCrash(g)
      PROVE  \A h \in Handler : Wrote(h) => Wrote(h)' /\ hHead'[h] = hHead[h]
  <2>1. CASE CreateDelivery(g)
    <3>1. ~Wrote(g) /\ \A h \in Handler : h # g => hPc'[h] = hPc[h] /\ hHead'[h] = hHead[h]
      BY <2>1 DEF CreateDelivery, Arrives
    <3> QED  BY <3>1
  <2>2. CASE ResolvePushPullRequest(g)
    <3>1. ~Wrote(g) /\ \A h \in Handler : h # g => hPc'[h] = hPc[h] /\ hHead'[h] = hHead[h]
      BY <2>2 DEF ResolvePushPullRequest
    <3> QED  BY <3>1
  <2>3. CASE UpsertRepository(g)
    BY <2>3 DEF UpsertRepository
  <2>4. CASE \/ UpsertPullRequestRow(g) \/ SupersedeOthers(g) \/ CreateRun(g) \/ EnqueueRun(g)
             \/ MarkDelivery(g) \/ HandlerFault(g) \/ HandlerCrash(g)
    <3>1. /\ UNCHANGED hHead
          /\ \E pc \in HandlerPc \ {"idle", "resolve", "upsertRepository", "upsertPullRequest"} :
               hPc' = [hPc EXCEPT ![g] = pc]
      BY <2>4 DEF UpsertPullRequestRow, AfterUpsert, SupersedeOthers, CreateRun, EnqueueRun,
         MarkDelivery, Verdict, HandlerFault, InTry, HandlerCrash, HandlerPc
    <3> QED  BY <3>1
  <2> QED  BY <1>2, <2>1, <2>2, <2>3, <2>4 DEF HandlerStep
<1> QED  BY <1>1, <1>2 DEF IntakeNext

(* A cause once there stays.                                               *)
LEMMA CauseKept ==
  ASSUME Inv, [Next]_vars, NEW r \in RunId, RunExists(r), Cause(r)
  PROVE  Cause(r)'
<1>1. \A h \in Handler : Wrote(h) => Wrote(h)' /\ hHead'[h] = hHead[h]
  <2>1. CASE UNCHANGED handlerVars
    BY <2>1 DEF handlerVars, Wrote
  <2>2. CASE WorkerNext
    <3>1. UNCHANGED handlerVars
      BY <2>2 DEF WorkerNext, WorkerStep, StartRun, VerifyPublishable, VerifySupersede, PublishInline,
         PublishSummary, FinishRun, CompleteReviewJob, FailRun, RejectReviewJob, PipelineFails,
         WorkerFault, WorkerCrash, TakeReviewJob, RecoverStalledJob, FreezePastLock, NoIntake
    <3> QED  BY <2>1, <3>1
  <2>3. RetryNext \/ UNCHANGED vars => UNCHANGED handlerVars
    BY DEF RetryNext, RetryRequest, RetryStep, RetryConflict, RetryTransaction, RetryInsertDelivery,
       RetryInsertRun, RetryInsertRow, RetryEnqueue, RetryFault, NoWork, vars, intakeVars
  <2> QED  BY <2>1, <2>2, <2>3, WroteKept DEF Next
<1>2. runHead'[r] = runHead[r]
  BY HeadKept
<1> QED  BY <1>1, <1>2 DEF Cause

LEMMA CauseIntake ==
  ASSUME Inv, CauseInv, IntakeNext, UNCHANGED <<workerVars, rPc>>
  PROVE  CauseInv'
<1> USE DEF Inv, TypeInv, TypeOK, IntakeTypeOK, TablesTypeOK
<1>1. [Next]_vars
  BY DEF Next
<1>2. \A h \in Handler : Wrote(h) => Wrote(h)' /\ hHead'[h] = hHead[h]
  BY WroteKept
<1>3. ASSUME UNCHANGED prHead, \A r \in RunId : RunExists(r)' => RunExists(r) \/ prHead # 0,
             \A h \in Handler : /\ Working(h)' => hHead'[h] # 0
                                /\ hPc'[h] \in {"supersede", "createRun"} => prHead # 0,
             \A r \in RunId : runStatus'[r] = "superseded" => runStatus[r] = "superseded" \/ Cause(r)'
      PROVE  CauseInv'
  <2>1. SupersessionHasCause'
    <3> SUFFICES ASSUME NEW r \in RunId, runStatus'[r] = "superseded" PROVE Cause(r)'
      BY DEF SupersessionHasCause, Cause
    <3>1. CASE runStatus[r] = "superseded"
      BY <1>1, <3>1, CauseKept DEF CauseInv, SupersessionHasCause, Cause, RunExists
    <3> QED  BY <1>3, <3>1
  <2>2. prHead' # 0 => \E h \in Handler : Wrote(h)' /\ hHead'[h] = prHead'
    BY <1>2, <1>3 DEF CauseInv
  <2>3. \A r \in RunId : RunExists(r)' => prHead' # 0
    BY <1>3 DEF CauseInv
  <2>4. \A w \in Worker, r \in RunId : wPc'[w] = "verifySupersede" /\ wRun'[w] = r => Cause(r)'
    <3> SUFFICES ASSUME NEW w \in Worker, NEW r \in RunId, wPc[w] = "verifySupersede", wRun[w] = r
                 PROVE  Cause(r)'
      BY DEF workerVars
    <3>1. RunExists(r)
      BY WorkerAssumption DEF WorkerTypeOK, ExistInv
    <3> QED  BY <1>1, <3>1, CauseKept DEF CauseInv
  <2> QED  BY <1>3, <2>1, <2>2, <2>3, <2>4 DEF CauseInv
<1> USE DEF At, Goto, OnlyPc, tableVars, runVars, handlerVars, intakeVars
<1>4. CASE PushToBranch \/ DisableRepository
  <2>1. UNCHANGED <<prHead, runStatus, hPc, hHead>>
    BY <1>4 DEF PushToBranch, DisableRepository
  <2> QED  BY <1>3, <2>1 DEF CauseInv, Working, RunExists
<1>5. ASSUME NEW h \in Handler, HandlerStep(h) \/ HandlerFault(h) \/ HandlerCrash(h)
      PROVE  CauseInv'
  <2>1. CASE CreateDelivery(h) \/ ResolvePushPullRequest(h)
    <3>1. /\ UNCHANGED <<prHead, runStatus>>
          /\ (\E n \in Head : hHead' = [hHead EXCEPT ![h] = n]) \/ (UNCHANGED hHead /\ Working(h))
          /\ \E pc \in {"done", "markIgnored", "resolve", "upsertRepository"} :
               hPc' = [hPc EXCEPT ![h] = pc]
      <4>1. ghHead \in Head /\ EventHead[h[1]] \in Head
        BY IntakeAssumption, OriginalRuns
      <4>2. CASE CreateDelivery(h)
        <5>1. /\ UNCHANGED <<prHead, runStatus>>
              /\ hHead' = [hHead EXCEPT ![h] = EventHead[h[1]]]
          BY <4>2 DEF CreateDelivery
        <5>2. \E pc \in {"done", "markIgnored", "resolve", "upsertRepository"} :
                hPc' = [hPc EXCEPT ![h] = pc]
          BY <4>2 DEF CreateDelivery
        <5> QED  BY <4>1, <5>1, <5>2
      <4>3. CASE ResolvePushPullRequest(h)
        BY <4>1, <4>3 DEF ResolvePushPullRequest, Working
      <4> QED  BY <2>1, <4>2, <4>3
    <3>2. \A n \in Head : n # 0
      BY DEF Head
    <3>3. \A g \in Handler : Working(g)' => hHead'[g] # 0
      BY <3>1, <3>2 DEF CauseInv, Working
    <3>4. \A g \in Handler : hPc'[g] \in {"supersede", "createRun"} => prHead # 0
      BY <3>1 DEF CauseInv
    <3> QED  BY <1>3, <3>1, <3>3, <3>4 DEF RunExists
  <2>2. CASE UpsertPullRequestRow(h)
    <3>1. /\ UNCHANGED <<runStatus, runHead, hHead>> /\ prHead' = hHead[h] /\ Working(h)
          /\ \E pc \in {"markIgnored", "supersede", "createRun"} : hPc' = [hPc EXCEPT ![h] = pc]
      BY <2>2 DEF UpsertPullRequestRow, AfterUpsert, UpsertPullRequest, Working
    <3>2. prHead' # 0
      BY <3>1 DEF CauseInv
    <3>3. Wrote(h)' /\ hHead'[h] = prHead'
      BY <3>1 DEF Wrote
    <3>4. \A g \in Handler : Working(g)' => hHead'[g] # 0
      BY <3>1 DEF CauseInv, Working
    <3>5. \A r \in RunId : Cause(r) => Cause(r)'
      BY <1>2, <3>1 DEF Cause
    <3>6. SupersessionHasCause'
      BY <3>1, <3>5 DEF CauseInv, SupersessionHasCause, Cause
    <3>7. UNCHANGED <<wPc, wRun>>
      BY DEF workerVars
    <3>8. \A w \in Worker, r \in RunId : wPc'[w] = "verifySupersede" /\ wRun'[w] = r => Cause(r)'
      BY <3>5, <3>7 DEF CauseInv
    <3> QED  BY <3>1, <3>2, <3>3, <3>4, <3>6, <3>8 DEF CauseInv, RunExists
  <2>3. CASE SupersedeOthers(h)
    <3>1. /\ UNCHANGED <<prHead, runHead, hHead>> /\ hPc[h] = "supersede"
          /\ hPc' = [hPc EXCEPT ![h] = "createRun"]
          /\ \A r \in RunId : runStatus'[r] = "superseded" =>
               runStatus[r] = "superseded" \/ runHead[r] # hHead[h]
      BY <2>3 DEF SupersedeOthers, SupersedeQueuedOrRunningReviewRuns, SupersededBy
    <3>2. hHead[h] # 0 /\ prHead # 0 /\ Wrote(h)'
      BY <3>1 DEF CauseInv, Working, Wrote
    <3>3. \A r \in RunId : runStatus'[r] = "superseded" => runStatus[r] = "superseded" \/ Cause(r)'
      BY <3>1, <3>2 DEF Cause
    <3>4. \A g \in Handler : Working(g)' => hHead'[g] # 0
      BY <3>1, <3>2 DEF CauseInv, Working
    <3> QED  BY <1>3, <3>1, <3>2, <3>3, <3>4
  <2>4. CASE CreateRun(h)
    <3>1. /\ UNCHANGED <<prHead, hHead>> /\ hPc[h] = "createRun"
          /\ \E pc \in {"enqueue", "markFailed"} : hPc' = [hPc EXCEPT ![h] = pc]
          /\ \A r \in RunId : runStatus'[r] = "superseded" => runStatus[r] = "superseded"
      BY <2>4 DEF CreateRun, CreateReviewRun
    <3>2. \A g \in Handler : /\ Working(g)' => hHead'[g] # 0
                             /\ hPc'[g] \in {"supersede", "createRun"} => prHead # 0
      BY <3>1 DEF CauseInv, Working
    <3> QED  BY <1>3, <3>1, <3>2 DEF CauseInv
  <2>5. CASE \/ UpsertRepository(h) \/ EnqueueRun(h) \/ MarkDelivery(h) \/ HandlerFault(h)
             \/ HandlerCrash(h)
    <3>1. /\ UNCHANGED <<prHead, runStatus, hHead>>
          /\ \E pc \in {"upsertPullRequest", "markProcessed", "done", "markFailed"} :
               /\ hPc' = [hPc EXCEPT ![h] = pc]
               /\ pc # "done" => Working(h)
      <4>1. CASE HandlerFault(h)
        BY <4>1 DEF HandlerFault, InTry, Arrives, Working
      <4>2. CASE MarkDelivery(h) \/ HandlerCrash(h)
        BY <4>2 DEF MarkDelivery, Verdict, HandlerCrash, Working
      <4>3. CASE UpsertRepository(h) \/ EnqueueRun(h)
        BY <4>3 DEF UpsertRepository, EnqueueRun, Working
      <4> QED  BY <2>5, <4>1, <4>2, <4>3
    <3>2. \A g \in Handler : /\ Working(g)' => hHead'[g] # 0
                             /\ hPc'[g] \in {"supersede", "createRun"} => prHead # 0
      BY <3>1 DEF CauseInv, Working
    <3> QED  BY <1>3, <3>1, <3>2 DEF RunExists
  <2> QED  BY <1>5, <2>1, <2>2, <2>3, <2>4, <2>5 DEF HandlerStep
<1> QED  BY <1>4, <1>5 DEF IntakeNext

LEMMA CauseWorker ==
  ASSUME Inv, CauseInv, WorkerNext, UNCHANGED rPc
  PROVE  CauseInv'
<1>1. [Next]_vars
  BY DEF Next
<1>2. UNCHANGED <<prHead, hPc, hHead>> /\ Kept
  <2>1. UNCHANGED <<prHead, hPc, hHead>>
    BY DEF WorkerNext, WorkerStep, StartRun, VerifyPublishable, VerifySupersede, PublishInline,
       PublishSummary, FinishRun, CompleteReviewJob, FailRun, RejectReviewJob, PipelineFails,
       WorkerFault, WorkerCrash, TakeReviewJob, RecoverStalledJob, FreezePastLock, NoIntake,
       handlerVars, tableVars
  <2> QED  BY <2>1, WorkerRuns
<1>3. \A r \in RunId : RunExists(r) /\ Cause(r) => Cause(r)'
  BY <1>1, CauseKept
<1>4. \A w \in Worker : wRun[w] \in RunId => RunExists(wRun[w])
  BY WorkerAssumption DEF Inv, ExistInv
<1>5. ASSUME \A w \in Worker, r \in RunId : wPc'[w] = "verifySupersede" /\ wRun'[w] = r => Cause(r)',
             \A r \in RunId : runStatus'[r] = "superseded" => runStatus[r] = "superseded" \/ Cause(r)'
      PROVE  CauseInv'
  <2>1. SupersessionHasCause'
    <3>1. \A r \in RunId : runStatus[r] = "superseded" => RunExists(r) /\ Cause(r)
      BY DEF CauseInv, SupersessionHasCause, Cause, RunExists
    <3>2. \A r \in RunId : runStatus'[r] = "superseded" => Cause(r)'
      BY <1>3, <1>5, <3>1
    <3> QED  BY <3>2 DEF SupersessionHasCause, Cause
  <2> QED  BY <1>2, <1>5, <2>1 DEF CauseInv, Working, Wrote, RunExists, Kept
<1> USE DEF Inv, TypeInv, TypeOK, TablesTypeOK, WorkerTypeOK, Move, NoIntake
<1>6. ASSUME NEW w \in Worker, WorkerStep(w) \/ PipelineFails(w) \/ WorkerFault(w) \/ WorkerCrash(w)
      PROVE  CauseInv'
  <2>1. CASE VerifyPublishable(w)
    <3>1. /\ UNCHANGED <<wRun, runStatus>> /\ wPc[w] = "verify"
          /\ wPc'[w] = "verifySupersede" => runHead[wRun[w]] # prHead
          /\ \A v \in Worker : v # w => wPc'[v] = wPc[v]
      BY <2>1 DEF VerifyPublishable, tableVars, runVars
    <3>2. wRun[w] \in RunId /\ RunExists(wRun[w])
      BY <1>4, <3>1, WorkerAssumption
    <3>3. wPc'[w] = "verifySupersede" => Cause(wRun[w])
      BY <3>1, <3>2 DEF CauseInv, Cause
    <3>4. \A v \in Worker, r \in RunId : wPc'[v] = "verifySupersede" /\ wRun'[v] = r =>
            RunExists(r) /\ Cause(r)
      BY <1>4, <3>1, <3>3 DEF CauseInv
    <3> QED  BY <1>3, <1>5, <3>1, <3>4
  <2>2. CASE VerifySupersede(w)
    <3>1. /\ UNCHANGED wRun /\ wPc[w] = "verifySupersede"
          /\ runStatus' = [runStatus EXCEPT ![wRun[w]] = "superseded"]
          /\ \A v \in Worker : wPc'[v] = "verifySupersede" => wPc[v] = "verifySupersede"
      BY <2>2 DEF VerifySupersede, SupersedeRun
    <3>2. \A v \in Worker, r \in RunId : wPc[v] = "verifySupersede" /\ wRun[v] = r =>
            RunExists(r) /\ Cause(r)
      BY <1>4 DEF CauseInv
    <3>3. \A r \in RunId : runStatus'[r] = "superseded" =>
            runStatus[r] = "superseded" \/ (r = wRun[w] /\ RunExists(r) /\ Cause(r))
      BY <3>1, <3>2
    <3> QED  BY <1>3, <1>5, <3>1, <3>2, <3>3
  <2>3. CASE \/ StartRun(w) \/ PublishInline(w) \/ PublishSummary(w) \/ FinishRun(w)
             \/ CompleteReviewJob(w) \/ FailRun(w) \/ RejectReviewJob(w) \/ PipelineFails(w)
             \/ WorkerFault(w) \/ WorkerCrash(w)
    <3>1. /\ \A v \in Worker : wPc'[v] = "verifySupersede" =>
                                 wPc[v] = "verifySupersede" /\ wRun'[v] = wRun[v]
          /\ \A r \in RunId : runStatus'[r] = "superseded" => runStatus[r] = "superseded"
      BY <2>3 DEF StartRun, MarkRunning, UpdateStatus, PublishInline, PublishSummary, FinishRun,
         MarkSucceeded, CompleteReviewJob, FailRun, MarkFailed, RejectReviewJob, PipelineFails,
         WorkerFault, WorkerCrash, Free, tableVars, runVars
    <3>2. \A v \in Worker, r \in RunId : wPc'[v] = "verifySupersede" /\ wRun'[v] = r =>
            RunExists(r) /\ Cause(r)
      BY <1>4, <3>1 DEF CauseInv
    <3> QED  BY <1>3, <1>5, <3>1, <3>2
  <2> QED  BY <1>6, <2>1, <2>2, <2>3 DEF WorkerStep
<1>7. ASSUME NEW q \in RunId, \/ RecoverStalledJob(q) \/ FreezePastLock(q)
                              \/ \E w \in Worker : TakeReviewJob(w, q)
      PROVE  CauseInv'
  <2>1. /\ UNCHANGED runStatus
        /\ \A v \in Worker : wPc'[v] = "verifySupersede" =>
                               wPc[v] = "verifySupersede" /\ wRun'[v] = wRun[v]
    BY <1>7 DEF RecoverStalledJob, FreezePastLock, TakeReviewJob, runVars, workerVars
  <2>2. \A v \in Worker, r \in RunId : wPc'[v] = "verifySupersede" /\ wRun'[v] = r =>
          RunExists(r) /\ Cause(r)
    BY <1>4, <2>1 DEF CauseInv
  <2> QED  BY <1>3, <1>5, <2>1, <2>2
<1> QED  BY <1>6, <1>7 DEF WorkerNext

LEMMA CauseRetry ==
  ASSUME Inv, CauseInv, RetryNext
  PROVE  CauseInv'
<1>1. [Next]_vars
  BY DEF Next
<1>2. UNCHANGED <<prHead, hPc, hHead, wPc, wRun>>
  BY DEF RetryNext, RetryRequest, RetryStep, RetryConflict, RetryTransaction, RetryInsertDelivery,
     RetryInsertRun, RetryInsertRow, RetryEnqueue, RetryFault, NoWork, handlerVars, workerVars
<1>3. /\ \A r \in RunId : runStatus'[r] = "superseded" => runStatus[r] = "superseded"
      /\ \A r \in RunId : RunExists(r)' => RunExists(r) \/ \E o \in RunId : RunExists(o)
  <2>1. PICK q \in RunId : RetryRequest(q) \/ RetryStep(q) \/ RetryFault(q)
    BY DEF RetryNext
  <2>2. \/ UNCHANGED runVars
        \/ rPc[q] # "idle" /\ runStatus' = [runStatus EXCEPT ![RetryOf(q)] = "queued"]
    BY <2>1 DEF RetryRequest, RetryStep, RetryConflict, RetryTransaction, RetryInsertDelivery,
       RetryInsertRun, RetryInsertRow, RetryEnqueue, RetryFault, CreateReviewRun, RetryMove, tableVars
  <2>3. rPc[q] # "idle" => RunExists(q)
    BY DEF Inv, RetryInv
  <2> QED  BY <2>2, <2>3 DEF Inv, TypeInv, TypeOK, TablesTypeOK, RunExists, runVars
<1>4. \A r \in RunId : RunExists(r) /\ Cause(r) => Cause(r)'
  BY <1>1, CauseKept
<1>5. \A r \in RunId : runStatus[r] = "superseded" => RunExists(r) /\ Cause(r)
  BY DEF CauseInv, SupersessionHasCause, Cause, RunExists
<1>6. SupersessionHasCause'
  <2>1. \A r \in RunId : runStatus'[r] = "superseded" => Cause(r)'
    BY <1>3, <1>4, <1>5
  <2> QED  BY <2>1 DEF SupersessionHasCause, Cause
<1>7. \A v \in Worker, r \in RunId : wPc'[v] = "verifySupersede" /\ wRun'[v] = r => Cause(r)'
  BY <1>2, <1>4, WorkerAssumption DEF CauseInv, Inv, ExistInv
<1> QED  BY <1>2, <1>3, <1>6, <1>7 DEF CauseInv, Working, Wrote

LEMMA CauseInvAlways == Spec => []CauseInv
<1>1. Init => CauseInv
  BY DEF Init, TablesInit, IntakeInit, WorkerInit, CauseInv, SupersessionHasCause, Working, RunExists
<1>2. Inv /\ CauseInv /\ [Next]_vars => CauseInv'
  <2> SUFFICES ASSUME Inv, CauseInv, [Next]_vars PROVE CauseInv'
    OBVIOUS
  <2>1. CASE UNCHANGED vars
    BY <2>1 DEF vars, tableVars, runVars, intakeVars, handlerVars, workerVars, CauseInv,
       SupersessionHasCause, Cause, Wrote, Working, RunExists
  <2> QED  BY <2>1, CauseIntake, CauseWorker, CauseRetry DEF Next
<1> QED  BY <1>1, <1>2, InvAlways, PTL DEF Spec

(* A run is superseded only when a request for another head of the pull    *)
(* request has come by, whichever of the three statements did it and in    *)
(* whatever order deliveries were handled.                                 *)
THEOREM SupersededForCause == Spec => []SupersessionHasCause
<1>1. CauseInv => SupersessionHasCause
  BY DEF CauseInv
<1> QED  BY <1>1, CauseInvAlways, PTL
-----------------------------------------------------------------------------
(* The head that is reviewed in the end.  What InOrder asks of the requests*)
(* that have come so far; a push that has not asked GitHub for the head yet*)
(* may still name an older one.                                            *)
OrderSoFar ==
  \A h \in Handler : hPc[h] \notin {"idle", "resolve"} /\ Kind[h[1]] # "opened"
                       => hHead[h] \in {0, ghHead}
Undisturbed == OrderSoFar /\ enabled /\ Draft = {} /\ dbFaults + crashes = 0

(* Request h stands for the head on GitHub: its run is still to be created *)
(* or is there, has that head, and nobody is about to supersede it.        *)
Stands(h) ==
  /\ hHead[h] = ghHead
  /\ \/ hPc[h] \in {"supersede", "createRun"}
     \/ /\ runStatus[RunOf(h)] \notin {"none", "superseded"}
        /\ runHead[RunOf(h)] = ghHead
        /\ \A w \in Worker : wPc[w] = "verifySupersede" => wRun[w] # RunOf(h)

(* The last request that wrote the row stands for the head it wrote.       *)
HeadInv ==
  /\ prHead <= ghHead
  /\ \A h \in Handler :
       /\ hHead[h] <= ghHead
       /\ hPc[h] = "idle" => hHead[h] = 0
       /\ hPc[h] = "upsertPullRequest" /\ enabled => hEnabled[h]
       /\ hPc[h] = "supersede" => Kind[h[1]] # "opened"
  /\ prHead = ghHead /\ Undisturbed => \E h \in Handler : Stands(h)

(* Without faults, a run that has not ended is on its way: its request is  *)
(* about to add the job, the job waits, or a worker is at it.              *)
OnItsWay(r) ==
  \/ \E h \in Handler : RunOf(h) = r /\ hPc[h] = "enqueue"
  \/ jobState[r] = "waiting"
  \/ \E w \in Worker : wRun[w] = r /\ wPc[w] \notin {"complete", "reject"}
WayInv ==
  /\ \A h \in Handler : hPc[h] = "enqueue" => jobState[RunOf(h)] = "none"
  /\ dbFaults + crashes = 0 =>
       \A g \in Handler : runStatus[RunOf(g)] \in {"queued", "running"} => OnItsWay(RunOf(g))

(* At rest, what stands for the head has ended.                            *)
LEMMA RestedIsReviewed ==
  ASSUME Inv, HeadInv, WayInv
  PROVE  CurrentHeadIsReviewed
<1> SUFFICES ASSUME Quiescent, prHead = ghHead, InOrder, enabled, Draft = {}, dbFaults + crashes = 0
             PROVE  \E r \in RunId : runHead[r] = ghHead /\ runStatus[r] \in {"succeeded", "failed"}
  BY DEF CurrentHeadIsReviewed
<1>1. OrderSoFar
  BY DEF InOrder, OrderSoFar
<1>2. PICK h \in Handler : Stands(h)
  BY <1>1 DEF HeadInv, Undisturbed
<1>3. \A g \in Handler : hPc[g] = "done"
  BY DEF Quiescent, At
<1>4. /\ runStatus[RunOf(h)] \notin {"none", "superseded"} /\ runHead[RunOf(h)] = ghHead
      /\ RunOf(h) \in RunId
  BY <1>2, <1>3, RunOfIsRun DEF Stands
<1>5. ~OnItsWay(RunOf(h))
  <2>1. jobState[RunOf(h)] # "waiting"
    BY <1>4 DEF Quiescent
  <2>2. \A w \in Worker : wRun[w] # RunOf(h)
    BY <1>4, WorkerAssumption DEF Quiescent, Inv, TypeInv, TypeOK, WorkerTypeOK
  <2> QED
    BY <1>3, <2>1, <2>2 DEF OnItsWay
<1>6. runStatus[RunOf(h)] \notin {"queued", "running"}
  BY <1>5 DEF WayInv
<1>7. runStatus[RunOf(h)] \in {"succeeded", "failed"}
  BY <1>4, <1>6 DEF Inv, TypeInv, TypeOK, TablesTypeOK, RunStatus
<1> QED
  BY <1>4, <1>7

(* A step that adds no fault was taken in a state without one.             *)
LEMMA FaultsStay ==
  ASSUME Inv, [Next]_vars, (dbFaults + crashes = 0)'
  PROVE  dbFaults = 0 /\ crashes = 0 /\ UNCHANGED faultVars
<1> USE IntakeAssumption DEF Inv, TypeInv, TypeOK, IntakeTypeOK, faultVars
<1>0. dbFaults \in Nat /\ crashes \in Nat
  OBVIOUS
<1>1. \/ UNCHANGED faultVars
      \/ dbFaults' = dbFaults + 1 /\ UNCHANGED crashes
      \/ crashes' = crashes + 1 /\ UNCHANGED dbFaults
  <2>1. CASE IntakeNext
    BY <2>1 DEF IntakeNext, PushToBranch, DisableRepository, intakeVars, HandlerStep, CreateDelivery,
       ResolvePushPullRequest, UpsertRepository, UpsertPullRequestRow, SupersedeOthers, CreateRun,
       EnqueueRun, MarkDelivery, Verdict, OnlyPc, HandlerFault, HandlerCrash
  <2>2. CASE WorkerNext
    BY <2>2 DEF WorkerNext, WorkerStep, StartRun, VerifyPublishable, VerifySupersede, PublishInline,
       PublishSummary, FinishRun, CompleteReviewJob, FailRun, RejectReviewJob, PipelineFails,
       WorkerFault, WorkerCrash, TakeReviewJob, RecoverStalledJob, FreezePastLock
  <2>3. CASE RetryNext
    BY <2>3 DEF RetryNext, RetryRequest, RetryStep, RetryConflict, RetryTransaction,
       RetryInsertDelivery, RetryInsertRun, RetryInsertRow, RetryEnqueue, RetryFault
  <2>4. CASE UNCHANGED vars
    BY <2>4 DEF vars, intakeVars
  <2> QED
    BY <2>1, <2>2, <2>3, <2>4 DEF Next
<1> QED
  BY <1>0, <1>1

(* Requests, and what they leave of the last one that stands.              *)
LEMMA HeadIntake ==
  ASSUME Inv, DeliveryInv, CauseInv, HeadInv, IntakeNext, UNCHANGED <<workerVars, rPc>>
  PROVE  HeadInv'
<1> USE DEF Inv, TypeInv, TypeOK, IntakeTypeOK, TablesTypeOK, At, Goto, OnlyPc, Head
<1>1. [Next]_vars
  BY DEF Next
<1>2. UNCHANGED <<wPc, wRun>> /\ ghHead \in Nat \ {0}
  BY TablesAssumption DEF workerVars
<1> DEFINE Bounds ==
      /\ prHead' <= ghHead'
      /\ \A h \in Handler :
           /\ hHead'[h] <= ghHead'
           /\ hPc'[h] = "idle" => hHead'[h] = 0
           /\ hPc'[h] = "upsertPullRequest" /\ enabled' => hEnabled'[h]
           /\ hPc'[h] = "supersede" => Kind[h[1]] # "opened"
<1>3. CASE PushToBranch
  <2>1. /\ ghHead' = ghHead + 1
        /\ UNCHANGED <<prHead, enabled, hHead, hPc, hEnabled>>
    BY <1>3 DEF PushToBranch, tableVars, handlerVars
  <2>2. prHead <= ghHead /\ prHead \in Nat /\ \A h \in Handler : hHead[h] <= ghHead /\ hHead[h] \in Nat
    BY TablesAssumption DEF HeadInv
  <2>3. Bounds
    BY <1>2, <2>1, <2>2 DEF HeadInv
  <2>4. prHead' # ghHead'
    BY <1>2, <2>1, <2>2
  <2> QED
    BY <2>3, <2>4 DEF HeadInv
<1>4. CASE DisableRepository
  <2>1. /\ enabled' = FALSE
        /\ UNCHANGED <<prHead, ghHead, hHead, hPc, hEnabled>>
    BY <1>4 DEF DisableRepository, intakeVars, handlerVars
  <2> QED
    BY <2>1 DEF HeadInv, Undisturbed
<1>5. ASSUME NEW h \in Handler, HandlerStep(h) \/ HandlerFault(h) \/ HandlerCrash(h)
      PROVE  HeadInv'
  <2>1. UNCHANGED <<ghHead, enabled>>
    BY <1>5 DEF HandlerStep, CreateDelivery, ResolvePushPullRequest, UpsertRepository,
       UpsertPullRequestRow, SupersedeOthers, CreateRun, EnqueueRun, MarkDelivery, Verdict,
       HandlerFault, HandlerCrash, tableVars
  <2>2. ASSUME (dbFaults + crashes = 0)'
        PROVE  dbFaults + crashes = 0
    BY <1>1, <2>2, FaultsStay DEF faultVars
  <2>3. CASE CreateDelivery(h)
    <3>1. /\ hPc[h] = "idle" /\ EventHead[h[1]] <= ghHead
          /\ hHead' = [hHead EXCEPT ![h] = EventHead[h[1]]]
          /\ UNCHANGED <<prHead, hEnabled, runStatus, runHead>>
          /\ \E pc \in {"done", "markIgnored", "resolve", "upsertRepository"} :
               hPc' = [hPc EXCEPT ![h] = pc]
      <4>1. hPc[h] = "idle" /\ EventHead[h[1]] <= ghHead
        BY <2>3 DEF CreateDelivery, Arrives
      <4>2. /\ hHead' = [hHead EXCEPT ![h] = EventHead[h[1]]]
            /\ UNCHANGED <<prHead, hEnabled, runStatus, runHead>>
        BY <2>3 DEF CreateDelivery, runVars
      <4>3. \E pc \in {"done", "markIgnored", "resolve", "upsertRepository"} :
               hPc' = [hPc EXCEPT ![h] = pc]
        BY <2>3 DEF CreateDelivery
      <4> QED BY <4>1, <4>2, <4>3
    <3>2. \A g \in Handler : g # h => hPc'[g] = hPc[g] /\ hHead'[g] = hHead[g]
      BY <3>1
    <3>3. hPc'[h] \in {"done", "markIgnored", "resolve", "upsertRepository"} /\ hHead'[h] <= ghHead
      BY <3>1
    <3>4. Bounds
      BY <2>1, <3>1, <3>2, <3>3 DEF HeadInv
    <3>5. OrderSoFar' => OrderSoFar
      BY <2>1, <3>1, <3>2 DEF OrderSoFar
    <3>6. ASSUME NEW g \in Handler, Stands(g)
          PROVE  Stands(g)'
      <4>1. g # h
        BY <1>2, <3>1, <3>6 DEF HeadInv, Stands
      <4> QED
        BY <1>2, <2>1, <3>1, <3>2, <3>6, <4>1 DEF Stands, RunOf
    <3> QED
      BY <2>1, <2>2, <3>1, <3>4, <3>5, <3>6 DEF HeadInv, Undisturbed
  <2>4. CASE ResolvePushPullRequest(h)
    <3>1. /\ hPc[h] = "resolve"
          /\ UNCHANGED hHead \/ hHead' = [hHead EXCEPT ![h] = ghHead]
          /\ UNCHANGED <<prHead, hEnabled, runStatus, runHead>>
          /\ \E pc \in {"markIgnored", "upsertRepository"} : hPc' = [hPc EXCEPT ![h] = pc]
      BY <2>4 DEF ResolvePushPullRequest, tableVars, runVars
    <3>2. /\ \A g \in Handler : g # h => hPc'[g] = hPc[g] /\ hHead'[g] = hHead[g]
          /\ hHead'[h] \in {hHead[h], ghHead} /\ hPc'[h] \in {"markIgnored", "upsertRepository"}
      BY <3>1
    <3>3. Bounds
      BY <1>2, <2>1, <3>1, <3>2 DEF HeadInv
    <3>4. OrderSoFar' => OrderSoFar
      BY <2>1, <3>1, <3>2 DEF OrderSoFar
    <3>5. ASSUME NEW g \in Handler, Stands(g)
          PROVE  Stands(g)'
      BY <1>2, <2>1, <3>1, <3>2, <3>5 DEF Stands, RunOf
    <3> QED
      BY <2>1, <2>2, <3>1, <3>3, <3>4, <3>5 DEF HeadInv, Undisturbed
  <2>5. CASE UpsertPullRequestRow(h)
    <3>1. /\ hPc[h] = "upsertPullRequest" /\ prHead' = hHead[h]
          /\ UNCHANGED <<hHead, hEnabled, runStatus, runHead>>
          /\ hPc' = [hPc EXCEPT ![h] = AfterUpsert(h)]
      BY <2>5 DEF UpsertPullRequestRow, UpsertPullRequest, runVars
    <3>2. /\ \A g \in Handler : g # h => hPc'[g] = hPc[g]
          /\ hPc'[h] = AfterUpsert(h)
      BY <3>1
    <3>3. /\ AfterUpsert(h) \in {"markIgnored", "supersede", "createRun"}
          /\ AfterUpsert(h) = "supersede" => Kind[h[1]] # "opened"
          /\ hEnabled[h] /\ Draft = {} => AfterUpsert(h) \in {"supersede", "createRun"}
      BY DEF AfterUpsert
    <3>4. Bounds
      BY <2>1, <3>1, <3>2, <3>3 DEF HeadInv
    <3>5. ASSUME prHead' = ghHead', Undisturbed'
          PROVE  Stands(h)'
      <4>1. hHead'[h] = ghHead' /\ hEnabled[h] /\ Draft = {}
        BY <2>1, <3>1, <3>5 DEF Undisturbed, HeadInv
      <4> QED
        BY <3>2, <3>3, <4>1 DEF Stands
    <3> QED
      BY <3>4, <3>5 DEF HeadInv
  <2>6. CASE SupersedeOthers(h)
    <3>1. /\ hPc[h] = "supersede" /\ UNCHANGED <<prHead, hHead, hEnabled, runHead>>
          /\ hPc' = [hPc EXCEPT ![h] = "createRun"]
          /\ \A r \in RunId : runHead[r] = hHead[h] => runStatus'[r] = runStatus[r]
      BY <2>6 DEF SupersedeOthers, SupersedeQueuedOrRunningReviewRuns, SupersededBy
    <3>2. \A g \in Handler : g # h => hPc'[g] = hPc[g]
      BY <3>1
    <3>3. hPc'[h] = "createRun"
      BY <3>1
    <3>4. Bounds
      BY <2>1, <3>1, <3>2, <3>3 DEF HeadInv
    <3>5. OrderSoFar' => OrderSoFar /\ hHead[h] = ghHead
      <4>1. hHead[h] # 0 /\ Kind[h[1]] # "opened"
        BY <3>1 DEF CauseInv, Working, HeadInv
      <4> QED
        BY <2>1, <3>1, <3>2, <3>3, <4>1 DEF OrderSoFar
    <3>6. ASSUME NEW g \in Handler, Stands(g), hHead[h] = ghHead
          PROVE  Stands(g)'
      <4>1. runHead[RunOf(g)] = ghHead => runStatus'[RunOf(g)] = runStatus[RunOf(g)]
        BY <3>1, <3>6, RunOfIsRun
      <4> QED
        BY <1>2, <2>1, <3>1, <3>2, <3>3, <3>6, <4>1 DEF Stands, RunOf
    <3> QED
      BY <2>1, <2>2, <3>1, <3>4, <3>5, <3>6 DEF HeadInv, Undisturbed
  <2>7. CASE CreateRun(h)
    <3>1. /\ hPc[h] = "createRun" /\ UNCHANGED <<prHead, hHead, hEnabled>>
          /\ ~RunExists(RunOf(h))
          /\ hPc' = [hPc EXCEPT ![h] = "enqueue"]
          /\ runStatus' = [runStatus EXCEPT ![RunOf(h)] = "queued"]
          /\ runHead' = [runHead EXCEPT ![RunOf(h)] = hHead[h]]
      BY <2>7 DEF CreateRun, CreateReviewRun, DeliveryInv, Early, Untouched
    <3>2. /\ \A g \in Handler : g # h => hPc'[g] = hPc[g]
          /\ hPc'[h] = "enqueue"
          /\ runStatus'[RunOf(h)] = "queued" /\ runHead'[RunOf(h)] = hHead[h]
          /\ \A r \in RunId : r # RunOf(h) => runStatus'[r] = runStatus[r] /\ runHead'[r] = runHead[r]
      BY <3>1, RunOfIsRun
    <3>3. Bounds
      BY <2>1, <3>1, <3>2 DEF HeadInv
    <3>4. OrderSoFar' => OrderSoFar
      BY <2>1, <3>1, <3>2 DEF OrderSoFar
    <3>5. \A w \in Worker : wRun[w] # RunOf(h)
      BY <3>1, RunOfIsRun, WorkerAssumption DEF ExistInv, RunExists
    <3>6. ASSUME NEW g \in Handler, Stands(g)
          PROVE  Stands(g)'
      <4>1. CASE g = h
        <5>1. RunOf(h)' = RunOf(h)
          BY DEF RunOf
        <5> QED
          BY <1>2, <2>1, <3>1, <3>2, <3>5, <3>6, <4>1, <5>1 DEF Stands
      <4>2. CASE g # h /\ hPc[g] \in {"supersede", "createRun"}
        BY <2>1, <3>1, <3>2, <3>6, <4>2 DEF Stands
      <4>3. CASE hPc[g] \notin {"supersede", "createRun"}
        <5>1. RunOf(g) # RunOf(h) /\ RunOf(g) \in RunId
          BY <3>1, <3>6, <4>3, RunOfIsRun DEF Stands, RunExists
        <5>2. RunOf(g)' = RunOf(g)
          BY DEF RunOf
        <5> QED
          BY <1>2, <2>1, <3>1, <3>2, <3>6, <4>3, <5>1, <5>2 DEF Stands
      <4> QED
        BY <4>1, <4>2, <4>3
    <3> QED
      BY <2>1, <2>2, <3>1, <3>3, <3>4, <3>6 DEF HeadInv, Undisturbed
  <2>8. CASE UpsertRepository(h) \/ EnqueueRun(h) \/ MarkDelivery(h) \/ HandlerFault(h) \/ HandlerCrash(h)
    <3>1. UNCHANGED <<prHead, hHead, runStatus, runHead>>
      BY <2>8 DEF UpsertRepository, EnqueueRun, MarkDelivery, Verdict, HandlerFault, HandlerCrash,
         tableVars, runVars
    <3>2. \/ /\ \E pc \in {"markProcessed", "done", "markFailed"} : hPc' = [hPc EXCEPT ![h] = pc]
             /\ UNCHANGED hEnabled
          \/ /\ hPc' = [hPc EXCEPT ![h] = "upsertPullRequest"]
             /\ hEnabled' = [hEnabled EXCEPT ![h] = enabled]
      <4>1. CASE HandlerFault(h)
        BY <4>1 DEF HandlerFault
      <4>2. CASE MarkDelivery(h) \/ HandlerCrash(h)
        BY <4>2 DEF MarkDelivery, Verdict, HandlerCrash
      <4>3. CASE UpsertRepository(h) \/ EnqueueRun(h)
        BY <4>3 DEF UpsertRepository, EnqueueRun
      <4> QED BY <2>8, <4>1, <4>2, <4>3
    <3>3. /\ \A g \in Handler : g # h => hPc'[g] = hPc[g] /\ hEnabled'[g] = hEnabled[g]
          /\ hPc'[h] \in {"markProcessed", "done", "markFailed", "upsertPullRequest"}
          /\ hPc'[h] = "upsertPullRequest" => hEnabled'[h] = enabled
      BY <3>2
    <3>4. Bounds
      BY <2>1, <3>1, <3>3 DEF HeadInv
    <3>5. ASSUME (dbFaults + crashes = 0)'
          PROVE  hPc[h] \in {"upsertRepository", "enqueue", "markProcessed", "markIgnored", "markFailed"}
      <4>1. ~HandlerFault(h) /\ ~HandlerCrash(h)
        <5>1. dbFaults = 0 /\ crashes = 0 /\ dbFaults' = dbFaults /\ crashes' = crashes
          BY <1>1, <3>5, FaultsStay DEF faultVars
        <5> QED
          BY <5>1 DEF HandlerFault, HandlerCrash
      <4> QED
        BY <2>8, <4>1 DEF UpsertRepository, EnqueueRun, MarkDelivery, Verdict
    <3>6. OrderSoFar' /\ (dbFaults + crashes = 0)' => OrderSoFar
      BY <2>1, <3>1, <3>3, <3>5 DEF OrderSoFar
    <3>7. ASSUME NEW g \in Handler, Stands(g), (dbFaults + crashes = 0)'
          PROVE  Stands(g)'
      <4>1. hPc[g] \in {"supersede", "createRun"} => hPc'[g] = hPc[g]
        BY <3>3, <3>5, <3>7
      <4> QED
        BY <1>2, <2>1, <3>1, <3>7, <4>1 DEF Stands, RunOf
    <3> QED
      BY <2>1, <2>2, <3>1, <3>4, <3>6, <3>7 DEF HeadInv, Undisturbed
  <2> QED
    BY <1>5, <2>3, <2>4, <2>5, <2>6, <2>7, <2>8 DEF HandlerStep
<1> QED
  BY <1>3, <1>4, <1>5 DEF IntakeNext

(* A step that keeps the requests and the row, and of what stands.         *)
LEMMA HeadKeptBy ==
  ASSUME Inv, HeadInv, UNCHANGED <<prHead, ghHead, enabled, handlerVars>>,
         (dbFaults + crashes = 0)' => dbFaults + crashes = 0,
         ASSUME NEW h \in Handler, Stands(h), prHead = ghHead, (dbFaults + crashes = 0)'
         PROVE  Stands(h)'
  PROVE  HeadInv'
<1>1. OrderSoFar' => OrderSoFar
  BY DEF OrderSoFar, handlerVars
<1>2. (prHead = ghHead /\ Undisturbed)' => prHead = ghHead /\ Undisturbed /\ (dbFaults + crashes = 0)'
  BY <1>1 DEF Undisturbed
<1>3. (prHead = ghHead /\ Undisturbed)' => \E h \in Handler : Stands(h)'
  BY <1>2 DEF HeadInv
<1> QED
  BY <1>3 DEF HeadInv, handlerVars

(* Workers supersede nothing that stands: what they read of its run is the *)
(* head the row shows.                                                     *)
LEMMA HeadWorker ==
  ASSUME Inv, HeadInv, WorkerNext, UNCHANGED rPc
  PROVE  HeadInv'
<1>1. [Next]_vars
  BY DEF Next
<1>2. UNCHANGED <<prHead, ghHead, enabled, handlerVars, runHead>>
  <2>1. UNCHANGED <<prHead, ghHead, enabled, handlerVars>>
    BY DEF WorkerNext, WorkerStep, StartRun, VerifyPublishable, VerifySupersede, PublishInline,
       PublishSummary, FinishRun, CompleteReviewJob, FailRun, RejectReviewJob, PipelineFails,
       WorkerFault, WorkerCrash, TakeReviewJob, RecoverStalledJob, FreezePastLock, NoIntake,
       tableVars
  <2> QED  BY <2>1, WorkerRuns
<1>3. (dbFaults + crashes = 0)' => dbFaults + crashes = 0
  BY <1>1, FaultsStay
<1> USE DEF Inv, TypeInv, TypeOK, TablesTypeOK, WorkerTypeOK, Move, tableVars, runVars
<1>4. ASSUME NEW h \in Handler, Stands(h), prHead = ghHead
      PROVE  Stands(h)'
  <2> DEFINE r == RunOf(h)
  <2>0. r \in RunId /\ RunOf(h)' = r
    BY RunOfIsRun DEF RunOf
  <2>1. ASSUME runStatus[r] \notin {"none", "superseded"} /\ runHead[r] = ghHead
               /\ (\A w \in Worker : wPc[w] = "verifySupersede" => wRun[w] # r)
        PROVE  /\ runStatus'[r] \notin {"none", "superseded"}
               /\ \A w \in Worker : wPc'[w] = "verifySupersede" => wRun'[w] # r
    <3> HIDE DEF r
    <3>1. ASSUME NEW w \in Worker, VerifyPublishable(w)
          PROVE  /\ UNCHANGED <<runStatus, wRun>>
                 /\ \A v \in Worker : wPc'[v] = "verifySupersede" => wRun'[v] # r
      <4>1. /\ UNCHANGED <<runStatus, wRun>>
            /\ wPc'[w] = "verifySupersede" => runHead[wRun[w]] # prHead
            /\ \A v \in Worker : v # w => wPc'[v] = wPc[v]
        BY <3>1 DEF VerifyPublishable
      <4> QED
        BY <1>4, <2>1, <4>1
    <3>2. ASSUME NEW w \in Worker, VerifySupersede(w)
          PROVE  /\ UNCHANGED wRun /\ runStatus'[r] = runStatus[r]
                 /\ \A v \in Worker : wPc'[v] = "verifySupersede" => wPc[v] = "verifySupersede"
      BY <2>0, <2>1, <3>2 DEF VerifySupersede, SupersedeRun
    <3>3. ASSUME NEW w \in Worker, \/ StartRun(w) \/ PublishInline(w) \/ PublishSummary(w) \/ FinishRun(w)
             \/ CompleteReviewJob(w) \/ FailRun(w) \/ RejectReviewJob(w) \/ PipelineFails(w)
             \/ WorkerFault(w) \/ WorkerCrash(w)
          PROVE  /\ \A v \in Worker : wPc'[v] = "verifySupersede" =>
                                        wPc[v] = "verifySupersede" /\ wRun'[v] = wRun[v]
                 /\ runStatus'[r] \notin {"none", "superseded"}
      BY <2>0, <2>1, <3>3 DEF StartRun, MarkRunning, UpdateStatus, PublishInline, PublishSummary, FinishRun,
         MarkSucceeded, CompleteReviewJob, FailRun, MarkFailed, RejectReviewJob, PipelineFails,
         WorkerFault, WorkerCrash, Free
    <3>4. ASSUME NEW q \in RunId, \/ RecoverStalledJob(q) \/ FreezePastLock(q)
                                  \/ \E w \in Worker : TakeReviewJob(w, q)
          PROVE  /\ UNCHANGED runStatus
                 /\ \A v \in Worker : wPc'[v] = "verifySupersede" =>
                                       wPc[v] = "verifySupersede" /\ wRun'[v] = wRun[v]
      BY <3>4 DEF RecoverStalledJob, FreezePastLock, TakeReviewJob, workerVars
    <3> QED
      BY <2>1, <3>1, <3>2, <3>3, <3>4 DEF WorkerNext, WorkerStep
  <2> QED
    BY <1>2, <1>4, <2>0, <2>1 DEF Stands, handlerVars
<1> QED
  BY <1>2, <1>3, <1>4, HeadKeptBy

(* A retry creates a run of its own.                                       *)
LEMMA HeadRetry ==
  ASSUME Inv, HeadInv, RetryNext
  PROVE  HeadInv'
<1>1. [Next]_vars
  BY DEF Next
<1>2. UNCHANGED <<prHead, ghHead, enabled, handlerVars, wPc, wRun>>
  BY DEF RetryNext, RetryRequest, RetryStep, RetryConflict, RetryTransaction, RetryInsertDelivery,
     RetryInsertRun, RetryInsertRow, RetryEnqueue, RetryFault, NoWork, tableVars, workerVars
<1>3. (dbFaults + crashes = 0)' => dbFaults + crashes = 0
  BY <1>1, FaultsStay
<1>4. \A h \in Handler : /\ runStatus'[RunOf(h)] = runStatus[RunOf(h)]
                         /\ runHead'[RunOf(h)] = runHead[RunOf(h)]
  <2>1. PICK q \in RunId : RetryRequest(q) \/ RetryStep(q) \/ RetryFault(q)
    BY DEF RetryNext
  <2>2. UNCHANGED runVars \/ CreateReviewRun(RetryOf(q), runHead[q])
    BY <2>1 DEF RetryRequest, RetryStep, RetryConflict, RetryTransaction, RetryInsertDelivery,
       RetryInsertRun, RetryInsertRow, RetryEnqueue, RetryFault, tableVars
  <2> QED
    BY <2>2, RetryNotOriginal, RunOfIsRun
       DEF CreateReviewRun, runVars, Inv, TypeInv, TypeOK, TablesTypeOK
<1>5. ASSUME NEW h \in Handler, Stands(h) PROVE Stands(h)'
  BY <1>2, <1>4, <1>5 DEF Stands, RunOf, handlerVars
<1> QED
  BY <1>2, <1>3, <1>5, HeadKeptBy

(* Requests: one that adds the job takes its run from "about to be added"  *)
(* to "waiting".                                                           *)
LEMMA WayIntake ==
  ASSUME Inv, DeliveryInv, WayInv, IntakeNext, UNCHANGED <<workerVars, rPc>>
  PROVE  WayInv'
<1> USE DEF Inv, TypeInv, TypeOK, IntakeTypeOK, TablesTypeOK, QueueTypeOK, At, Goto, OnlyPc
<1>1. [Next]_vars
  BY DEF Next
<1>2. UNCHANGED <<wPc, wRun>> /\ \A g \in Handler : RunOf(g) \in RunId /\ RunOf(g)' = RunOf(g)
  BY RunOfIsRun DEF workerVars, RunOf
<1>3. (dbFaults + crashes = 0)' => dbFaults + crashes = 0 /\ UNCHANGED faultVars
  BY <1>1, FaultsStay
<1>4. ASSUME UNCHANGED jobState,
             \A g \in Handler : hPc'[g] = "enqueue" => hPc[g] = "enqueue",
             (dbFaults + crashes = 0)' => \A g \in Handler : hPc[g] = "enqueue" => hPc'[g] = "enqueue",
             \A g \in Handler : runStatus'[RunOf(g)] \in {"queued", "running"} =>
               runStatus[RunOf(g)] \in {"queued", "running"}
      PROVE  WayInv'
  BY <1>2, <1>3, <1>4 DEF WayInv, OnItsWay
<1>5. CASE PushToBranch \/ DisableRepository
  BY <1>4, <1>5 DEF PushToBranch, DisableRepository, tableVars, runVars, queueVars, handlerVars, intakeVars
<1>6. ASSUME NEW h \in Handler, HandlerStep(h) \/ HandlerFault(h) \/ HandlerCrash(h)
      PROVE  WayInv'
  <2>1. CASE CreateRun(h)
    <3>1. /\ hPc[h] = "createRun" /\ jobState[RunOf(h)] = "none" /\ UNCHANGED jobState
          /\ hPc' = [hPc EXCEPT ![h] = "enqueue"]
          /\ runStatus' = [runStatus EXCEPT ![RunOf(h)] = "queued"]
      BY <2>1 DEF CreateRun, CreateReviewRun, DeliveryInv, Early, Untouched, queueVars
    <3>2. /\ \A g \in Handler : g # h => hPc'[g] = hPc[g]
          /\ hPc'[h] = "enqueue"
          /\ \A r \in RunId : r # RunOf(h) => runStatus'[r] = runStatus[r]
      BY <1>2, <3>1
    <3>3. \A g \in Handler : hPc'[g] = "enqueue" => jobState'[RunOf(g)] = "none"
      BY <3>1, <3>2 DEF WayInv
    <3>4. ASSUME (dbFaults + crashes = 0)', NEW g \in Handler,
                 runStatus'[RunOf(g)] \in {"queued", "running"}
          PROVE  OnItsWay(RunOf(g))'
      <4>1. CASE RunOf(g) = RunOf(h)
        BY <1>2, <3>2, <4>1 DEF OnItsWay
      <4>2. CASE RunOf(g) # RunOf(h)
        <5>1. OnItsWay(RunOf(g))
          BY <1>2, <1>3, <3>2, <3>4, <4>2 DEF WayInv
        <5> QED
          BY <1>2, <3>1, <3>2, <5>1 DEF OnItsWay
      <4> QED
        BY <4>1, <4>2
    <3>5. \A g \in Handler : hPc'[g] = "enqueue" => jobState'[RunOf(g)'] = "none"
      BY <1>2, <3>3
    <3> QED
      BY <1>2, <3>4, <3>5 DEF WayInv
  <2>2. CASE EnqueueRun(h)
    <3>1. /\ hPc[h] = "enqueue" /\ UNCHANGED runStatus
          /\ hPc' = [hPc EXCEPT ![h] = "markProcessed"]
          /\ jobState' = [jobState EXCEPT ![RunOf(h)] = "waiting"]
      BY <2>2 DEF EnqueueRun, EnqueuePullRequestReview, WayInv, tableVars, runVars
    <3>2. /\ \A g \in Handler : g # h => hPc'[g] = hPc[g]
          /\ hPc'[h] = "markProcessed"
          /\ \A r \in RunId : r # RunOf(h) => jobState'[r] = jobState[r]
          /\ jobState'[RunOf(h)] = "waiting"
      BY <1>2, <3>1
    <3>3. \A g \in Handler : hPc'[g] = "enqueue" => RunOf(g) # RunOf(h)
      <4> SUFFICES ASSUME NEW g \in Handler, hPc'[g] = "enqueue", RunOf(g) = RunOf(h) PROVE FALSE
        OBVIOUS
      <4>1. g # h /\ hPc[g] = "enqueue"
        BY <3>2
      <4>2. g[1] = h[1]
        BY OriginalRuns
      <4> QED
        BY <3>1, <4>1, <4>2 DEF DeliveryInv, Working
    <3>4. \A g \in Handler : hPc'[g] = "enqueue" => jobState'[RunOf(g)'] = "none"
      BY <1>2, <3>2, <3>3 DEF WayInv
    <3>5. ASSUME (dbFaults + crashes = 0)', NEW g \in Handler,
                 runStatus'[RunOf(g)] \in {"queued", "running"}
          PROVE  OnItsWay(RunOf(g))'
      <4>1. CASE RunOf(g) = RunOf(h)
        BY <1>2, <3>2, <4>1 DEF OnItsWay
      <4>2. CASE RunOf(g) # RunOf(h)
        <5>1. OnItsWay(RunOf(g))
          BY <1>3, <3>1, <3>5 DEF WayInv
        <5> QED
          BY <1>2, <3>2, <4>2, <5>1 DEF OnItsWay
      <4> QED
        BY <4>1, <4>2
    <3> QED
      BY <1>2, <3>4, <3>5 DEF WayInv
  <2>3. CASE HandlerFault(h) \/ HandlerCrash(h)
    <3>1. /\ UNCHANGED <<jobState, runStatus>>
          /\ \E pc \in {"markFailed", "done"} : hPc' = [hPc EXCEPT ![h] = pc]
      BY <2>3 DEF HandlerFault, HandlerCrash, tableVars, runVars, queueVars
    <3>2. \A g \in Handler : hPc'[g] = "enqueue" => hPc[g] = "enqueue"
      BY <3>1
    <3>3. ~(dbFaults + crashes = 0)'
      <4> SUFFICES ASSUME (dbFaults + crashes = 0)' PROVE FALSE
        OBVIOUS
      <4>1. dbFaults = 0 /\ crashes = 0 /\ dbFaults' = dbFaults /\ crashes' = crashes
        BY <1>1, FaultsStay DEF faultVars
      <4> QED
        BY <2>3, <4>1 DEF HandlerFault, HandlerCrash
    <3> QED
      BY <1>4, <3>1, <3>2, <3>3
  <2>4. CASE \/ CreateDelivery(h) \/ ResolvePushPullRequest(h) \/ UpsertRepository(h)
             \/ UpsertPullRequestRow(h) \/ MarkDelivery(h) \/ SupersedeOthers(h)
    <3>1. UNCHANGED jobState
      BY <2>4 DEF CreateDelivery, ResolvePushPullRequest, UpsertRepository, UpsertPullRequestRow,
         MarkDelivery, Verdict, SupersedeOthers, queueVars
    <3>2. /\ hPc[h] # "enqueue"
          /\ \E pc \in HandlerPc \ {"enqueue"} : hPc' = [hPc EXCEPT ![h] = pc]
      BY <2>4 DEF CreateDelivery, Arrives, ResolvePushPullRequest, UpsertRepository,
         UpsertPullRequestRow, AfterUpsert, MarkDelivery, Verdict, SupersedeOthers, HandlerPc
    <3>3. \A g \in Handler : hPc'[g] = "enqueue" <=> hPc[g] = "enqueue"
      BY <3>2
    <3>4. \A r \in RunId : runStatus'[r] \in {"queued", "running"} => runStatus[r] \in {"queued", "running"}
      BY <2>4 DEF CreateDelivery, ResolvePushPullRequest, UpsertRepository, UpsertPullRequestRow,
         MarkDelivery, Verdict, SupersedeOthers, SupersedeQueuedOrRunningReviewRuns, tableVars, runVars
    <3> QED
      BY <1>2, <1>4, <3>1, <3>3, <3>4
  <2> QED
    BY <1>6, <2>1, <2>2, <2>3, <2>4 DEF HandlerStep
<1> QED
  BY <1>5, <1>6 DEF IntakeNext

(* A step of a worker keeps a run on its way until it writes its end.      *)
LEMMA WayWorker ==
  ASSUME Inv, WayInv, WorkerNext, UNCHANGED rPc
  PROVE  WayInv'
<1>1. [Next]_vars
  BY DEF Next
<1>2. /\ UNCHANGED hPc
      /\ \A g \in Handler : RunOf(g) \in RunId /\ RunOf(g)' = RunOf(g)
      /\ \A r \in RunId : jobState'[r] = "none" <=> jobState[r] = "none"
  BY WorkerRuns, RunOfIsRun DEF RunOf
<1>3. (dbFaults + crashes = 0)' => dbFaults + crashes = 0 /\ UNCHANGED faultVars
  BY <1>1, FaultsStay
<1>4. \A g \in Handler : hPc'[g] = "enqueue" => jobState'[RunOf(g)'] = "none"
  BY <1>2 DEF WayInv
<1> USE DEF Inv, TypeInv, TypeOK, IntakeTypeOK, TablesTypeOK, QueueTypeOK, WorkerTypeOK, QueueInv,
        Move, tableVars, runVars, queueVars
<1>5. ASSUME (dbFaults + crashes = 0)', NEW r \in RunId,
             runStatus[r] \in {"queued", "running"} => OnItsWay(r),
             runStatus'[r] \in {"queued", "running"}
      PROVE  OnItsWay(r)'
  <2>0. dbFaults = 0 /\ crashes = 0 /\ dbFaults' = dbFaults /\ crashes' = crashes
    BY <1>1, <1>5, FaultsStay DEF faultVars
  <2>1. ASSUME \A v \in Worker : wRun[v] = r /\ wPc[v] \notin {"complete", "reject"} =>
                                   wRun'[v] = r /\ wPc'[v] \notin {"complete", "reject"},
               jobState[r] = "waiting" => jobState'[r] = "waiting",
               runStatus[r] \in {"queued", "running"}
        PROVE  OnItsWay(r)'
    <3>1. OnItsWay(r)
      BY <1>5, <2>1
    <3> QED
      BY <1>2, <2>1, <3>1 DEF OnItsWay
  <2>2. ASSUME NEW w \in Worker, StartRun(w)
        PROVE  OnItsWay(r)'
    <3>1. /\ UNCHANGED <<wRun, jobState>> /\ wPc' = [wPc EXCEPT ![w] = "verify"]
          /\ wRun[w] # r => runStatus'[r] = runStatus[r]
      BY <2>2 DEF StartRun, MarkRunning, UpdateStatus
    <3>2. CASE wRun[w] = r
      BY <3>1, <3>2 DEF OnItsWay
    <3> QED
      BY <1>5, <2>1, <3>1, <3>2
  <2>3. ASSUME NEW w \in Worker, FinishRun(w) \/ FailRun(w)
        PROVE  OnItsWay(r)'
    <3>1. /\ UNCHANGED <<wRun, jobState>>
          /\ \A v \in Worker : v # w => wPc'[v] = wPc[v]
          /\ wRun[w] # r /\ runStatus'[r] = runStatus[r]
      BY <1>5, <2>3 DEF FinishRun, FailRun, MarkSucceeded, MarkFailed, UpdateStatus
    <3> QED
      BY <1>5, <2>1, <3>1
  <2>4. ASSUME NEW w \in Worker, \/ VerifyPublishable(w) \/ VerifySupersede(w) \/ PublishInline(w)
                                 \/ PublishSummary(w) \/ PipelineFails(w)
        PROVE  OnItsWay(r)'
    <3>1. /\ UNCHANGED <<wRun, jobState>>
          /\ \A v \in Worker : wPc'[v] \in {"complete", "reject"} => wPc[v] \in {"complete", "reject"}
      BY <2>4 DEF VerifyPublishable, VerifySupersede, PublishInline, PublishSummary, PipelineFails
    <3>2. runStatus'[r] = runStatus[r]
      BY <1>5, <2>4 DEF VerifyPublishable, VerifySupersede, SupersedeRun, PublishInline, PublishSummary,
         PipelineFails
    <3> QED
      BY <1>5, <2>1, <3>1, <3>2
  <2>5. ASSUME NEW w \in Worker, CompleteReviewJob(w) \/ RejectReviewJob(w)
        PROVE  OnItsWay(r)'
    <3>1. /\ wPc[w] \in {"complete", "reject"} /\ UNCHANGED runStatus
          /\ \A v \in Worker : v # w => wPc'[v] = wPc[v] /\ wRun'[v] = wRun[v]
          /\ CompleteJob(w, wRun[w]) \/ RejectJob(w, wRun[w])
      BY <2>5 DEF CompleteReviewJob, RejectReviewJob, Free
    <3>2. wRun[w] \in RunId
      BY <3>1
    <3>3. jobState[r] = "waiting" => jobState'[r] = "waiting"
      <4>1. lock[wRun[w]] = w => jobState[wRun[w]] = "active"
        BY <3>2, QueueAssumption
      <4> QED
        BY <3>1, <3>2, <4>1 DEF CompleteJob, RejectJob
    <3> QED
      BY <1>5, <2>1, <3>1, <3>3
  <2>6. ASSUME NEW w \in Worker, WorkerFault(w) \/ WorkerCrash(w)
        PROVE  FALSE
    BY <2>0, <2>6 DEF WorkerFault, WorkerCrash
  <2>7. ASSUME NEW w \in Worker, NEW q \in RunId, TakeReviewJob(w, q)
        PROVE  OnItsWay(r)'
    <3>1. /\ wPc[w] = "idle" /\ UNCHANGED runStatus
          /\ wPc' = [wPc EXCEPT ![w] = "markRunning"] /\ wRun' = [wRun EXCEPT ![w] = q]
          /\ jobState' = [jobState EXCEPT ![q] = "active"]
      BY <2>7 DEF TakeReviewJob, TakeJob
    <3>2. CASE r = q
      BY <3>1, <3>2 DEF OnItsWay
    <3>3. CASE r # q
      <4>1. wRun[w] # r
        BY <3>1, WorkerAssumption
      <4> QED
        BY <1>5, <2>1, <3>1, <3>3, <4>1
    <3> QED
      BY <3>2, <3>3
  <2>8. ASSUME NEW q \in RunId, RecoverStalledJob(q) \/ FreezePastLock(q)
        PROVE  OnItsWay(r)'
    <3>1. /\ UNCHANGED <<runStatus, wPc, wRun>>
          /\ jobState[r] = "waiting" => jobState'[r] = "waiting"
      BY <2>8 DEF RecoverStalledJob, FreezePastLock, StallJob, workerVars
    <3> QED
      BY <1>5, <2>1, <3>1
  <2> QED
    BY <2>2, <2>3, <2>4, <2>5, <2>6, <2>7, <2>8 DEF WorkerNext, WorkerStep
<1>6. \A g \in Handler : (dbFaults + crashes = 0)' /\ runStatus'[RunOf(g)] \in {"queued", "running"} =>
        OnItsWay(RunOf(g))'
  BY <1>2, <1>3, <1>5 DEF WayInv
<1> QED
  BY <1>2, <1>4, <1>6 DEF WayInv

(* A retry touches neither the run nor the job of a delivery.              *)
LEMMA WayRetry ==
  ASSUME Inv, WayInv, RetryNext
  PROVE  WayInv'
<1>1. [Next]_vars
  BY DEF Next
<1>2. UNCHANGED <<hPc, wPc, wRun>>
  BY DEF RetryNext, RetryRequest, RetryStep, RetryConflict, RetryTransaction, RetryInsertDelivery,
     RetryInsertRun, RetryInsertRow, RetryEnqueue, RetryFault, NoWork, handlerVars, workerVars
<1>3. (dbFaults + crashes = 0)' => dbFaults + crashes = 0
  BY <1>1, FaultsStay
<1>4. \A h \in Handler : /\ runStatus'[RunOf(h)] = runStatus[RunOf(h)]
                         /\ jobState'[RunOf(h)] = jobState[RunOf(h)]
                         /\ RunOf(h)' = RunOf(h)
  <2>1. PICK q \in RunId : RetryRequest(q) \/ RetryStep(q) \/ RetryFault(q)
    BY DEF RetryNext
  <2>2. UNCHANGED runVars \/ CreateReviewRun(RetryOf(q), runHead[q])
    BY <2>1 DEF RetryRequest, RetryStep, RetryConflict, RetryTransaction, RetryInsertDelivery,
       RetryInsertRun, RetryInsertRow, RetryEnqueue, RetryFault, tableVars
  <2>3. UNCHANGED queueVars \/ EnqueuePullRequestReview(RetryOf(q))
    BY <2>1 DEF RetryRequest, RetryStep, RetryConflict, RetryTransaction, RetryInsertDelivery,
       RetryInsertRun, RetryInsertRow, RetryEnqueue, RetryFault
  <2> QED
    BY <2>2, <2>3, RetryNotOriginal, RunOfIsRun
       DEF CreateReviewRun, EnqueuePullRequestReview, runVars, queueVars, Inv, TypeInv, TypeOK,
           TablesTypeOK, QueueTypeOK, RunOf
<1> QED
  BY <1>2, <1>3, <1>4 DEF WayInv, OnItsWay

(* When everything has been handled in order and nothing failed, a run for *)
(* the head on GitHub was carried through, for any number of deliveries,   *)
(* repeated requests, workers, attempts and retries: the handlers and the  *)
(* publish check never supersede all of them between themselves.           *)
THEOREM HeadIsReviewed == Spec => []CurrentHeadIsReviewed
<1>1. Init => HeadInv /\ WayInv
  <2> SUFFICES ASSUME Init PROVE HeadInv /\ WayInv
    OBVIOUS
  <2> QED
    BY RunOfIsRun DEF Init, TablesInit, QueueInit, IntakeInit, WorkerInit, HeadInv, WayInv
<1>2. Inv /\ DeliveryInv /\ CauseInv /\ HeadInv /\ WayInv /\ [Next]_vars => HeadInv' /\ WayInv'
  <2> SUFFICES ASSUME Inv, DeliveryInv, CauseInv, HeadInv, WayInv, [Next]_vars
               PROVE  HeadInv' /\ WayInv'
    OBVIOUS
  <2>1. CASE UNCHANGED vars
    BY <2>1 DEF vars, tableVars, runVars, queueVars, intakeVars, handlerVars, faultVars, workerVars, HeadInv,
       Undisturbed, OrderSoFar, Stands, RunOf, WayInv, OnItsWay
  <2> QED
    BY <2>1, HeadIntake, HeadWorker, HeadRetry, WayIntake, WayWorker, WayRetry DEF Next
<1>3. Inv /\ HeadInv /\ WayInv => CurrentHeadIsReviewed
  BY RestedIsReviewed
<1> QED
  BY <1>1, <1>2, <1>3, InvAlways, DeliveryInvAlways, CauseInvAlways, PTL DEF Spec
=============================================================================
