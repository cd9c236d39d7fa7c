----------------------------- MODULE ReviewSystem ---------------------------
(***************************************************************************)
(* The review path as a whole: webhook handlers, the dashboard retry, the  *)
(* queue and the workers over one set of tables, and what must be true of  *)
(* them together.                                                          *)
(***************************************************************************)
EXTENDS RunRetry

vars == <<tableVars, queueVars, intakeVars, workerVars, rPc>>

TypeOK ==
  /\ TablesTypeOK /\ QueueTypeOK /\ IntakeTypeOK /\ WorkerTypeOK /\ RetryTypeOK

Init ==
  /\ TablesInit /\ QueueInit /\ IntakeInit /\ WorkerInit /\ RetryInit

(* Nothing is left to do: a state the system may rest in.  Any other state *)
(* without a successor is a deadlock.                                      *)
Quiescent ==
  /\ \A h \in Handler : At(h, "done")
  /\ \A w \in Worker : wPc[w] = "idle"
  /\ \A r \in RunId : jobState[r] \notin {"waiting", "active"} /\ rPc[r] = "idle"

Next ==
  \/ IntakeNext /\ UNCHANGED <<workerVars, rPc>>
  \/ WorkerNext /\ UNCHANGED rPc
  \/ RetryNext
  \/ Quiescent /\ UNCHANGED vars

Spec == Init /\ [][Next]_vars

(* Both processes keep running what they have begun, an idle worker takes  *)
(* a waiting job, and the stalled check looks again every 60 seconds.      *)
(* Nothing is assumed of GitHub, of the users or of the faults.            *)
Fairness ==
  /\ \A h \in Handler : WF_vars(~At(h, "idle") /\ HandlerStep(h)
                                /\ UNCHANGED <<workerVars, rPc>>)
  /\ \A w \in Worker : WF_vars(WorkerStep(w) /\ UNCHANGED rPc)
  /\ \A r \in RunId :
       /\ WF_vars(RecoverStalledJob(r) /\ UNCHANGED rPc)
       /\ WF_vars((\E w \in Worker : TakeReviewJob(w, r)) /\ UNCHANGED rPc)
       /\ WF_vars(RetryStep(r))
FairSpec == Spec /\ Fairness
-----------------------------------------------------------------------------
(* The original outcome of a delivery is kept: whatever is sent again,     *)
(* fails or crashes, a delivery that has its verdict never gets another.   *)
VerdictIsFinal ==
  [][\A r \in RunId : deliveryStatus[r] \in {"processed", "ignored", "failed"}
                        => deliveryStatus'[r] = deliveryStatus[r]]_vars

(* A delivery is "processed" only when its run and its job both exist, and *)
(* "ignored" only when neither does; the other verdicts promise nothing.   *)
VerdictMatchesWork ==
  \A d \in Delivery :
    LET r == <<d, 0>>
    IN  /\ deliveryStatus[r] = "processed" => RunExists(r) /\ jobState[r] # "none"
        /\ deliveryStatus[r] = "ignored" => ~RunExists(r) /\ jobState[r] = "none"

(* No job without its run: a worker that takes a job finds the run, and,   *)
(* when it is a retry, the row that ties it to the failed original, with   *)
(* the same head.                                                          *)
JobHasRun ==
  \A r \in RunId : jobState[r] # "none" =>
    /\ RunExists(r)
    /\ r[2] > 0 => LET o == <<r[1], r[2] - 1>>
                   IN  o \in retryRow /\ runHead[r] = runHead[o]

(* A run marked succeeded has its summary on the pull request: not the     *)
(* early return of a superseded run, not a job taken over by a second      *)
(* worker, not a retry makes the status say more than what was published.  *)
SucceededMeansPublished ==
  \A r \in RunId : runStatus[r] = "succeeded" => <<r, "summary">> \in posted

(* A run that is superseded while no worker has yet passed the publish     *)
(* check for it stays superseded and never posts a comment: the gate keeps *)
(* what the status says, through re-attempts and lock losses.              *)
PastGate(r) == \E w \in Worker : wRun[w] = r /\ wPc[w] \in {"inline", "summary"}
CommentsOf(r) == {c \in posted : c[1] = r}
Sealed(r) == runStatus[r] = "superseded" /\ ~PastGate(r)
SealedRunStaysSilent ==
  [][\A r \in RunId : Sealed(r) => Sealed(r)' /\ CommentsOf(r)' = CommentsOf(r)]_vars

(* A run is superseded only because of a request for another head that has *)
(* written the pull request or has ended: the push and the synchronize     *)
(* delivery of one push never take each other's run away.                  *)
Wrote(h) == hPc[h] \notin {"idle", "resolve", "upsertRepository", "upsertPullRequest"}
SupersessionHasCause ==
  \A r \in RunId : runStatus[r] = "superseded" =>
    \E h \in Handler : Wrote(h) /\ hHead[h] \notin {0, runHead[r]}

(* When everything has been handled and the row shows the head on GitHub,  *)
(* a run for that head was carried through: the handlers and the publish   *)
(* check never supersede all of them between themselves.  This needs that  *)
(* no late push or synchronize names an older head (out_of_order shows     *)
(* why), that nothing failed, and that reviews are wanted.                 *)
InOrder == \A h \in Handler : hHead[h] \in {0, ghHead} \/ Kind[h[1]] = "opened"
CurrentHeadIsReviewed ==
  Quiescent /\ prHead = ghHead /\ InOrder /\ enabled /\ Draft = {} /\ dbFaults + crashes = 0
    => \E r \in RunId : runHead[r] = ghHead /\ runStatus[r] \in {"succeeded", "failed"}

(* Two workers are never at the same run unless one of them lost its lock. *)
(* A crash or a freeze is the only way to lose it.                         *)
OneWorkerPerRun ==
  crashes = 0 => \A v, w \in Worker : wRun[v] = wRun[w] /\ wRun[v] # NoRun => v = w

(* Seen from the rows alone, the system is ReviewLifecycle.                *)
Lifecycle == INSTANCE ReviewLifecycle WITH
  Run <- RunId, life <- runStatus, summary <- {r \in RunId : <<r, "summary">> \in posted}
RefinesLifecycle == Lifecycle!LifeSpec
-----------------------------------------------------------------------------
(* Every delivery that is being processed gets its verdict, unless a       *)
(* failed call or a crash took it.                                         *)
DeliveriesEnd ==
  \A r \in RunId : deliveryStatus[r] = "processing" ~>
                     (deliveryStatus[r] # "processing" \/ dbFaults + crashes > 0)

(* Every job ends, whatever crashes: the stalled check gives an orphaned   *)
(* job back, and the attempts and stalls are bounded.                      *)
JobsEnd == \A r \in RunId : jobState[r] = "waiting" ~> jobState[r] \in {"completed", "failed"}

(* With a database that answers and no more crashes than a job may stall,  *)
(* every run that reached the queue ends with a status that says how.      *)
QueuedRunsEnd ==
  \A r \in RunId : <>[](jobState[r] # "none" => runStatus[r] \in Terminal)
-----------------------------------------------------------------------------
(* docs/WEBHOOK_IDEMPOTENCY.md: a superseded run never publishes.          *)
SupersededNeverPublishes ==
  [][\A r \in RunId : runStatus[r] = "superseded" => CommentsOf(r)' = CommentsOf(r)]_vars

(* docs/WEBHOOK_IDEMPOTENCY.md: runs for older SHAs are superseded.        *)
OnlyOlderHeadsSuperseded ==
  [][\A r \in RunId : runStatus[r] # "superseded" /\ runStatus'[r] = "superseded"
                        => runHead[r] < ghHead]_vars

(* docs/PRD.md: failed jobs are retryable from persisted state.            *)
FailedJobIsRetryable ==
  \A r \in RunId : jobState[r] = "failed" /\ (\A w \in Worker : wRun[w] # r)
                     => runStatus[r] \notin {"queued", "running"}
=============================================================================
