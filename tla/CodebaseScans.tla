--------------------------- MODULE CodebaseScans ----------------------------
(***************************************************************************)
(* The codebase scans of one repository as a whole: API requests, the job  *)
(* scheduler, the queue, the workers, pushes to the default branch and the *)
(* users who triage findings.                                              *)
(***************************************************************************)
EXTENDS ScanPipeline

vars == <<tableVars, schedulingVars, workerVars>>

Init == TablesInit /\ SchedulingInit /\ PipelineInit

(* A push to the default branch, on GitHub.                                *)
PushToDefaultBranch ==
  /\ branchHead < MaxCommit
  /\ branchHead' = branchHead + 1
  /\ UNCHANGED <<tableVars, schedulingVars, wPc, locals, scanned, byHand, latest>>

(* updateFindingStatus: a member sets any status on an existing finding.   *)
UpdateFindingStatus(k, s) ==
  /\ findings[k] # "none" /\ s \in {"open", "resolved", "muted"} \ {findings[k]}
  /\ findings' = [findings EXCEPT ![k] = s]
  /\ byHand' = byHand \cup {k}
  /\ UNCHANGED <<scans, jobVars, scheduler, schedulingVars>>
  /\ UNCHANGED <<branchHead, wPc, locals, scanned, latest>>

Next ==
  \/ PushToDefaultBranch
  \/ SchedulerTick /\ UNCHANGED workerVars
  \/ \E q \in Request :
       (RequestStep(q) \/ RequestFault(q) \/ RequestCrash(q)) /\ UNCHANGED workerVars
  \/ \E w \in ScanWorker : WorkerStep(w) \/ WorkerFault(w) \/ WorkerCrash(w)
  \/ \E j \in JobId : JobStalls(j)
  \/ \E k \in Key, s \in FindingStatus : UpdateFindingStatus(k, s)

Spec == Init /\ [][Next]_vars

TypeOK == TablesTypeOK /\ SchedulingTypeOK /\ PipelineTypeOK
-----------------------------------------------------------------------------
LiveJob(j) == jobState[j] \in {"waiting", "active"}
WorkedOn(i) ==
  \/ \E j \in JobId : LiveJob(j) /\ jobRun[j] = i
  \/ \E w \in ScanWorker : wRun[w] = i
  \/ \E q \in Request : qRun[q] = i /\ qPc[q] \in {"enqueue", "markFailed"}

(* The job a run would need has been used up by an earlier run of the same *)
(* trigger: codebaseScanJobId has no part that differs between them.       *)
JobIdTaken(i) ==
  /\ scans[i].trigger # "scheduled"
  /\ jobState[ScanJobId(scans[i].trigger)] # "none"
  /\ jobRun[ScanJobId(scans[i].trigger)] # i

(* A scan run shown as queued or running has somebody who will end it: a   *)
(* live job, a worker or a request.  The exceptions are exact: a process   *)
(* that died (or could not write its last status) with the run in hand, and*)
(* a run whose trigger had a scan before, whose job add() ignored          *)
(* (codebase-scan-enqueue.service.ts:200, codebase-scan-queue.ts:40).      *)
NoScanIsStranded ==
  \A i \in DOMAIN scans :
    Active(scans[i]) => WorkedOn(i) \/ i \in abandoned \/ JobIdTaken(i)

(* A scan is skipped as superseded only for a commit that another run has  *)
(* scanned with success, whatever re-attempts, stalls and races did in     *)
(* between (codebase_scan.py:698).                                         *)
SupersededMeansScanned ==
  \A i \in DOMAIN scans : scans[i].status = "superseded" =>
    \E p \in scanned : p[1] # i /\ p[2] = scans[i].commit

(* While scans do not overlap and none stops halfway through its writes,   *)
(* the open findings that no user set are those of the commit scanned last,*)
(* and that is the newest commit ever scanned: nothing fixed stays open and*)
(* nothing present is resolved (codebase_scan.py:749-790).                 *)
FindingsFollowTheLastScan ==
  ~disturbed /\ (\A w \in ScanWorker : ~WritesFindings(w)) =>
    /\ \A k \in Key \ byHand :
         findings[k] = "open" <=> latest # 0 /\ k \in Seen[latest]
    /\ \A p \in scanned : p[2] <= latest

(* Once every request has ended, the job scheduler exists only for a       *)
(* repository that is to be scanned, as long as no configuration update    *)
(* met another scheduling request or failed halfway                        *)
(* (repository-configuration.service.ts:104-125).                          *)
ScheduleFollowsSettings ==
  ~overlapped /\ (\A q \in Request : ~InProgress(q)) => (scheduler => ScanTargetEnabled)
=============================================================================
