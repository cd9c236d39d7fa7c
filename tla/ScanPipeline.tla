---------------------------- MODULE ScanPipeline ----------------------------
(***************************************************************************)
(* The worker's side: process_codebase_scan_pipeline_job and               *)
(* CodebaseScanPipeline.run, step by step, on several worker processes.    *)
(* What Semgrep and tree-sitter find in a commit is the set Seen[commit],  *)
(* after the severity threshold; the optional LLM enrichment and the       *)
(* artifact files change no row and are part of the step they precede.     *)
(***************************************************************************)
EXTENDS ScanScheduling

CONSTANTS Seen   \* [Commit -> SUBSET Key]: the findings of each commit

ASSUME PipelineAssumption == Seen \in [Commit -> SUBSET Key]

WorkerPc == {"idle", "createScan", "assertEnabled", "fetchSha", "hasSuccessful",
             "markSuperseded", "markRunning", "upsert", "readStatus", "resolve",
             "markAgain", "return", "markFailed", "raise"}

NoJob == <<"none", 0>>

VARIABLES
  branchHead,   \* the head commit of the default branch on GitHub
  wPc,          \* where each worker is
  wJob,         \* its job
  wRun,         \* payload.scan_run_id
  wCommit,      \* commit_sha
  wTodo,        \* the findings still to upsert
  scanned,      \* history: <<run, commit>> mark_succeeded has written
  byHand,       \* history: findings whose status a user wrote last
  latest        \* history: the commit of the last scan whose stale findings were resolved

workerVars == <<branchHead, wPc, wJob, wRun, wCommit, wTodo, scanned, byHand, latest>>
locals == <<wJob, wRun, wCommit, wTodo>>

PipelineTypeOK ==
  /\ branchHead \in Commit
  /\ wPc \in [ScanWorker -> WorkerPc]
  /\ wJob \in [ScanWorker -> JobId \cup {NoJob}]
  /\ wRun \in [ScanWorker -> 0..MaxScans]
  /\ wCommit \in [ScanWorker -> 0..MaxCommit]
  /\ wTodo \in [ScanWorker -> SUBSET Key]
  /\ scanned \subseteq ScanId \X Commit
  /\ byHand \subseteq Key
  /\ latest \in 0..MaxCommit

PipelineInit ==
  /\ branchHead = 1
  /\ wPc = [w \in ScanWorker |-> "idle"]
  /\ wJob = [w \in ScanWorker |-> NoJob]
  /\ wRun = [w \in ScanWorker |-> 0]
  /\ wCommit = [w \in ScanWorker |-> 0]
  /\ wTodo = [w \in ScanWorker |-> {}]
  /\ scanned = {}
  /\ byHand = {}
  /\ latest = 0

WorkerAt(w, pc) == wPc[w] = pc
WorkerGoto(w, pc) == wPc' = [wPc EXCEPT ![w] = pc]
OnlyWorkerPc == UNCHANGED <<branchHead, locals, byHand, latest>> /\ UNCHANGED schedulingVars
KeepTables == UNCHANGED tableVars

(* The part of run() between reading the branch and the last write, and the*)
(* part of it that writes findings.                                        *)
InScan(w) == wPc[w] \in {"hasSuccessful", "markSuperseded", "markRunning", "upsert",
                         "readStatus", "resolve", "markAgain", "markFailed"}
WritesFindings(w) == wPc[w] \in {"upsert", "readStatus", "resolve"}

(* The local variables die with the attempt.                               *)
Forget(w) ==
  /\ wJob' = [wJob EXCEPT ![w] = NoJob]
  /\ wRun' = [wRun EXCEPT ![w] = 0]
  /\ wCommit' = [wCommit EXCEPT ![w] = 0]
  /\ wTodo' = [wTodo EXCEPT ![w] = {}]
-----------------------------------------------------------------------------
Take(w, j) ==
  /\ WorkerAt(w, "idle")
  /\ TakeJob(w, j)
  /\ wJob' = [wJob EXCEPT ![w] = j]
  /\ wRun' = [wRun EXCEPT ![w] = jobRun[j]]
  /\ WorkerGoto(w, IF jobRun[j] = 0 THEN "createScan" ELSE "assertEnabled")
  /\ UNCHANGED <<scans, findings, scheduler, schedulingVars>>
  /\ UNCHANGED <<branchHead, wCommit, wTodo, scanned, byHand, latest>>

(* create_queued_scan_for_scheduled_job, at every attempt of the job: the  *)
(* payload keeps scanRunId null.                                           *)
CreateScan(w) ==
  /\ WorkerAt(w, "createScan")
  /\ Len(scans) < MaxScans
  /\ IF UniqueIndexes(Inserted("scheduled"))
       THEN /\ scans' = Inserted("scheduled")
            /\ wRun' = [wRun EXCEPT ![w] = Len(scans) + 1]
            /\ WorkerGoto(w, "assertEnabled")
       ELSE WorkerGoto(w, "raise") /\ UNCHANGED <<scans, wRun>>
  /\ UNCHANGED <<findings, jobVars, scheduler, schedulingVars>>
  /\ UNCHANGED <<branchHead, wJob, wCommit, wTodo, scanned, byHand, latest>>

(* Only repositories.enabled is asked: scans switched off do not stop it.  *)
AssertRepositoryEnabled(w) ==
  /\ WorkerAt(w, "assertEnabled")
  /\ WorkerGoto(w, IF automation THEN "fetchSha" ELSE "markFailed")
  /\ KeepTables /\ OnlyWorkerPc /\ UNCHANGED scanned

FetchDefaultBranchSha(w) ==
  /\ WorkerAt(w, "fetchSha")
  /\ wCommit' = [wCommit EXCEPT ![w] = branchHead]
  /\ WorkerGoto(w, "hasSuccessful")
  /\ disturbed' = (disturbed \/ \E v \in ScanWorker \ {w} : InScan(v))
  /\ UNCHANGED <<requestVars, faultsLeft, abandoned, overlapped>>
  /\ UNCHANGED <<branchHead, wJob, wRun, wTodo, scanned, byHand, latest>> /\ KeepTables

HasSuccessful(w) ==
  /\ WorkerAt(w, "hasSuccessful")
  /\ WorkerGoto(w, IF HasSuccessfulScan(wRun[w], wCommit[w]) THEN "markSuperseded"
                   ELSE "markRunning")
  /\ KeepTables /\ OnlyWorkerPc /\ UNCHANGED scanned

MarkSuperseded(w) ==
  /\ WorkerAt(w, "markSuperseded")
  /\ scans' = WithCommit(wRun[w], "superseded", wCommit[w])
  /\ WorkerGoto(w, "return")
  /\ UNCHANGED <<findings, jobVars, scheduler, scanned>> /\ OnlyWorkerPc

(* mark_running makes the commit known, and may meet another active scan   *)
(* of it in the unique index.                                              *)
MarkRunning(w) ==
  /\ WorkerAt(w, "markRunning")
  /\ IF UniqueIndexes(WithCommit(wRun[w], "running", wCommit[w]))
       THEN /\ scans' = WithCommit(wRun[w], "running", wCommit[w])
            /\ wTodo' = [wTodo EXCEPT ![w] = Seen[wCommit[w]]]
            /\ WorkerGoto(w, "upsert")
       ELSE WorkerGoto(w, "markFailed") /\ UNCHANGED <<scans, wTodo>>
  /\ UNCHANGED <<findings, jobVars, scheduler, schedulingVars>>
  /\ UNCHANGED <<branchHead, wJob, wRun, wCommit, scanned, byHand, latest>>

(* upsert_finding, one transaction per finding.                            *)
UpsertFinding(w, k) ==
  /\ WorkerAt(w, "upsert") /\ k \in wTodo[w]
  /\ findings' = [findings EXCEPT ![k] = IF @ = "muted" THEN "muted" ELSE "open"]
  /\ byHand' = IF findings[k] = "muted" THEN byHand ELSE byHand \ {k}
  /\ wTodo' = [wTodo EXCEPT ![w] = @ \ {k}]
  /\ UNCHANGED <<scans, jobVars, scheduler, schedulingVars>>
  /\ UNCHANGED <<branchHead, wPc, wJob, wRun, wCommit, scanned, latest>>

UpsertsDone(w) == WorkerAt(w, "upsert") /\ wTodo[w] = {}

(* mark_succeeded, before stale findings are resolved and again after.     *)
MarkSucceeded(w) ==
  /\ UpsertsDone(w) \/ WorkerAt(w, "markAgain")
  /\ IF UniqueIndexes(WithStatus(wRun[w], "succeeded"))
       THEN /\ scans' = WithStatus(wRun[w], "succeeded")
            /\ scanned' = scanned \cup {<<wRun[w], scans[wRun[w]].commit>>}
            /\ WorkerGoto(w, IF WorkerAt(w, "markAgain") THEN "return" ELSE "readStatus")
       ELSE WorkerGoto(w, "markFailed") /\ UNCHANGED <<scans, scanned>>
  /\ UNCHANGED <<findings, jobVars, scheduler>> /\ OnlyWorkerPc

(* resolve_stale_findings: the two statements of one transaction, each     *)
(* reading what is committed at its own time.                              *)
ReadOwnStatus(w) ==
  /\ WorkerAt(w, "readStatus")
  /\ WorkerGoto(w, IF scans[wRun[w]].status = "succeeded" THEN "resolve" ELSE "markAgain")
  /\ KeepTables /\ OnlyWorkerPc /\ UNCHANGED scanned

(* Mutant of Stale: compared with the findings still to upsert. *)
StaleAgainstTodo(w) == {k \in Key : findings[k] = "open" /\ k \notin wTodo[w]}
Stale(w) == {k \in Key : findings[k] = "open" /\ k \notin Seen[wCommit[w]]}
ResolveStaleFindings(w) ==
  /\ WorkerAt(w, "resolve")
  /\ findings' = [k \in Key |-> IF k \in Stale(w) THEN "resolved" ELSE findings[k]]
  /\ byHand' = byHand \ Stale(w)
  /\ latest' = wCommit[w]
  /\ WorkerGoto(w, "markAgain")
  /\ UNCHANGED <<scans, jobVars, scheduler, schedulingVars, branchHead, locals, scanned>>

(* The except clause: the run is failed whatever its status is by now.     *)
MarkScanFailed(w) ==
  /\ WorkerAt(w, "markFailed")
  /\ scans' = WithStatus(wRun[w], "failed")
  /\ disturbed' = (disturbed \/ \E v \in ScanWorker \ {w} : wRun[v] = wRun[w] /\ InScan(v))
  /\ WorkerGoto(w, "raise")
  /\ UNCHANGED <<requestVars, faultsLeft, abandoned, overlapped>>
  /\ UNCHANGED <<branchHead, locals, byHand, latest, findings, jobVars, scheduler, scanned>>

EndAttempt(w) ==
  /\ \/ WorkerAt(w, "return") /\ CompleteJob(w, wJob[w])
     \/ WorkerAt(w, "raise") /\ RejectJob(w, wJob[w])
  /\ WorkerGoto(w, "idle")
  /\ Forget(w)
  /\ UNCHANGED <<scans, findings, scheduler, schedulingVars>>
  /\ UNCHANGED <<branchHead, scanned, byHand, latest>>

(* A call of the attempt fails before it takes effect, or the planner or a *)
(* tool raises.                                                            *)
WorkerFault(w) ==
  /\ faultsLeft > 0
  /\ wPc[w] \notin {"idle", "return", "raise"}
  /\ faultsLeft' = faultsLeft - 1
  /\ WorkerGoto(w, IF wPc[w] \in {"createScan", "markFailed"} THEN "raise" ELSE "markFailed")
  /\ abandoned' = IF WorkerAt(w, "markFailed") THEN abandoned \cup {wRun[w]} ELSE abandoned
  /\ disturbed' = (disturbed \/ WritesFindings(w))
  /\ UNCHANGED <<requestVars, overlapped>>
  /\ UNCHANGED <<branchHead, locals, scanned, byHand, latest>> /\ KeepTables

(* The worker process dies; its job stays active until it is found stalled.*)
WorkerCrash(w) ==
  /\ faultsLeft > 0
  /\ ~WorkerAt(w, "idle")
  /\ faultsLeft' = faultsLeft - 1
  /\ abandoned' = IF wRun[w] = 0 THEN abandoned ELSE abandoned \cup {wRun[w]}
  /\ disturbed' = (disturbed \/ WritesFindings(w))
  /\ WorkerGoto(w, "idle")
  /\ Forget(w)
  /\ UNCHANGED <<requestVars, overlapped>>
  /\ UNCHANGED <<branchHead, scanned, byHand, latest>> /\ KeepTables

(* The stalled-job check meets the job of a dead worker, or of a live one  *)
(* whose event loop a synchronous call blocked past the lock duration;     *)
(* that worker goes on with the attempt without the lock.                  *)
JobStalls(j) ==
  /\ StallJob(j)
  /\ IF \A w \in ScanWorker : wJob[w] # j
       THEN UNCHANGED faultsLeft
       ELSE faultsLeft > 0 /\ faultsLeft' = faultsLeft - 1
  /\ UNCHANGED <<scans, findings, scheduler, requestVars, abandoned>>
  /\ UNCHANGED <<overlapped, disturbed, workerVars>>

WorkerStep(w) ==
  \/ \E j \in JobId : Take(w, j)
  \/ CreateScan(w) \/ AssertRepositoryEnabled(w) \/ FetchDefaultBranchSha(w)
  \/ HasSuccessful(w) \/ MarkSuperseded(w) \/ MarkRunning(w)
  \/ \E k \in Key : UpsertFinding(w, k)
  \/ MarkSucceeded(w) \/ ReadOwnStatus(w) \/ ResolveStaleFindings(w)
  \/ MarkScanFailed(w) \/ EndAttempt(w)
=============================================================================
