----------------------------- MODULE ScanTables -----------------------------
(***************************************************************************)
(* The rows and jobs of the codebase scans of one repository: the tables   *)
(* codebase_scan_runs and codebase_scan_findings with their unique indexes,*)
(* and the BullMQ queue "codebase-scans".  Each SQL statement and each     *)
(* Redis call is one atomic step of whoever makes it.                      *)
(*                                                                         *)
(* A scan run is its position in the order of insertion, 0 stands for      *)
(* "none"; a commit is its position on the default branch, 0 is NULL.      *)
(***************************************************************************)
EXTENDS Naturals, Sequences

CONSTANTS ScanWorker,   \* worker processes, one scan job at a time each
          NoWorker,     \* the holder of a job nobody holds
          Key,          \* dedupe keys of findings
          MaxCommit,    \* bound on the commits of the default branch
          MaxScans,     \* bound on the rows of codebase_scan_runs
          MaxTicks,     \* bound on the jobs the scheduler produces
          MaxAttempts,  \* CODEBASE_SCAN_JOB_OPTIONS.attempts
          MaxStalled    \* BullMQ's maxStalledCount

ASSUME ScanTablesAssumption ==
  /\ NoWorker \notin ScanWorker
  /\ MaxCommit \in Nat \ {0} /\ MaxScans \in Nat /\ MaxTicks \in Nat
  /\ MaxAttempts \in Nat \ {0} /\ MaxStalled \in Nat

Commit == 1..MaxCommit
ScanId == 1..MaxScans
Trigger == {"install", "manual", "scheduled"}
ScanStatus == {"queued", "running", "succeeded", "failed", "superseded"}

(* "muted" stands for suppressed and false_positive, which the worker's    *)
(* upsert treats alike; "none" when the finding has no row.                *)
FindingStatus == {"none", "open", "resolved", "muted"}

(* codebaseScanJobId: with no commit the id ends in the trigger, so it is  *)
(* the same for every manual (install) scan.  A scheduled job gets a fresh *)
(* id from the job scheduler at every tick.                                *)
JobId == ({"install", "manual"} \X {0}) \cup ({"scheduled"} \X (1..MaxTicks))
ScanJobId(trigger) == <<trigger, 0>>
JobState == {"none", "waiting", "active", "completed", "failed"}

VARIABLES
  scans,     \* codebase_scan_runs: [trigger, status, commit]
  findings,  \* codebase_scan_findings.status by dedupe key
  jobState,  \* by job id; "waiting" covers BullMQ's back-off delay
  jobRun,    \* the run a job carries; 0 is scanRunId null
  attempts,  \* failed tries so far (attemptsMade)
  stalls,    \* times the job was found stalled
  lock,      \* the worker whose lock on the job is valid
  scheduler  \* whether the repository has a job scheduler

jobVars == <<jobState, jobRun, attempts, stalls, lock>>
tableVars == <<scans, findings, jobVars, scheduler>>

TablesTypeOK ==
  /\ scans \in Seq([trigger : Trigger, status : ScanStatus, commit : 0..MaxCommit])
  /\ Len(scans) <= MaxScans
  /\ findings \in [Key -> FindingStatus]
  /\ jobState \in [JobId -> JobState] /\ jobRun \in [JobId -> 0..MaxScans]
  /\ attempts \in [JobId -> 0..MaxAttempts] /\ stalls \in [JobId -> 0..(MaxStalled + 1)]
  /\ lock \in [JobId -> ScanWorker \cup {NoWorker}]
  /\ scheduler \in BOOLEAN

TablesInit ==
  /\ scans = << >>
  /\ findings = [k \in Key |-> "none"]
  /\ jobState = [j \in JobId |-> "none"] /\ jobRun = [j \in JobId |-> 0]
  /\ attempts = [j \in JobId |-> 0] /\ stalls = [j \in JobId |-> 0]
  /\ lock = [j \in JobId |-> NoWorker]
  /\ scheduler = FALSE
-----------------------------------------------------------------------------
Active(row) == row.status \in {"queued", "running"}

(* The three partial unique indexes; a statement whose result breaks one   *)
(* raises and changes nothing.                                             *)
UniqueIndexes(t) ==
  \A i, j \in DOMAIN t : i # j =>
    ~ \/ t[i].commit = t[j].commit /\ t[i].commit # 0
         /\ \/ t[i].status = "succeeded" /\ t[j].status = "succeeded"
            \/ Active(t[i]) /\ Active(t[j])
      \/ t[i].commit = 0 /\ t[j].commit = 0 /\ t[i].trigger = t[j].trigger
         /\ Active(t[i]) /\ Active(t[j])

QueuedScan(trigger) == [trigger |-> trigger, status |-> "queued", commit |-> 0]
Inserted(trigger) == Append(scans, QueuedScan(trigger))
WithStatus(i, s) == [scans EXCEPT ![i].status = s]
WithCommit(i, s, c) ==
  [scans EXCEPT ![i] = [trigger |-> scans[i].trigger, status |-> s, commit |-> c]]

(* findActiveScanRun for an unknown commit: the oldest match, or none.     *)
ActiveScans(trigger) ==
  {i \in DOMAIN scans : scans[i].trigger = trigger /\ scans[i].commit = 0 /\ Active(scans[i])}
FindActiveScanRun(trigger) ==
  IF ActiveScans(trigger) = {} THEN 0
  ELSE CHOOSE i \in ActiveScans(trigger) : \A j \in ActiveScans(trigger) : i <= j

(* Mutant of HasSuccessfulScan: id <> %s is forgotten. *)
HasAnySuccessfulScan(i, c) ==
  \E j \in DOMAIN scans : scans[j].commit = c /\ scans[j].status = "succeeded"
HasSuccessfulScan(i, c) ==
  \E j \in DOMAIN scans : j # i /\ scans[j].commit = c /\ scans[j].status = "succeeded"
-----------------------------------------------------------------------------
(* Queue.add: a second add with the same id changes nothing, whatever run  *)
(* it carries, because removeOnComplete and removeOnFail are false.        *)
EnqueueCodebaseScan(j, i) ==
  /\ IF jobState[j] = "none"
       THEN /\ jobState' = [jobState EXCEPT ![j] = "waiting"]
            /\ jobRun' = [jobRun EXCEPT ![j] = i]
       ELSE UNCHANGED <<jobState, jobRun>>
  /\ UNCHANGED <<attempts, stalls, lock>>

TakeJob(w, j) ==
  /\ jobState[j] = "waiting"
  /\ jobState' = [jobState EXCEPT ![j] = "active"]
  /\ lock' = [lock EXCEPT ![j] = w]
  /\ UNCHANGED <<jobRun, attempts, stalls>>

(* The processor returned or raised.  A worker that lost its lock on the   *)
(* job changes nothing.                                                    *)
CompleteJob(w, j) ==
  /\ IF lock[j] = w
       THEN /\ jobState' = [jobState EXCEPT ![j] = "completed"]
            /\ lock' = [lock EXCEPT ![j] = NoWorker]
       ELSE UNCHANGED <<jobState, lock>>
  /\ UNCHANGED <<jobRun, attempts, stalls>>

(* Mutant of RejectJob: one attempt too many. *)
RejectJobOnceMore(w, j) ==
  /\ IF lock[j] = w
       THEN /\ jobState' = [jobState EXCEPT ![j] =
                 IF attempts[j] < MaxAttempts THEN "waiting" ELSE "failed"]
            /\ attempts' = [attempts EXCEPT ![j] = @ + 1]
            /\ lock' = [lock EXCEPT ![j] = NoWorker]
       ELSE UNCHANGED <<jobState, attempts, lock>>
  /\ UNCHANGED <<jobRun, stalls>>
RejectJob(w, j) ==
  /\ IF lock[j] = w
       THEN /\ jobState' = [jobState EXCEPT ![j] =
                 IF attempts[j] + 1 < MaxAttempts THEN "waiting" ELSE "failed"]
            /\ attempts' = [attempts EXCEPT ![j] = @ + 1]
            /\ lock' = [lock EXCEPT ![j] = NoWorker]
       ELSE UNCHANGED <<jobState, attempts, lock>>
  /\ UNCHANGED <<jobRun, stalls>>

(* The stalled-job check finds the lock of an active job expired.          *)
StallJob(j) ==
  /\ jobState[j] = "active"
  /\ jobState' = [jobState EXCEPT ![j] = IF stalls[j] < MaxStalled THEN "waiting" ELSE "failed"]
  /\ stalls' = [stalls EXCEPT ![j] = @ + 1]
  /\ lock' = [lock EXCEPT ![j] = NoWorker]
  /\ UNCHANGED <<jobRun, attempts>>
=============================================================================
