--------------------------- MODULE ScanScheduling ---------------------------
(***************************************************************************)
(* CodebaseScanEnqueueService and the part of RepositoryConfigurationService*)
(* that calls it: the API requests that schedule codebase scans.  Each     *)
(* `await` is one action, so requests interleave with one another and with *)
(* the workers between any two calls.                                      *)
(***************************************************************************)
EXTENDS ScanTables

CONSTANTS Request,        \* API requests
          Workload,       \* what the requests ask, from which setting, with how many faults
          MaxFaults       \* failed calls, crashes and frozen workers, in all

(* "sync" is an installation or repository sync that found the repository; *)
(* "manual" is Scan now; the others are updates of the configuration.      *)
Kind == {"sync", "manual", "enableScans", "disableScans", "disableAutomation"}

ASSUME SchedulingAssumption ==
  /\ Workload \subseteq [kind : [Request -> Kind], scansEnabled : BOOLEAN,
                     faults : 0..MaxFaults]
  /\ MaxFaults \in Nat

RequestPc == {"idle", "save", "saveRepository", "target", "schedule", "find", "insert", "findAgain",
              "enqueue", "markFailed", "retarget", "reschedule", "remove", "done"}

VARIABLES
  kind,         \* what each request asks
  automation,   \* repositories.enabled
  configured,   \* repository_review_configurations.automation_enabled
  scansEnabled, \* repository_review_configurations.codebase_scan_enabled
  qPc,          \* where each request is
  qRun,         \* creation.scanRun.id
  faultsLeft,   \* failed calls, crashes and freezes still to come
  abandoned,    \* history: runs whose request or worker ended without its last write
  overlapped,   \* history: a configuration update met another scheduling request
  disturbed     \* history: see ScanPipeline

requestVars == <<kind, automation, configured, scansEnabled, qPc, qRun>>
historyVars == <<faultsLeft, abandoned, overlapped, disturbed>>
schedulingVars == <<requestVars, historyVars>>

SchedulingTypeOK ==
  /\ kind \in [Request -> Kind]
  /\ automation \in BOOLEAN /\ configured \in BOOLEAN /\ scansEnabled \in BOOLEAN
  /\ qPc \in [Request -> RequestPc]
  /\ qRun \in [Request -> 0..MaxScans]
  /\ faultsLeft \in 0..MaxFaults
  /\ abandoned \subseteq ScanId
  /\ overlapped \in BOOLEAN /\ disturbed \in BOOLEAN

(* A connected repository that has no schedule yet.                        *)
SchedulingInit ==
  /\ \E l \in Workload : kind = l.kind /\ scansEnabled = l.scansEnabled
                       /\ faultsLeft = l.faults
  /\ automation = TRUE /\ configured = TRUE
  /\ qPc = [q \in Request |-> "idle"]
  /\ qRun = [q \in Request |-> 0]
  /\ abandoned = {}
  /\ overlapped = FALSE
  /\ disturbed = FALSE

ScanTargetEnabled == automation /\ scansEnabled
TriggerOf(q) == IF kind[q] = "manual" THEN "manual" ELSE "install"
Updates(q) == kind[q] \notin {"sync", "manual"}
InProgress(q) == qPc[q] \notin {"idle", "done"}
At(q, pc) == qPc[q] = pc
Goto(q, pc) == qPc' = [qPc EXCEPT ![q] = pc]
KeepHistory == UNCHANGED historyVars
KeepSettings == UNCHANGED <<kind, automation, configured, scansEnabled>>
-----------------------------------------------------------------------------
StartRequest(q) ==
  /\ At(q, "idle")
  /\ Goto(q, IF Updates(q) THEN "save" ELSE "target")
  /\ overlapped' = (overlapped \/ \E p \in Request \ {q} :
                      InProgress(p) /\ (Updates(p) \/ Updates(q)))
  /\ UNCHANGED <<tableVars, qRun, faultsLeft, abandoned, disturbed>> /\ KeepSettings

(* Mutant of AfterSave: the scheduler of a disabled repository stays. *)
AfterSaveKeepsSchedule(q) == IF kind[q] = "enableScans" THEN "target" ELSE "done"
AfterSave(q) == IF kind[q] = "enableScans" THEN "target" ELSE "remove"

(* updateRepositoryConfiguration: the row of the configuration ...         *)
SaveConfiguration(q) ==
  /\ At(q, "save")
  /\ configured' = (configured /\ kind[q] # "disableAutomation")
  /\ scansEnabled' = CASE kind[q] = "enableScans" -> TRUE
                       [] kind[q] = "disableScans" -> FALSE
                       [] OTHER -> scansEnabled
  /\ Goto(q, CASE kind[q] = "disableAutomation" -> "saveRepository"
               [] kind[q] = "enableScans" /\ ~configured -> "done"
               [] OTHER -> AfterSave(q))
  /\ UNCHANGED <<tableVars, kind, automation, qRun>> /\ KeepHistory

(* ... and, in a statement of its own, the copy in `repositories` that the *)
(* other components read.                                                  *)
SaveRepository(q) ==
  /\ At(q, "saveRepository")
  /\ automation' = FALSE
  /\ Goto(q, AfterSave(q))
  /\ UNCHANGED <<tableVars, kind, configured, scansEnabled, qRun>> /\ KeepHistory

(* findRepositoryTarget: a disabled repository answers null (sync, update) *)
(* or Forbidden (manual); an update goes on to scheduleRepository.         *)
FindTarget(q) ==
  /\ At(q, "target")
  /\ Goto(q, IF ScanTargetEnabled THEN IF kind[q] = "manual" THEN "find" ELSE "schedule"
             ELSE IF Updates(q) THEN "retarget" ELSE "done")
  /\ UNCHANGED <<tableVars, qRun>> /\ KeepSettings /\ KeepHistory

(* upsertJobScheduler and removeJobScheduler.                              *)
SetScheduler(q) ==
  /\ \/ At(q, "schedule") /\ scheduler' = TRUE /\ Goto(q, "find")
     \/ At(q, "reschedule") /\ scheduler' = TRUE /\ Goto(q, "done")
     \/ At(q, "remove") /\ scheduler' = FALSE /\ Goto(q, "done")
  /\ UNCHANGED <<scans, findings, jobVars, qRun>> /\ KeepSettings /\ KeepHistory

(* scheduleRepository reads the target again.                              *)
FindTargetAgain(q) ==
  /\ At(q, "retarget")
  /\ Goto(q, IF ScanTargetEnabled THEN "reschedule" ELSE "remove")
  /\ UNCHANGED <<tableVars, qRun>> /\ KeepSettings /\ KeepHistory

(* createOrReuseActiveScanRun: look for an active run, insert one, and look*)
(* again when the insert fails; then give up.                              *)
FindActive(q) ==
  /\ At(q, "find") \/ At(q, "findAgain")
  /\ qRun' = [qRun EXCEPT ![q] = FindActiveScanRun(TriggerOf(q))]
  /\ Goto(q, IF qRun'[q] # 0 THEN "enqueue" ELSE IF At(q, "find") THEN "insert" ELSE "done")
  /\ UNCHANGED tableVars /\ KeepSettings /\ KeepHistory

InsertScanRun(q) ==
  /\ At(q, "insert")
  /\ Len(scans) < MaxScans
  /\ IF UniqueIndexes(Inserted(TriggerOf(q)))
       THEN /\ scans' = Inserted(TriggerOf(q))
            /\ qRun' = [qRun EXCEPT ![q] = Len(scans) + 1]
            /\ Goto(q, "enqueue")
       ELSE Goto(q, "findAgain") /\ UNCHANGED <<scans, qRun>>
  /\ UNCHANGED <<findings, jobVars, scheduler>> /\ KeepSettings /\ KeepHistory

AfterEnqueue(q) == IF Updates(q) THEN "retarget" ELSE "done"
Enqueue(q) ==
  /\ At(q, "enqueue")
  /\ EnqueueCodebaseScan(ScanJobId(TriggerOf(q)), qRun[q])
  /\ Goto(q, AfterEnqueue(q))
  /\ UNCHANGED <<scans, findings, scheduler, qRun>> /\ KeepSettings /\ KeepHistory

(* The catch of enqueueScanForTarget: the run, created or reused, is set   *)
(* failed whatever its status is by now, and the error is thrown on.       *)
MarkEnqueueFailed(q) ==
  /\ At(q, "markFailed")
  /\ scans' = WithStatus(qRun[q], "failed")
  /\ disturbed' = (disturbed \/ scans[qRun[q]].status # "queued")
  /\ Goto(q, "done")
  /\ UNCHANGED <<findings, jobVars, scheduler, qRun, faultsLeft, abandoned,
                 overlapped>>
  /\ KeepSettings

(* Mutant of AfterFailedCall: an enqueue error is not caught. *)
AfterUncaughtCall(q) == IF At(q, "insert") THEN "findAgain" ELSE "done"

(* A call of the request fails before it takes effect: the insert and the  *)
(* enqueue have a catch, every other error ends the request.               *)
AfterFailedCall(q) ==
  CASE At(q, "insert") -> "findAgain"
    [] At(q, "enqueue") -> "markFailed"
    [] OTHER -> "done"
RequestFault(q) ==
  /\ InProgress(q)
  /\ faultsLeft > 0
  /\ faultsLeft' = faultsLeft - 1
  /\ Goto(q, AfterFailedCall(q))
  /\ abandoned' = IF At(q, "markFailed") THEN abandoned \cup {qRun[q]} ELSE abandoned
  /\ overlapped' = (overlapped \/ Updates(q))
  /\ UNCHANGED <<tableVars, qRun, disturbed>> /\ KeepSettings

(* The API process dies between two awaits.                                *)
RequestCrash(q) ==
  /\ InProgress(q)
  /\ faultsLeft > 0
  /\ faultsLeft' = faultsLeft - 1
  /\ Goto(q, "done")
  /\ abandoned' = IF At(q, "enqueue") \/ At(q, "markFailed") THEN abandoned \cup {qRun[q]}
                  ELSE abandoned
  /\ overlapped' = (overlapped \/ Updates(q))
  /\ UNCHANGED <<tableVars, qRun, disturbed>> /\ KeepSettings

RequestStep(q) ==
  \/ StartRequest(q) \/ SaveConfiguration(q) \/ SaveRepository(q) \/ FindTarget(q) \/ SetScheduler(q)
  \/ FindTargetAgain(q) \/ FindActive(q) \/ InsertScanRun(q) \/ Enqueue(q)
  \/ MarkEnqueueFailed(q)

(* The job scheduler adds its next job, which carries no run.              *)
SchedulerTick ==
  /\ scheduler
  /\ \E n \in 1..MaxTicks :
       /\ jobState[<<"scheduled", n>>] = "none"
       /\ \A m \in 1..(n - 1) : jobState[<<"scheduled", m>>] # "none"
       /\ jobState' = [jobState EXCEPT ![<<"scheduled", n>>] = "waiting"]
  /\ UNCHANGED <<jobRun, attempts, stalls, lock, scans, findings, scheduler, requestVars, historyVars>>
=============================================================================
