------------------------ MODULE CodebaseScans_proofs ------------------------
(***************************************************************************)
(* Theorems about CodebaseScans for every set of requests, workers and     *)
(* findings and every bound.                                               *)
(***************************************************************************)
EXTENDS CodebaseScans, WellFoundedInduction, TLAPS

ScanRow == [trigger : Trigger, status : ScanStatus, commit : 0..MaxCommit]

(* The places of run() at which the run is the worker's, at which the      *)
(* commit is known, and at which the run's row has it.                     *)
HasRun == WorkerPc \ {"idle", "createScan", "raise"}
KnowsCommit == {"hasSuccessful", "markSuperseded", "markRunning", "upsert",
                "readStatus", "resolve", "markAgain"}
Started == {"upsert", "readStatus", "resolve", "markAgain"}

JobInv ==
  \A j \in JobId :
    /\ jobState[j] \in {"none", "waiting", "active"} =>
         attempts[j] < MaxAttempts /\ stalls[j] <= MaxStalled
    /\ lock[j] # NoWorker <=> jobState[j] = "active"
    /\ jobRun[j] <= Len(scans)
    /\ j[1] # "scheduled" /\ jobState[j] # "none" => jobRun[j] # 0

WorkerOK(w) ==
  /\ wPc[w] # "idle" => wJob[w] \in JobId
  /\ wRun[w] <= Len(scans)
  /\ wPc[w] \in HasRun => wRun[w] # 0
  /\ wPc[w] \in {"idle", "createScan"} => wRun[w] = 0
  /\ wPc[w] \in KnowsCommit => wCommit[w] # 0
  /\ wPc[w] \in Started => scans[wRun[w]].commit # 0
WorkerInv == \A w \in ScanWorker : WorkerOK(w)

RequestInv ==
  \A q \in Request : At(q, "enqueue") \/ At(q, "markFailed") =>
    qRun[q] \in DOMAIN scans /\ scans[qRun[q]].trigger = TriggerOf(q)

TypeInv == TypeOK /\ JobInv /\ WorkerInv /\ RequestInv

-----------------------------------------------------------------------------
LEMMA Places ==
  /\ Started \subseteq KnowsCommit /\ KnowsCommit \subseteq HasRun
  /\ {"assertEnabled", "fetchSha", "markFailed", "return"} \subseteq HasRun
BY DEF Started, KnowsCommit, HasRun, WorkerPc

(* The rows of codebase_scan_runs: an insert and the two updates.          *)
LEMMA Appended ==
  ASSUME NEW t \in Seq(ScanRow), NEW trigger \in Trigger
  PROVE  LET u == Append(t, QueuedScan(trigger)) IN
         /\ u \in Seq(ScanRow) /\ Len(u) = Len(t) + 1
         /\ \A i \in DOMAIN t : i \in DOMAIN u /\ u[i] = t[i]
         /\ u[Len(t) + 1] = QueuedScan(trigger)
         /\ DOMAIN u = DOMAIN t \cup {Len(t) + 1}
<1>1. QueuedScan(trigger) \in ScanRow
  BY ScanTablesAssumption DEF QueuedScan, ScanRow, ScanStatus
<1> QED
  BY <1>1

LEMMA Replaced ==
  ASSUME NEW t \in Seq(ScanRow), NEW i \in DOMAIN t, NEW r \in ScanRow
  PROVE  LET u == [t EXCEPT ![i] = r] IN
         /\ u \in Seq(ScanRow) /\ DOMAIN u = DOMAIN t /\ Len(u) = Len(t)
         /\ u[i] = r /\ \A j \in DOMAIN t : j # i => u[j] = t[j]
<1> DEFINE u == [t EXCEPT ![i] = r]
<1>1. DOMAIN t = 1..Len(t) /\ Len(t) \in Nat
  OBVIOUS
<1>2. u \in [1..Len(t) -> ScanRow]
  OBVIOUS
<1>3. u \in Seq(ScanRow)
  BY <1>1, <1>2
<1>4. Len(u) = Len(t)
  BY <1>1, <1>2, <1>3
<1> QED
  BY <1>1, <1>2, <1>3, <1>4

LEMMA StatusSet ==
  ASSUME NEW i \in DOMAIN scans, scans \in Seq(ScanRow), NEW s \in ScanStatus
  PROVE  LET u == WithStatus(i, s) IN
         /\ u \in Seq(ScanRow) /\ DOMAIN u = DOMAIN scans /\ Len(u) = Len(scans)
         /\ \A j \in DOMAIN scans : j # i => u[j] = scans[j]
         /\ u[i].status = s /\ u[i].commit = scans[i].commit /\ u[i].trigger = scans[i].trigger
<1> DEFINE r == [trigger |-> scans[i].trigger, status |-> s, commit |-> scans[i].commit]
<1>1. scans[i] \in ScanRow
  OBVIOUS
<1>2. r \in ScanRow /\ [scans[i] EXCEPT !.status = s] = r
  BY <1>1 DEF ScanRow
<1>3. WithStatus(i, s) = [scans EXCEPT ![i] = r]
  BY <1>2, Zenon DEF WithStatus
<1>4. r.status = s /\ r.commit = scans[i].commit /\ r.trigger = scans[i].trigger
  OBVIOUS
<1> HIDE DEF r
<1> QED
  BY <1>2, <1>3, <1>4, Replaced

LEMMA CommitSet ==
  ASSUME NEW i \in DOMAIN scans, scans \in Seq(ScanRow), NEW s \in ScanStatus, NEW c \in Commit
  PROVE  LET u == WithCommit(i, s, c) IN
         /\ u \in Seq(ScanRow) /\ DOMAIN u = DOMAIN scans /\ Len(u) = Len(scans)
         /\ \A j \in DOMAIN scans : j # i => u[j] = scans[j]
         /\ u[i].status = s /\ u[i].commit = c /\ u[i].trigger = scans[i].trigger
<1> DEFINE r == [trigger |-> scans[i].trigger, status |-> s, commit |-> c]
<1>1. scans[i] \in ScanRow /\ c \in 0..MaxCommit
  BY ScanTablesAssumption DEF Commit
<1>2. r \in ScanRow
  BY <1>1 DEF ScanRow
<1>3. WithCommit(i, s, c) = [scans EXCEPT ![i] = r]
  BY Zenon DEF WithCommit
<1>4. r.status = s /\ r.commit = c /\ r.trigger = scans[i].trigger
  OBVIOUS
<1> HIDE DEF r
<1> QED
  BY <1>2, <1>3, <1>4, Replaced

LEMMA JobIds ==
  /\ ScanJobId("install") \in JobId /\ ScanJobId("manual") \in JobId
  /\ \A n \in 1..MaxTicks : <<"scheduled", n>> \in JobId
  /\ \A q \in Request : TriggerOf(q) \in {"install", "manual"} /\ ScanJobId(TriggerOf(q)) \in JobId
  /\ \A j \in JobId : j[1] \in Trigger
BY DEF JobId, ScanJobId, TriggerOf, Trigger

(* The least-number principle.                                             *)
LEMMA Smallest ==
  ASSUME NEW S \in SUBSET Nat, S # {}
  PROVE  \E i \in S : \A j \in S : i <= j
<1> DEFINE R == OpToRel(<, Nat)
<1>1. \E x \in S : \A y \in S : ~(<<y, x>> \in R)
  <2>1. IsWellFoundedOn(R, Nat)
    BY NatLessThanWellFounded
  <2> HIDE DEF R
  <2> QED BY <2>1, WFMin
<1>2. \A x, y \in Nat : <<y, x>> \in R <=> y < x
  BY DEF OpToRel
<1>3. \E x \in S : \A y \in S : ~(y < x)
  BY <1>1, <1>2, Zenon
<1> HIDE DEF R
<1> QED
  BY <1>3

LEMMA FoundScan ==
  ASSUME scans \in Seq(ScanRow), NEW t \in Trigger, FindActiveScanRun(t) # 0
  PROVE  FindActiveScanRun(t) \in ActiveScans(t)
<1>1. ActiveScans(t) \in SUBSET Nat
  BY DEF ActiveScans
<1>2. ActiveScans(t) # {} => \E i \in ActiveScans(t) : \A j \in ActiveScans(t) : i <= j
  BY <1>1, Smallest
<1> QED
  BY <1>1, <1>2 DEF FindActiveScanRun

-----------------------------------------------------------------------------
(* What every step leaves of the rows there are: the trigger, and a commit *)
(* once it is known.                                                       *)
RowsKept ==
  /\ scans' \in Seq(ScanRow) /\ Len(scans') <= MaxScans /\ Len(scans) <= Len(scans')
  /\ \A i \in DOMAIN scans :
       /\ i \in DOMAIN scans' /\ scans'[i].trigger = scans[i].trigger
       /\ scans[i].commit # 0 => scans'[i].commit # 0

LEMMA RowIds ==
  ASSUME TypeInv
  PROVE  /\ scans \in Seq(ScanRow) /\ Len(scans) \in Nat /\ DOMAIN scans = 1..Len(scans)
         /\ DOMAIN scans \subseteq ScanId /\ Len(scans) <= MaxScans
         /\ \A i \in 0..MaxScans : i # 0 /\ i <= Len(scans) => i \in DOMAIN scans
BY ScanTablesAssumption DEF TypeInv, TypeOK, TablesTypeOK, ScanRow, ScanId

LEMMA RowsKeptUnchanged ==
  ASSUME TypeInv, UNCHANGED scans
  PROVE  RowsKept
BY RowIds DEF RowsKept

LEMMA RowsKeptInserted ==
  ASSUME TypeInv, NEW trigger \in Trigger, Len(scans) < MaxScans, scans' = Inserted(trigger)
  PROVE  RowsKept
BY RowIds, Appended, ScanTablesAssumption DEF RowsKept, Inserted

LEMMA RowsKeptUpdated ==
  ASSUME TypeInv, NEW i \in DOMAIN scans, NEW s \in ScanStatus,
         \/ scans' = WithStatus(i, s)
         \/ \E c \in Commit : scans' = WithCommit(i, s, c)
  PROVE  RowsKept
<1>1. CASE scans' = WithStatus(i, s)
  BY <1>1, RowIds, StatusSet DEF RowsKept
<1>2. ASSUME NEW c \in Commit, scans' = WithCommit(i, s, c)
      PROVE  RowsKept
  BY <1>2, RowIds, CommitSet, ScanTablesAssumption DEF RowsKept, Commit
<1> QED
  BY <1>1, <1>2

LEMMA WorkersRow ==
  ASSUME TypeInv, NEW w \in ScanWorker, wRun[w] # 0
  PROVE  wRun[w] \in DOMAIN scans
BY RowIds DEF TypeInv, TypeOK, PipelineTypeOK, WorkerInv, WorkerOK

(* The parts of TypeInv that a step leaves alone.                          *)
LEMMA QuietTables ==
  ASSUME TypeInv, UNCHANGED tableVars
  PROVE  TablesTypeOK' /\ JobInv'
BY DEF TypeInv, TypeOK, TablesTypeOK, JobInv, tableVars, jobVars

LEMMA QuietRequests ==
  ASSUME TypeInv, RowsKept, UNCHANGED <<kind, qPc, qRun>>
  PROVE  RequestInv'
BY DEF TypeInv, RequestInv, RowsKept, At, TriggerOf

LEMMA OtherWorkers ==
  ASSUME TypeInv, RowsKept, NEW w \in ScanWorker,
         wPc'[w] = wPc[w] /\ wJob'[w] = wJob[w] /\ wRun'[w] = wRun[w] /\ wCommit'[w] = wCommit[w]
  PROVE  WorkerOK(w)'
<1>1. WorkerOK(w) /\ wRun[w] \in 0..MaxScans
  BY DEF TypeInv, TypeOK, PipelineTypeOK, WorkerInv
<1>2. wPc[w] \in Started => scans'[wRun[w]].commit # 0
  BY <1>1, WorkersRow DEF WorkerOK, RowsKept, HasRun, Started, WorkerPc
<1>3. Len(scans) \in Nat /\ Len(scans') \in Nat /\ Len(scans) <= Len(scans')
  BY RowIds DEF RowsKept
<1> QED
  BY <1>1, <1>2, <1>3, ScanTablesAssumption DEF WorkerOK

LEMMA QuietWorkers ==
  ASSUME TypeInv, RowsKept, UNCHANGED workerVars
  PROVE  PipelineTypeOK' /\ WorkerInv'
<1>1. PipelineTypeOK'
  BY DEF TypeInv, TypeOK, PipelineTypeOK, workerVars
<1>2. WorkerInv'
  BY OtherWorkers DEF WorkerInv, workerVars, locals
<1> QED
  BY <1>1, <1>2

LEMMA InitTypeInv == Init => TypeInv
<1> SUFFICES ASSUME Init PROVE TypeInv
  OBVIOUS
<1> USE ScanTablesAssumption DEF Init, TablesInit, SchedulingInit, PipelineInit
<1>1. TablesTypeOK
  <2>1. scans \in Seq(ScanRow) /\ Len(scans) <= MaxScans
    OBVIOUS
  <2>2. 0 \in 0..MaxAttempts /\ 0 \in 0..(MaxStalled + 1) /\ 0 \in 0..MaxScans
    OBVIOUS
  <2> QED
    BY <2>1, <2>2 DEF TablesTypeOK, ScanRow, JobState, FindingStatus
<1>2. SchedulingTypeOK
  <2>1. PICK l \in Workload : kind = l.kind /\ scansEnabled = l.scansEnabled /\ faultsLeft = l.faults
    OBVIOUS
  <2>2. l.kind \in [Request -> Kind] /\ l.scansEnabled \in BOOLEAN /\ l.faults \in 0..MaxFaults
    BY SchedulingAssumption
  <2>3. kind \in [Request -> Kind] /\ scansEnabled \in BOOLEAN /\ faultsLeft \in 0..MaxFaults
    BY <2>1, <2>2, Zenon
  <2>4. /\ qPc \in [Request -> RequestPc] /\ qRun \in [Request -> 0..MaxScans]
        /\ abandoned \subseteq ScanId
    BY DEF RequestPc
  <2>5. /\ automation \in BOOLEAN /\ configured \in BOOLEAN
        /\ overlapped \in BOOLEAN /\ disturbed \in BOOLEAN
    BY Zenon
  <2> QED
    BY <2>3, <2>4, <2>5 DEF SchedulingTypeOK
<1>3. PipelineTypeOK
  <2>1. 1 \in Commit /\ 0 \in 0..MaxCommit /\ 0 \in 0..MaxScans
    BY DEF Commit
  <2> QED
    BY <2>1 DEF PipelineTypeOK, WorkerPc
<1>4. JobInv
  BY DEF JobInv
<1>5. WorkerInv /\ RequestInv
  BY DEF WorkerInv, WorkerOK, RequestInv, At, HasRun, KnowsCommit, Started
<1> QED
  BY <1>1, <1>2, <1>3, <1>4, <1>5 DEF TypeInv, TypeOK

-----------------------------------------------------------------------------
LEMMA FoundRow ==
  ASSUME TypeInv, NEW t \in Trigger, FindActiveScanRun(t) # 0
  PROVE  FindActiveScanRun(t) \in DOMAIN scans /\ scans[FindActiveScanRun(t)].trigger = t
BY RowIds, FoundScan DEF ActiveScans

(* A request that moves on, from its place or with a run of its own.       *)
LEMMA RequestMoves ==
  ASSUME TypeInv, RowsKept, UNCHANGED kind, NEW q \in Request, NEW pc \in RequestPc, Goto(q, pc),
         \A p \in Request \ {q} : qRun'[p] = qRun[p],
         pc \in {"enqueue", "markFailed"} =>
           qRun'[q] \in DOMAIN scans' /\ scans'[qRun'[q]].trigger = TriggerOf(q)
  PROVE  RequestInv'
BY DEF TypeInv, TypeOK, SchedulingTypeOK, RequestInv, RowsKept, At, Goto, TriggerOf

LEMMA RequestTypeInv ==
  ASSUME TypeInv, UNCHANGED workerVars, NEW q \in Request,
         RequestStep(q) \/ RequestFault(q) \/ RequestCrash(q)
  PROVE  TypeInv'
<1> USE DEF TypeInv, TypeOK, KeepSettings, KeepHistory, requestVars, historyVars, schedulingVars
<1>1. TriggerOf(q) \in Trigger /\ ScanJobId(TriggerOf(q)) \in JobId /\ scans \in Seq(ScanRow)
  BY JobIds, RowIds DEF Trigger
<1>2. SchedulingTypeOK /\ RequestInv
  OBVIOUS
<1>3. SUFFICES RowsKept /\ TablesTypeOK' /\ JobInv' /\ SchedulingTypeOK' /\ RequestInv'
  BY QuietWorkers
<1>4. CASE StartRequest(q)
  <2>1. RowsKept /\ TablesTypeOK' /\ JobInv'
    BY <1>4, RowsKeptUnchanged, QuietTables DEF StartRequest, tableVars
  <2>2. SchedulingTypeOK'
    BY <1>2, <1>4 DEF StartRequest, SchedulingTypeOK, Goto, RequestPc
  <2>3. RequestInv'
    BY <1>4, <2>1, RequestMoves DEF StartRequest, RequestPc
  <2> QED  BY <2>1, <2>2, <2>3
<1>5. CASE SaveConfiguration(q)
  <2>1. RowsKept /\ TablesTypeOK' /\ JobInv'
    BY <1>5, RowsKeptUnchanged, QuietTables DEF SaveConfiguration, tableVars
  <2>2. PICK pc \in {"saveRepository", "target", "remove", "done"} : Goto(q, pc)
    BY <1>5, Zenon DEF SaveConfiguration, AfterSave
  <2>3. SchedulingTypeOK'
    <3>1. configured' \in BOOLEAN /\ scansEnabled' \in BOOLEAN
      BY <1>2, <1>5, Zenon DEF SaveConfiguration, SchedulingTypeOK
    <3> QED
      BY <1>2, <1>5, <2>2, <3>1 DEF SaveConfiguration, SchedulingTypeOK, Goto, RequestPc
  <2>4. RequestInv'
    BY <1>5, <2>1, <2>2, RequestMoves DEF SaveConfiguration, RequestPc
  <2> QED  BY <2>1, <2>3, <2>4
<1>6. CASE SaveRepository(q)
  <2>1. RowsKept /\ TablesTypeOK' /\ JobInv'
    BY <1>6, RowsKeptUnchanged, QuietTables DEF SaveRepository, tableVars
  <2>2. SchedulingTypeOK'
    BY <1>2, <1>6 DEF SaveRepository, SchedulingTypeOK, AfterSave, Goto, RequestPc
  <2>3. RequestInv'
    BY <1>6, <2>1, RequestMoves DEF SaveRepository, AfterSave, RequestPc
  <2> QED  BY <2>1, <2>2, <2>3
<1>7. CASE FindTarget(q)
  <2>1. RowsKept /\ TablesTypeOK' /\ JobInv'
    BY <1>7, RowsKeptUnchanged, QuietTables DEF FindTarget, tableVars
  <2>2. PICK pc \in {"retarget", "done", "find", "schedule"} : Goto(q, pc)
    BY <1>7, Zenon DEF FindTarget
  <2>3. SchedulingTypeOK'
    BY <1>2, <1>7, <2>2 DEF FindTarget, SchedulingTypeOK, Goto, RequestPc
  <2>4. RequestInv'
    BY <1>7, <2>1, <2>2, RequestMoves DEF FindTarget, RequestPc
  <2> QED  BY <2>1, <2>3, <2>4
<1>8. CASE SetScheduler(q)
  <2>1. RowsKept /\ TablesTypeOK' /\ JobInv'
    BY <1>8, RowsKeptUnchanged DEF SetScheduler, TablesTypeOK, JobInv, jobVars
  <2>2. PICK pc \in {"find", "done"} : Goto(q, pc)
    BY <1>8, Zenon DEF SetScheduler
  <2>3. SchedulingTypeOK'
    BY <1>2, <1>8, <2>2 DEF SetScheduler, SchedulingTypeOK, Goto, RequestPc
  <2>4. RequestInv'
    BY <1>8, <2>1, <2>2, RequestMoves DEF SetScheduler, RequestPc
  <2> QED  BY <2>1, <2>3, <2>4
<1>9. CASE FindTargetAgain(q)
  <2>1. RowsKept /\ TablesTypeOK' /\ JobInv'
    BY <1>9, RowsKeptUnchanged, QuietTables DEF FindTargetAgain, tableVars
  <2>2. SchedulingTypeOK'
    BY <1>2, <1>9 DEF FindTargetAgain, SchedulingTypeOK, Goto, RequestPc
  <2>3. RequestInv'
    BY <1>9, <2>1, RequestMoves DEF FindTargetAgain, RequestPc
  <2> QED  BY <2>1, <2>2, <2>3
<1>10. CASE FindActive(q)
  <2> DEFINE i == FindActiveScanRun(TriggerOf(q))
  <2>1. RowsKept /\ TablesTypeOK' /\ JobInv'
    BY <1>10, RowsKeptUnchanged, QuietTables DEF FindActive, tableVars
  <2>2. qRun' = [qRun EXCEPT ![q] = i] /\ qRun'[q] = i
    BY <1>2, <1>10 DEF FindActive, SchedulingTypeOK
  <2>3. PICK pc \in {"enqueue", "insert", "done"} : Goto(q, pc) /\ (pc = "enqueue" => i # 0)
    BY <1>10, <2>2, Zenon DEF FindActive
  <2>4. i # 0 => i \in DOMAIN scans /\ scans[i].trigger = TriggerOf(q)
    BY <1>1, FoundRow
  <2>5. i \in 0..MaxScans
    BY <2>4, RowIds, ScanTablesAssumption DEF ScanId
  <2> HIDE DEF i
  <2>6. SchedulingTypeOK'
    BY <1>2, <1>10, <2>2, <2>3, <2>5 DEF FindActive, SchedulingTypeOK, Goto, RequestPc
  <2>7. RequestInv'
    BY <1>2, <1>10, <2>1, <2>2, <2>3, <2>4, RequestMoves
       DEF FindActive, RequestPc, SchedulingTypeOK, tableVars
  <2> QED  BY <2>1, <2>6, <2>7
<1>11. CASE InsertScanRun(q)
  <2>1. RowsKept
    BY <1>1, <1>11, RowsKeptUnchanged, RowsKeptInserted DEF InsertScanRun
  <2>2. TablesTypeOK' /\ JobInv'
    BY <1>11, <2>1, RowIds DEF InsertScanRun, TablesTypeOK, JobInv, RowsKept, ScanRow, jobVars
  <2>3. CASE scans' = Inserted(TriggerOf(q)) /\ qRun' = [qRun EXCEPT ![q] = Len(scans) + 1]
             /\ Goto(q, "enqueue")
    <3>1. Len(scans) + 1 \in 0..MaxScans
      BY <1>11, RowIds, ScanTablesAssumption DEF InsertScanRun
    <3>2. SchedulingTypeOK'
      BY <1>2, <1>11, <2>3, <3>1 DEF InsertScanRun, SchedulingTypeOK, Goto, RequestPc
    <3>3. Len(scans) + 1 \in DOMAIN scans' /\ scans'[Len(scans) + 1].trigger = TriggerOf(q)
      BY <1>1, <2>3, Appended DEF Inserted, QueuedScan
    <3>4. RequestInv'
      BY <1>2, <1>11, <2>1, <2>3, <3>3, RequestMoves DEF InsertScanRun, RequestPc, SchedulingTypeOK
    <3> QED  BY <2>1, <2>2, <3>2, <3>4
  <2>4. CASE Goto(q, "findAgain") /\ UNCHANGED <<scans, qRun>>
    <3>1. SchedulingTypeOK'
      BY <1>2, <1>11, <2>4 DEF InsertScanRun, SchedulingTypeOK, Goto, RequestPc
    <3>2. RequestInv'
      BY <1>11, <2>1, <2>4, RequestMoves DEF InsertScanRun, RequestPc
    <3> QED  BY <2>1, <2>2, <3>1, <3>2
  <2> QED  BY <1>11, <2>3, <2>4 DEF InsertScanRun
<1>12. CASE Enqueue(q)
  <2>1. RowsKept
    BY <1>12, RowsKeptUnchanged DEF Enqueue
  <2>2. qRun[q] \in DOMAIN scans /\ qRun[q] \in 1..Len(scans) /\ qRun[q] \in 0..MaxScans
    BY <1>12, RowIds DEF Enqueue, RequestInv, ScanId
  <2>3. TablesTypeOK' /\ JobInv'
    <3>1. ScanJobId(TriggerOf(q)) \in JobId /\ qRun[q] <= Len(scans) /\ qRun[q] # 0
      BY <1>1, <2>2, RowIds
    <3>2. UNCHANGED <<scans, findings, scheduler>> /\ EnqueueCodebaseScan(ScanJobId(TriggerOf(q)), qRun[q])
      BY <1>12 DEF Enqueue
    <3>3. TablesTypeOK'
      BY <2>2, <3>1, <3>2 DEF EnqueueCodebaseScan, TablesTypeOK, JobState
    <3>4. JobInv'
      BY <3>1, <3>2 DEF EnqueueCodebaseScan, TablesTypeOK, JobInv, JobState
    <3> QED  BY <3>3, <3>4
  <2>4. SchedulingTypeOK'
    BY <1>2, <1>12 DEF Enqueue, SchedulingTypeOK, AfterEnqueue, Goto, RequestPc
  <2>5. RequestInv'
    BY <1>12, <2>1, RequestMoves DEF Enqueue, AfterEnqueue, RequestPc
  <2> QED  BY <2>1, <2>3, <2>4, <2>5
<1>13. CASE MarkEnqueueFailed(q)
  <2>1. qRun[q] \in DOMAIN scans
    BY <1>13 DEF MarkEnqueueFailed, RequestInv
  <2>2. RowsKept
    BY <1>13, <2>1, RowsKeptUpdated DEF MarkEnqueueFailed, ScanStatus
  <2>3. TablesTypeOK' /\ JobInv'
    BY <1>13, <2>2, RowIds DEF MarkEnqueueFailed, TablesTypeOK, JobInv, RowsKept, ScanRow, jobVars
  <2>4. SchedulingTypeOK'
    BY <1>2, <1>13 DEF MarkEnqueueFailed, SchedulingTypeOK, Goto, RequestPc
  <2>5. RequestInv'
    BY <1>13, <2>2, RequestMoves DEF MarkEnqueueFailed, RequestPc
  <2> QED  BY <2>2, <2>3, <2>4, <2>5
<1>14. CASE RequestFault(q) \/ RequestCrash(q)
  <2>1. RowsKept /\ TablesTypeOK' /\ JobInv'
    BY <1>14, RowsKeptUnchanged, QuietTables DEF RequestFault, RequestCrash, tableVars
  <2>2. PICK pc \in {"findAgain", "markFailed", "done"} :
          Goto(q, pc) /\ (pc = "markFailed" => At(q, "enqueue"))
    BY <1>14, Zenon DEF RequestFault, RequestCrash, AfterFailedCall
  <2>3. /\ UNCHANGED <<kind, automation, configured, scansEnabled, qRun, scans, disturbed>>
        /\ faultsLeft > 0 /\ faultsLeft' = faultsLeft - 1
        /\ overlapped' = (overlapped \/ Updates(q))
    BY <1>14 DEF RequestFault, RequestCrash, tableVars
  <2>4. abandoned' \subseteq ScanId
    BY <1>2, <1>14, RowIds DEF RequestFault, RequestCrash, SchedulingTypeOK, RequestInv
  <2>5. SchedulingTypeOK'
    <3>1. faultsLeft' \in 0..MaxFaults
      BY <1>2, <2>3, SchedulingAssumption DEF SchedulingTypeOK
    <3>2. overlapped' \in BOOLEAN
      BY <2>3, Zenon
    <3> QED
      BY <1>2, <2>2, <2>3, <2>4, <3>1, <3>2 DEF SchedulingTypeOK, Goto, RequestPc
  <2>6. RequestInv'
    BY <1>2, <2>1, <2>2, <2>3, RequestMoves DEF RequestInv, RequestPc
  <2> QED  BY <2>1, <2>5, <2>6
<1> QED
  BY <1>4, <1>5, <1>6, <1>7, <1>8, <1>9, <1>10, <1>11, <1>12, <1>13, <1>14 DEF RequestStep

(* A rejected job waits again or, with its attempts spent, has failed.      *)
LEMMA JobRejected ==
  ASSUME TablesTypeOK, JobInv, NEW w \in ScanWorker, NEW j \in JobId, RejectJob(w, j), scans' = scans
  PROVE  JobInv'
<1> DEFINE OK(i) == /\ jobState[i] \in {"none", "waiting", "active"} =>
                         attempts[i] < MaxAttempts /\ stalls[i] <= MaxStalled
                    /\ lock[i] # NoWorker <=> jobState[i] = "active"
                    /\ jobRun[i] <= Len(scans)
                    /\ i[1] # "scheduled" /\ jobState[i] # "none" => jobRun[i] # 0
<1>1. \A i \in JobId : OK(i)
  BY DEF JobInv
<1>2. stalls' = stalls /\ jobRun' = jobRun
  BY DEF RejectJob
<1>3. ASSUME NEW i \in JobId, jobState'[i] = jobState[i], attempts'[i] = attempts[i], lock'[i] = lock[i]
      PROVE  OK(i)'
  BY <1>1, <1>2, <1>3
<1>4. CASE lock[j] # w
  <2>1. UNCHANGED <<jobState, attempts, lock>>
    BY <1>4 DEF RejectJob
  <2> QED  BY <1>3, <2>1 DEF JobInv
<1>5. CASE lock[j] = w
  <2>1. /\ attempts'[j] = attempts[j] + 1 /\ lock'[j] = NoWorker
        /\ jobState'[j] = IF attempts[j] + 1 < MaxAttempts THEN "waiting" ELSE "failed"
    BY <1>5 DEF RejectJob, TablesTypeOK
  <2>2. jobState[j] = "active"
    BY <1>1, <1>5, ScanTablesAssumption
  <2>3. OK(j)'
    BY <1>1, <1>2, <2>1, <2>2
  <2>4. ASSUME NEW i \in JobId, i # j PROVE OK(i)'
    BY <1>3, <1>5, <2>4 DEF RejectJob, TablesTypeOK
  <2> QED  BY <2>3, <2>4 DEF JobInv
<1> QED
  BY <1>4, <1>5

-----------------------------------------------------------------------------
LEMMA WorkerTypeInv ==
  ASSUME TypeInv, NEW w \in ScanWorker, WorkerStep(w) \/ WorkerFault(w) \/ WorkerCrash(w)
  PROVE  TypeInv'
<1> USE DEF TypeInv, TypeOK, KeepTables, OnlyWorkerPc, requestVars, historyVars, schedulingVars,
            locals, WorkerAt
<1>1. /\ WorkerOK(w) /\ PipelineTypeOK /\ SchedulingTypeOK /\ wRun[w] \in 0..MaxScans
      /\ scans \in Seq(ScanRow)
  BY RowIds DEF PipelineTypeOK, WorkerInv
<1>2. wPc[w] \in HasRun => wRun[w] \in DOMAIN scans /\ wRun[w] \in ScanId
  BY <1>1, WorkersRow, RowIds DEF WorkerOK
<1>3. wCommit[w] # 0 => wCommit[w] \in Commit
  BY <1>1, ScanTablesAssumption DEF PipelineTypeOK, Commit
<1>4. ASSUME RowsKept, WorkerOK(w)', UNCHANGED <<kind, qPc, qRun>>,
             \A v \in ScanWorker \ {w} :
               wPc'[v] = wPc[v] /\ wJob'[v] = wJob[v] /\ wRun'[v] = wRun[v] /\ wCommit'[v] = wCommit[v]
      PROVE  WorkerInv' /\ RequestInv'
  BY <1>4, QuietRequests, OtherWorkers DEF WorkerInv
<1>5. ASSUME NEW j \in JobId, Take(w, j)
      PROVE  TypeInv'
  <2>1. RowsKept
    BY <1>5, RowsKeptUnchanged DEF Take
  <2>2. TablesTypeOK' /\ JobInv'
    BY <1>5, ScanTablesAssumption DEF Take, TakeJob, TablesTypeOK, JobInv, JobState
  <2>3. SchedulingTypeOK'
    BY <1>1, <1>5 DEF Take, SchedulingTypeOK
  <2>4. jobRun[j] \in 0..MaxScans /\ jobRun[j] <= Len(scans)
    BY DEF TablesTypeOK, JobInv
  <2>5. PipelineTypeOK'
    BY <1>1, <1>5, <2>4 DEF Take, WorkerGoto, PipelineTypeOK, WorkerPc
  <2>6. WorkerOK(w)'
    BY <1>1, <1>5, <2>4 DEF Take, WorkerGoto, PipelineTypeOK, WorkerPc, WorkerOK, HasRun, KnowsCommit, Started
  <2> QED  BY <1>4, <1>1, <1>5, <2>1, <2>2, <2>3, <2>5, <2>6 DEF Take, WorkerGoto, PipelineTypeOK
<1>6. CASE CreateScan(w)
  <2>1. RowsKept
    BY <1>6, RowsKeptUnchanged, RowsKeptInserted DEF CreateScan, Trigger
  <2>2. TablesTypeOK' /\ JobInv'
    BY <1>6, <2>1, RowIds DEF CreateScan, TablesTypeOK, JobInv, RowsKept, ScanRow, jobVars
  <2>3. SchedulingTypeOK'
    BY <1>1, <1>6 DEF CreateScan, SchedulingTypeOK
  <2>4. CASE scans' = Inserted("scheduled") /\ wRun' = [wRun EXCEPT ![w] = Len(scans) + 1]
             /\ WorkerGoto(w, "assertEnabled")
    <3> DEFINE t == "scheduled"
    <3>a. t \in Trigger /\ Len(scans) < MaxScans /\ Len(scans) \in Nat
      BY <1>6, RowIds DEF CreateScan, Trigger
    <3>b. Len(scans') = Len(scans) + 1
      BY <1>1, <2>4, <3>a, Appended DEF Inserted
    <3>1. Len(scans) + 1 \in 1..MaxScans /\ Len(scans') = Len(scans) + 1
      BY <3>a, <3>b, ScanTablesAssumption
    <3>2. PipelineTypeOK'
      BY <1>1, <1>6, <2>4, <3>1 DEF CreateScan, WorkerGoto, PipelineTypeOK, WorkerPc
    <3>3. WorkerOK(w)'
      BY <1>1, <1>6, <2>4, <3>1 DEF CreateScan, WorkerGoto, PipelineTypeOK, WorkerOK, HasRun, KnowsCommit, Started
    <3> QED  BY <1>4, <1>1, <1>6, <2>1, <2>2, <2>3, <2>4, <3>2, <3>3 DEF CreateScan, WorkerGoto, PipelineTypeOK
  <2>5. CASE WorkerGoto(w, "raise") /\ UNCHANGED <<scans, wRun>>
    <3>1. PipelineTypeOK'
      BY <1>1, <1>6, <2>5 DEF CreateScan, WorkerGoto, PipelineTypeOK, WorkerPc
    <3>2. WorkerOK(w)'
      BY <1>1, <1>6, <2>5 DEF CreateScan, WorkerGoto, PipelineTypeOK, WorkerOK, HasRun, KnowsCommit, Started
    <3> QED  BY <1>4, <1>1, <1>6, <2>1, <2>2, <2>3, <2>5, <3>1, <3>2 DEF CreateScan, WorkerGoto, PipelineTypeOK
  <2> QED  BY <1>6, <2>4, <2>5 DEF CreateScan
<1>7. CASE AssertRepositoryEnabled(w) \/ HasSuccessful(w) \/ ReadOwnStatus(w)
  <2>1. PICK pc \in {"fetchSha", "markFailed", "markSuperseded", "markRunning", "resolve", "markAgain"} :
          /\ WorkerGoto(w, pc)
          /\ pc \in {"markSuperseded", "markRunning"} => wPc[w] = "hasSuccessful"
          /\ pc \in {"resolve", "markAgain"} => wPc[w] = "readStatus"
          /\ wPc[w] \in {"assertEnabled", "hasSuccessful", "readStatus"}
    BY <1>7, Zenon DEF AssertRepositoryEnabled, HasSuccessful, ReadOwnStatus
  <2>2. UNCHANGED <<tableVars, branchHead, locals, byHand, latest, scanned, schedulingVars>>
    BY <1>7 DEF AssertRepositoryEnabled, HasSuccessful, ReadOwnStatus
  <2>3. RowsKept /\ TablesTypeOK' /\ JobInv'
    BY <2>2, RowsKeptUnchanged, QuietTables DEF tableVars
  <2>4. SchedulingTypeOK'
    BY <1>1, <2>2 DEF SchedulingTypeOK
  <2>5. PipelineTypeOK'
    BY <1>1, <2>1, <2>2 DEF WorkerGoto, PipelineTypeOK, WorkerPc
  <2>6. WorkerOK(w)'
    BY <1>1, <2>1, <2>2 DEF tableVars, WorkerGoto, PipelineTypeOK, WorkerOK, WorkerPc, HasRun, KnowsCommit, Started
  <2> QED  BY <1>4, <1>1, <2>1, <2>2, <2>3, <2>4, <2>5, <2>6 DEF WorkerGoto, PipelineTypeOK
<1>8. CASE FetchDefaultBranchSha(w)
  <2>1. RowsKept /\ TablesTypeOK' /\ JobInv'
    BY <1>8, RowsKeptUnchanged, QuietTables DEF FetchDefaultBranchSha, tableVars
  <2>2. SchedulingTypeOK'
    <3>1. disturbed' \in BOOLEAN
      BY <1>8, Zenon DEF FetchDefaultBranchSha
    <3> QED  BY <1>1, <1>8, <3>1 DEF FetchDefaultBranchSha, SchedulingTypeOK
  <2>3. PipelineTypeOK'
    BY <1>1, <1>8, ScanTablesAssumption DEF FetchDefaultBranchSha, WorkerGoto, PipelineTypeOK, WorkerPc, Commit
  <2>4. WorkerOK(w)'
    BY <1>1, <1>8 DEF FetchDefaultBranchSha, tableVars, WorkerGoto, PipelineTypeOK, WorkerOK, WorkerPc,
       HasRun, KnowsCommit, Started, Commit
  <2> QED  BY <1>4, <1>1, <1>8, <2>1, <2>2, <2>3, <2>4 DEF FetchDefaultBranchSha, WorkerGoto, PipelineTypeOK
<1>9. CASE MarkSuperseded(w)
  <2>1. RowsKept
    BY <1>1, <1>2, <1>3, <1>9, RowsKeptUpdated DEF MarkSuperseded, WorkerOK, KnowsCommit, HasRun, WorkerPc, ScanStatus
  <2>2. TablesTypeOK' /\ JobInv'
    BY <1>9, <2>1, RowIds DEF MarkSuperseded, TablesTypeOK, JobInv, RowsKept, ScanRow, jobVars
  <2>3. SchedulingTypeOK'
    BY <1>1, <1>9 DEF MarkSuperseded, SchedulingTypeOK
  <2>4. PipelineTypeOK'
    BY <1>1, <1>9 DEF MarkSuperseded, WorkerGoto, PipelineTypeOK, WorkerPc
  <2>5. WorkerOK(w)'
    BY <1>1, <1>9, <2>1, RowIds DEF MarkSuperseded, WorkerGoto, PipelineTypeOK, WorkerOK, WorkerPc,
       HasRun, KnowsCommit, Started, RowsKept
  <2> QED  BY <1>4, <1>1, <1>9, <2>1, <2>2, <2>3, <2>4, <2>5 DEF MarkSuperseded, WorkerGoto, PipelineTypeOK
<1>10. CASE MarkRunning(w)
  <2>1. wRun[w] \in DOMAIN scans /\ wCommit[w] \in Commit /\ wPc[w] = "markRunning"
    BY <1>1, <1>2, <1>3, <1>10 DEF MarkRunning, WorkerOK, KnowsCommit, HasRun, WorkerPc
  <2>2. RowsKept
    BY <1>10, <2>1, RowsKeptUpdated, RowsKeptUnchanged DEF MarkRunning, ScanStatus
  <2>3. TablesTypeOK' /\ JobInv'
    BY <1>10, <2>2, RowIds DEF MarkRunning, TablesTypeOK, JobInv, RowsKept, ScanRow, jobVars
  <2>4. SchedulingTypeOK'
    BY <1>1, <1>10 DEF MarkRunning, SchedulingTypeOK
  <2>5. PipelineTypeOK'
    <3>1. wTodo' \in [ScanWorker -> SUBSET Key]
      BY <1>1, <1>10, <2>1, PipelineAssumption DEF MarkRunning, PipelineTypeOK
    <3> QED
      BY <1>1, <1>10, <3>1 DEF MarkRunning, WorkerGoto, PipelineTypeOK, WorkerPc
  <2>6. CASE scans' = WithCommit(wRun[w], "running", wCommit[w]) /\ WorkerGoto(w, "upsert")
    <3>1. scans'[wRun[w]].commit = wCommit[w] /\ wCommit[w] # 0
      BY <1>1, <2>1, <2>6, CommitSet, ScanTablesAssumption DEF ScanStatus, Commit
    <3>2. WorkerOK(w)'
      BY <1>1, <1>10, <2>2, <2>6, <3>1, RowIds DEF MarkRunning, WorkerGoto, PipelineTypeOK, WorkerOK,
         WorkerPc, HasRun, KnowsCommit, Started, RowsKept
    <3> QED  BY <1>4, <1>1, <1>10, <2>2, <2>3, <2>4, <2>5, <2>6, <3>2 DEF MarkRunning, WorkerGoto, PipelineTypeOK
  <2>7. CASE WorkerGoto(w, "markFailed") /\ UNCHANGED scans
    <3>1. WorkerOK(w)'
      BY <1>1, <1>10, <2>7 DEF MarkRunning, WorkerGoto, PipelineTypeOK, WorkerOK,
         WorkerPc, HasRun, KnowsCommit, Started
    <3> QED  BY <1>4, <1>1, <1>10, <2>2, <2>3, <2>4, <2>5, <2>7, <3>1 DEF MarkRunning, WorkerGoto, PipelineTypeOK
  <2> QED  BY <1>10, <2>6, <2>7 DEF MarkRunning
<1>11. ASSUME NEW k \in Key, UpsertFinding(w, k)
       PROVE  TypeInv'
  <2>1. RowsKept
    BY <1>11, RowsKeptUnchanged DEF UpsertFinding
  <2>2. TablesTypeOK' /\ JobInv'
    BY <1>11 DEF UpsertFinding, TablesTypeOK, JobInv, jobVars, FindingStatus
  <2>3. SchedulingTypeOK'
    BY <1>1, <1>11 DEF UpsertFinding, SchedulingTypeOK
  <2>4. PipelineTypeOK'
    BY <1>1, <1>11 DEF UpsertFinding, PipelineTypeOK
  <2>5. WorkerOK(w)'
    BY <1>1, <1>11 DEF UpsertFinding, WorkerOK
  <2> QED  BY <1>4, <1>11, <2>1, <2>2, <2>3, <2>4, <2>5 DEF UpsertFinding
<1>12. CASE MarkSucceeded(w)
  <2>1. /\ wRun[w] \in DOMAIN scans /\ wRun[w] \in ScanId /\ wPc[w] \in {"upsert", "markAgain"}
        /\ scans[wRun[w]].commit # 0
    BY <1>1, <1>2, <1>12 DEF MarkSucceeded, UpsertsDone, WorkerOK, Started, HasRun, WorkerPc
  <2>2. RowsKept
    BY <1>12, <2>1, RowsKeptUpdated, RowsKeptUnchanged DEF MarkSucceeded, ScanStatus
  <2>3. TablesTypeOK' /\ JobInv'
    BY <1>12, <2>2, RowIds DEF MarkSucceeded, TablesTypeOK, JobInv, RowsKept, ScanRow, jobVars
  <2>4. SchedulingTypeOK'
    BY <1>1, <1>12 DEF MarkSucceeded, SchedulingTypeOK
  <2>5. PICK pc \in {"readStatus", "return", "markFailed"} : WorkerGoto(w, pc)
    BY <1>12, Zenon DEF MarkSucceeded
  <2>6. scans[wRun[w]].commit \in Commit
    <3>1. scans[wRun[w]] \in ScanRow
      BY <1>1, <2>1
    <3> QED  BY <2>1, <3>1, ScanTablesAssumption DEF ScanRow, Commit
  <2>7. scanned' \subseteq ScanId \X Commit
    BY <1>1, <1>12, <2>1, <2>6 DEF MarkSucceeded, PipelineTypeOK
  <2>8. PipelineTypeOK'
    BY <1>1, <1>12, <2>5, <2>7 DEF MarkSucceeded, WorkerGoto, PipelineTypeOK, WorkerPc
  <2>9. WorkerOK(w)'
    BY <1>1, <1>12, <2>1, <2>2, <2>5, RowIds
       DEF MarkSucceeded, WorkerGoto, PipelineTypeOK, WorkerOK, WorkerPc, HasRun, KnowsCommit, Started, RowsKept
  <2> QED
    BY <1>4, <1>1, <1>12, <2>2, <2>3, <2>4, <2>5, <2>8, <2>9 DEF MarkSucceeded, WorkerGoto, PipelineTypeOK
<1>13. CASE ResolveStaleFindings(w)
  <2>1. RowsKept
    BY <1>13, RowsKeptUnchanged DEF ResolveStaleFindings
  <2>2. TablesTypeOK' /\ JobInv'
    BY <1>13 DEF ResolveStaleFindings, TablesTypeOK, JobInv, jobVars, FindingStatus
  <2>3. SchedulingTypeOK'
    BY <1>1, <1>13 DEF ResolveStaleFindings, SchedulingTypeOK
  <2>4. PipelineTypeOK'
    BY <1>1, <1>13 DEF ResolveStaleFindings, WorkerGoto, PipelineTypeOK, WorkerPc
  <2>5. WorkerOK(w)'
    BY <1>1, <1>13 DEF ResolveStaleFindings, WorkerGoto, PipelineTypeOK, WorkerOK, WorkerPc, HasRun,
       KnowsCommit, Started
  <2> QED
    BY <1>4, <1>1, <1>13, <2>1, <2>2, <2>3, <2>4, <2>5 DEF ResolveStaleFindings, WorkerGoto, PipelineTypeOK
<1>14. CASE MarkScanFailed(w)
  <2>1. wRun[w] \in DOMAIN scans
    BY <1>2, <1>14 DEF MarkScanFailed, HasRun, WorkerPc
  <2>2. RowsKept
    BY <1>14, <2>1, RowsKeptUpdated DEF MarkScanFailed, ScanStatus
  <2>3. TablesTypeOK' /\ JobInv'
    BY <1>14, <2>2, RowIds DEF MarkScanFailed, TablesTypeOK, JobInv, RowsKept, ScanRow, jobVars
  <2>4. SchedulingTypeOK'
    <3>1. disturbed' \in BOOLEAN
      BY <1>14, Zenon DEF MarkScanFailed
    <3> QED  BY <1>1, <1>14, <3>1 DEF MarkScanFailed, SchedulingTypeOK
  <2>5. PipelineTypeOK'
    BY <1>1, <1>14 DEF MarkScanFailed, WorkerGoto, PipelineTypeOK, WorkerPc
  <2>6. WorkerOK(w)'
    BY <1>1, <1>14, <2>2, RowIds DEF MarkScanFailed, WorkerGoto, PipelineTypeOK, WorkerOK, WorkerPc, HasRun,
       KnowsCommit, Started, RowsKept
  <2> QED
    BY <1>4, <1>1, <1>14, <2>2, <2>3, <2>4, <2>5, <2>6 DEF MarkScanFailed, WorkerGoto, PipelineTypeOK
<1>15. CASE EndAttempt(w)
  <2>1. RowsKept
    BY <1>15, RowsKeptUnchanged DEF EndAttempt
  <2>2. wJob[w] \in JobId
    BY <1>1, <1>15 DEF EndAttempt, WorkerOK
  <2>3. UNCHANGED <<scans, findings, scheduler>>
    BY <1>15 DEF EndAttempt
  <2>4. TablesTypeOK' /\ JobInv'
    <3>1. CASE CompleteJob(w, wJob[w])
      BY <2>2, <2>3, <3>1, ScanTablesAssumption DEF CompleteJob, TablesTypeOK, JobInv, JobState
    <3>2. CASE RejectJob(w, wJob[w])
      <4>1. lock[wJob[w]] = w => attempts[wJob[w]] + 1 \in 0..MaxAttempts /\ jobState[wJob[w]] = "active"
        BY <2>2, ScanTablesAssumption DEF TablesTypeOK, JobInv
      <4>2. TablesTypeOK'
        BY <2>2, <2>3, <3>2, <4>1, ScanTablesAssumption DEF RejectJob, TablesTypeOK, JobState
      <4>3. JobInv'
        BY <2>2, <2>3, <3>2, JobRejected DEF TypeInv, TypeOK
      <4> QED  BY <4>2, <4>3
    <3> QED  BY <1>15, <3>1, <3>2 DEF EndAttempt
  <2>5. SchedulingTypeOK'
    BY <1>1, <1>15 DEF EndAttempt, SchedulingTypeOK
  <2>6. PipelineTypeOK'
    BY <1>1, <1>15, ScanTablesAssumption DEF EndAttempt, Forget, WorkerGoto, PipelineTypeOK, WorkerPc
  <2>7. WorkerOK(w)'
    BY <1>1, <1>15, RowIds DEF EndAttempt, Forget, WorkerGoto, PipelineTypeOK, WorkerOK, WorkerPc, HasRun,
       KnowsCommit, Started
  <2> QED
    BY <1>4, <1>1, <1>15, <2>1, <2>4, <2>5, <2>6, <2>7 DEF EndAttempt, Forget, WorkerGoto, PipelineTypeOK
<1>16. CASE WorkerFault(w) \/ WorkerCrash(w)
  <2>1. RowsKept /\ TablesTypeOK' /\ JobInv'
    BY <1>16, RowsKeptUnchanged, QuietTables DEF WorkerFault, WorkerCrash, tableVars
  <2>2. SchedulingTypeOK'
    <3>1. faultsLeft' \in 0..MaxFaults
      BY <1>1, <1>16, SchedulingAssumption DEF SchedulingTypeOK, WorkerFault, WorkerCrash
    <3>2. disturbed' \in BOOLEAN
      BY <1>16, Zenon DEF WorkerFault, WorkerCrash
    <3>3. abandoned' \subseteq ScanId
      <4>1. wRun[w] # 0 => wRun[w] \in ScanId
        BY <1>1, ScanTablesAssumption DEF ScanId
      <4>2. wPc[w] = "markFailed" => wRun[w] # 0
        BY <1>1 DEF WorkerOK, HasRun, WorkerPc
      <4>3. abandoned \subseteq ScanId
        BY <1>1 DEF SchedulingTypeOK
      <4>4. CASE abandoned' = abandoned
        BY <4>3, <4>4
      <4>5. CASE abandoned' = abandoned \cup {wRun[w]} /\ wRun[w] # 0
        BY <4>1, <4>3, <4>5
      <4> QED  BY <1>16, <4>2, <4>4, <4>5 DEF WorkerFault, WorkerCrash
    <3> QED
      BY <1>1, <1>16, <3>1, <3>2, <3>3 DEF SchedulingTypeOK, WorkerFault, WorkerCrash
  <2>3. PipelineTypeOK' /\ WorkerOK(w)'
    <3>1. CASE WorkerFault(w)
      <4>1. PICK pc \in {"raise", "markFailed"} :
              WorkerGoto(w, pc) /\ (pc = "markFailed" => wPc[w] \in HasRun)
        BY <1>1, <3>1 DEF WorkerFault, HasRun, PipelineTypeOK
      <4>2. UNCHANGED <<scans, branchHead, wJob, wRun, wCommit, wTodo, scanned, byHand, latest>>
            /\ wPc[w] # "idle"
        BY <3>1 DEF WorkerFault, tableVars
      <4> QED
        BY <1>1, <4>1, <4>2 DEF WorkerGoto, PipelineTypeOK, WorkerOK, WorkerPc, HasRun, KnowsCommit, Started
    <3>2. CASE WorkerCrash(w)
      BY <1>1, <3>2, RowIds, ScanTablesAssumption
         DEF WorkerCrash, tableVars, Forget, WorkerGoto, PipelineTypeOK, WorkerOK, WorkerPc, HasRun, KnowsCommit, Started
    <3> QED  BY <1>16, <3>1, <3>2
  <2> QED
    BY <1>4, <1>1, <1>16, <2>1, <2>2, <2>3 DEF WorkerFault, WorkerCrash, Forget, WorkerGoto, PipelineTypeOK
<1> QED
  BY <1>5, <1>6, <1>7, <1>8, <1>9, <1>10, <1>11, <1>12, <1>13, <1>14, <1>15, <1>16 DEF WorkerStep

LEMMA TypeInvStep == TypeInv /\ [Next]_vars => TypeInv'
<1> SUFFICES ASSUME TypeInv, [Next]_vars PROVE TypeInv'
  OBVIOUS
<1> USE DEF TypeInv, TypeOK, schedulingVars, requestVars, historyVars, workerVars, locals
<1>1. CASE PushToDefaultBranch
  <2>1. RowsKept /\ TablesTypeOK' /\ JobInv' /\ RequestInv'
    BY <1>1, RowsKeptUnchanged, QuietTables, QuietRequests DEF PushToDefaultBranch, tableVars
  <2>2. SchedulingTypeOK' /\ PipelineTypeOK'
    BY <1>1, ScanTablesAssumption DEF PushToDefaultBranch, SchedulingTypeOK, PipelineTypeOK, Commit
  <2>3. WorkerInv'
    BY <1>1, <2>1, OtherWorkers DEF PushToDefaultBranch, WorkerInv
  <2> QED  BY <2>1, <2>2, <2>3
<1>2. CASE SchedulerTick /\ UNCHANGED workerVars
  <2>1. RowsKept /\ RequestInv' /\ PipelineTypeOK' /\ WorkerInv'
    BY <1>2, RowsKeptUnchanged, QuietRequests, QuietWorkers DEF SchedulerTick
  <2>2. SchedulingTypeOK'
    BY <1>2 DEF SchedulerTick, SchedulingTypeOK
  <2>3. PICK n \in 1..MaxTicks : /\ jobState[<<"scheduled", n>>] = "none"
                                /\ jobState' = [jobState EXCEPT ![<<"scheduled", n>>] = "waiting"]
    BY <1>2 DEF SchedulerTick
  <2>4. <<"scheduled", n>> \in JobId /\ UNCHANGED <<jobRun, attempts, stalls, lock, scans, findings, scheduler>>
    BY <1>2, JobIds DEF SchedulerTick
  <2>5. TablesTypeOK'
    BY <2>3, <2>4 DEF TablesTypeOK, JobState
  <2>6. JobInv'
    <3>1. <<"scheduled", n>>[1] = "scheduled" /\ JobInv /\ jobState \in [JobId -> JobState]
      BY DEF TablesTypeOK
    <3>2. \A j \in JobId : j # <<"scheduled", n>> => jobState'[j] = jobState[j]
      BY <2>3, <3>1
    <3>3. jobState'[<<"scheduled", n>>] = "waiting"
      BY <2>3, <2>4, <3>1
    <3> QED  BY <2>3, <2>4, <3>1, <3>2, <3>3 DEF JobInv
  <2> QED  BY <2>1, <2>2, <2>5, <2>6
<1>3. CASE \E q \in Request : (RequestStep(q) \/ RequestFault(q) \/ RequestCrash(q)) /\ UNCHANGED workerVars
  BY <1>3, RequestTypeInv
<1>4. CASE \E w \in ScanWorker : WorkerStep(w) \/ WorkerFault(w) \/ WorkerCrash(w)
  BY <1>4, WorkerTypeInv
<1>5. ASSUME NEW j \in JobId, JobStalls(j)
      PROVE  TypeInv'
  <2>1. RowsKept /\ RequestInv' /\ PipelineTypeOK' /\ WorkerInv'
    BY <1>5, RowsKeptUnchanged, QuietRequests, QuietWorkers DEF JobStalls
  <2>2. SchedulingTypeOK'
    BY <1>5, SchedulingAssumption DEF JobStalls, SchedulingTypeOK
  <2>3. TablesTypeOK' /\ JobInv'
    BY <1>5, ScanTablesAssumption DEF JobStalls, StallJob, TablesTypeOK, JobInv, JobState
  <2> QED  BY <2>1, <2>2, <2>3
<1>6. ASSUME NEW k \in Key, NEW s \in FindingStatus, UpdateFindingStatus(k, s)
      PROVE  TypeInv'
  <2>1. RowsKept /\ RequestInv'
    BY <1>6, RowsKeptUnchanged, QuietRequests DEF UpdateFindingStatus
  <2>2. WorkerInv'
    BY <1>6, <2>1, OtherWorkers DEF UpdateFindingStatus, WorkerInv
  <2>3. SchedulingTypeOK' /\ PipelineTypeOK'
    BY <1>6 DEF UpdateFindingStatus, SchedulingTypeOK, PipelineTypeOK
  <2>4. TablesTypeOK' /\ JobInv'
    BY <1>6 DEF UpdateFindingStatus, TablesTypeOK, JobInv, jobVars
  <2> QED  BY <2>1, <2>2, <2>3, <2>4
<1>7. CASE UNCHANGED vars
  <2>1. RowsKept /\ TablesTypeOK' /\ JobInv' /\ RequestInv' /\ PipelineTypeOK' /\ WorkerInv'
    BY <1>7, RowsKeptUnchanged, QuietTables, QuietRequests, QuietWorkers DEF vars, tableVars
  <2>2. SchedulingTypeOK'
    BY <1>7 DEF vars, SchedulingTypeOK
  <2> QED  BY <2>1, <2>2
<1> QED
  BY <1>1, <1>2, <1>3, <1>4, <1>5, <1>6, <1>7 DEF Next

THEOREM SpecTypeInv == Spec => []TypeInv
BY InitTypeInv, TypeInvStep, PTL DEF Spec

(* Every variable keeps its type: no run is named that has no row, no job  *)
(* gets past its attempts or its stalls, no row has a commit that is not   *)
(* one (codebase-scan-queue.ts:40).                                        *)
THEOREM SpecTypeOK == Spec => []TypeOK
<1>1. TypeInv => TypeOK
  BY DEF TypeInv
<1> QED
  BY <1>1, SpecTypeInv, PTL

-----------------------------------------------------------------------------
(* A run is "succeeded" only with its commit in `scanned`, a worker decides*)
(* to skip a commit only when another run is there with it, and a run is   *)
(* "superseded" only then.                                                 *)
ScannedBefore(i, c) == \E p \in scanned : p[1] # i /\ p[2] = c
SucceededScanned ==
  \A i \in DOMAIN scans : scans[i].status = "succeeded" => <<i, scans[i].commit>> \in scanned
SkipsScanned ==
  \A w \in ScanWorker : WorkerAt(w, "markSuperseded") => ScannedBefore(wRun[w], wCommit[w])
SupersededScanned ==
  \A i \in DOMAIN scans : scans[i].status = "superseded" => ScannedBefore(i, scans[i].commit)
ScannedInv == SucceededScanned /\ SkipsScanned /\ SupersededScanned

(* What most steps do to the rows: what they write is not an outcome.      *)
NoOutcome ==
  \A i \in DOMAIN scans' :
    \/ i \in DOMAIN scans /\ scans'[i] = scans[i]
    \/ scans'[i].status \in {"queued", "running", "failed"}

LEMMA NoOutcomeInserted ==
  ASSUME TypeInv, NEW trigger \in Trigger, scans' = Inserted(trigger)
  PROVE  NoOutcome
BY RowIds, Appended DEF NoOutcome, Inserted, QueuedScan

LEMMA NoOutcomeUpdated ==
  ASSUME TypeInv, NEW i \in DOMAIN scans, NEW s \in {"running", "failed"},
         \/ scans' = WithStatus(i, s)
         \/ \E c \in Commit : scans' = WithCommit(i, s, c)
  PROVE  NoOutcome
<1>1. s \in ScanStatus
  BY DEF ScanStatus
<1>2. CASE scans' = WithStatus(i, s)
  BY <1>1, <1>2, RowIds, StatusSet DEF NoOutcome
<1>3. ASSUME NEW c \in Commit, scans' = WithCommit(i, s, c)
      PROVE  NoOutcome
  BY <1>1, <1>3, RowIds, CommitSet DEF NoOutcome
<1> QED
  BY <1>2, <1>3

LEMMA ScannedKept ==
  ASSUME ScannedInv, NoOutcome, scanned \subseteq scanned',
         \A w \in ScanWorker : wPc'[w] = "markSuperseded" =>
            wPc[w] = "markSuperseded" /\ wRun'[w] = wRun[w] /\ wCommit'[w] = wCommit[w]
  PROVE  ScannedInv'
<1>1. \A i, c : ScannedBefore(i, c) => ScannedBefore(i, c)'
  BY DEF ScannedBefore
<1>2. SucceededScanned' /\ SupersededScanned'
  BY <1>1 DEF ScannedInv, SucceededScanned, SupersededScanned, NoOutcome, ScannedBefore
<1>3. SkipsScanned'
  BY <1>1 DEF ScannedInv, SkipsScanned, WorkerAt, ScannedBefore
<1> QED
  BY <1>2, <1>3 DEF ScannedInv

LEMMA ScannedStep == TypeInv /\ ScannedInv /\ [Next]_vars => ScannedInv'
<1> SUFFICES ASSUME TypeInv, ScannedInv, [Next]_vars PROVE ScannedInv'
  OBVIOUS
<1>1. /\ wPc \in [ScanWorker -> WorkerPc] /\ wRun \in [ScanWorker -> 0..MaxScans]
      /\ wCommit \in [ScanWorker -> 0..MaxCommit] /\ scans \in Seq(ScanRow)
      /\ \A w \in ScanWorker : WorkerOK(w)
  BY RowIds DEF TypeInv, TypeOK, PipelineTypeOK, WorkerInv
<1>2. \A w \in ScanWorker :
        /\ wPc[w] \in HasRun => wRun[w] \in DOMAIN scans
        /\ wPc[w] \in KnowsCommit => wCommit[w] \in Commit
  BY <1>1, WorkersRow, ScanTablesAssumption DEF WorkerOK, Commit
<1>3. UNCHANGED scans => NoOutcome
  BY DEF NoOutcome
<1>4. ASSUME NEW q \in Request, RequestStep(q) \/ RequestFault(q) \/ RequestCrash(q), UNCHANGED workerVars
      PROVE  ScannedInv'
  <2>1. CASE InsertScanRun(q)
    BY <1>3, <1>4, <2>1, JobIds, NoOutcomeInserted, ScannedKept DEF InsertScanRun, workerVars, locals, Trigger
  <2>2. CASE MarkEnqueueFailed(q)
    <3>1. qRun[q] \in DOMAIN scans
      BY <2>2 DEF MarkEnqueueFailed, TypeInv, RequestInv
    <3> QED
      BY <1>4, <2>2, <3>1, NoOutcomeUpdated, ScannedKept DEF MarkEnqueueFailed, workerVars, locals
  <2>3. CASE UNCHANGED scans
    BY <1>3, <1>4, <2>3, ScannedKept DEF workerVars, locals
  <2>4. RequestStep(q) /\ ~InsertScanRun(q) /\ ~MarkEnqueueFailed(q) => UNCHANGED scans
    BY DEF RequestStep, StartRequest, SaveConfiguration, SaveRepository, FindTarget, SetScheduler,
       FindTargetAgain, FindActive, Enqueue, tableVars
  <2>5. RequestFault(q) \/ RequestCrash(q) => UNCHANGED scans
    BY DEF RequestFault, RequestCrash, tableVars
  <2> QED  BY <1>4, <2>1, <2>2, <2>3, <2>4, <2>5
<1>5. ASSUME NEW w \in ScanWorker, WorkerStep(w) \/ WorkerFault(w) \/ WorkerCrash(w)
      PROVE  ScannedInv'
  <2>1. ASSUME NEW j \in JobId, Take(w, j)
        PROVE  ScannedInv'
    BY <1>1, <1>3, <2>1, ScannedKept DEF Take, WorkerGoto
  <2>2. CASE CreateScan(w)
    BY <1>1, <1>3, <2>2, NoOutcomeInserted, ScannedKept DEF CreateScan, WorkerGoto, WorkerAt, Trigger
  <2>3. CASE AssertRepositoryEnabled(w) \/ FetchDefaultBranchSha(w) \/ ReadOwnStatus(w) \/ ResolveStaleFindings(w)
    BY <1>1, <1>3, <2>3, ScannedKept
       DEF AssertRepositoryEnabled, FetchDefaultBranchSha, ReadOwnStatus, ResolveStaleFindings, WorkerGoto,
       KeepTables, tableVars, OnlyWorkerPc, locals
  <2>4. CASE HasSuccessful(w)
    <3>1. UNCHANGED <<scans, scanned, wRun, wCommit>> /\ wPc[w] = "hasSuccessful"
      BY <2>4 DEF HasSuccessful, KeepTables, tableVars, OnlyWorkerPc, locals, WorkerAt
    <3>2. SucceededScanned' /\ SupersededScanned'
      BY <3>1 DEF ScannedInv, SucceededScanned, SupersededScanned, ScannedBefore
    <3>3. HasSuccessfulScan(wRun[w], wCommit[w]) => ScannedBefore(wRun[w], wCommit[w])
      BY DEF HasSuccessfulScan, ScannedBefore, ScannedInv, SucceededScanned
    <3>4. SkipsScanned'
      BY <1>1, <2>4, <3>1, <3>3 DEF HasSuccessful, WorkerGoto, ScannedInv, SkipsScanned, WorkerAt, ScannedBefore
    <3> QED  BY <3>2, <3>4 DEF ScannedInv
  <2>5. CASE MarkSuperseded(w)
    <3>1. /\ wRun[w] \in DOMAIN scans /\ wCommit[w] \in Commit /\ wPc[w] = "markSuperseded"
          /\ UNCHANGED <<scanned, wRun, wCommit>>
          /\ scans' = WithCommit(wRun[w], "superseded", wCommit[w])
          /\ "superseded" \in ScanStatus
      BY <1>2, <2>5
         DEF MarkSuperseded, WorkerAt, HasRun, WorkerPc, KnowsCommit, OnlyWorkerPc, locals, ScanStatus
    <3>2. /\ DOMAIN scans' = DOMAIN scans
          /\ scans'[wRun[w]].status = "superseded" /\ scans'[wRun[w]].commit = wCommit[w]
          /\ \A i \in DOMAIN scans : i # wRun[w] => scans'[i] = scans[i]
      BY <1>1, <3>1, CommitSet
    <3>3. ScannedBefore(wRun[w], wCommit[w])
      BY <3>1 DEF ScannedInv, SkipsScanned, WorkerAt
    <3>4. SucceededScanned' /\ SupersededScanned'
      BY <3>1, <3>2, <3>3 DEF ScannedInv, SucceededScanned, SupersededScanned, ScannedBefore
    <3>5. SkipsScanned'
      BY <1>1, <2>5, <3>1 DEF MarkSuperseded, WorkerGoto, ScannedInv, SkipsScanned, WorkerAt, ScannedBefore
    <3> QED  BY <3>4, <3>5 DEF ScannedInv
  <2>6. CASE MarkRunning(w)
    <3>1. wRun[w] \in DOMAIN scans /\ wCommit[w] \in Commit
      BY <1>2, <2>6 DEF MarkRunning, WorkerAt, HasRun, WorkerPc, KnowsCommit
    <3>2. NoOutcome
      BY <1>3, <2>6, <3>1, NoOutcomeUpdated DEF MarkRunning
    <3> QED
      BY <1>1, <2>6, <3>2, ScannedKept DEF MarkRunning, WorkerGoto
  <2>7. ASSUME NEW k \in Key, UpsertFinding(w, k)
        PROVE  ScannedInv'
    BY <1>3, <2>7, ScannedKept DEF UpsertFinding
  <2>8. CASE MarkSucceeded(w)
    <3>1. CASE UNCHANGED <<scans, scanned>>
      BY <1>1, <1>3, <2>8, <3>1, ScannedKept DEF MarkSucceeded, WorkerGoto, OnlyWorkerPc, locals
    <3>2. CASE /\ scans' = WithStatus(wRun[w], "succeeded")
               /\ scanned' = scanned \cup {<<wRun[w], scans[wRun[w]].commit>>}
      <4>1. /\ wRun[w] \in DOMAIN scans /\ "succeeded" \in ScanStatus
            /\ UNCHANGED <<wRun, wCommit>>
        BY <1>2, <2>8
           DEF MarkSucceeded, UpsertsDone, WorkerAt, HasRun, WorkerPc, OnlyWorkerPc, locals, ScanStatus
      <4>2. /\ DOMAIN scans' = DOMAIN scans
            /\ scans'[wRun[w]].status = "succeeded" /\ scans'[wRun[w]].commit = scans[wRun[w]].commit
            /\ \A i \in DOMAIN scans : i # wRun[w] => scans'[i] = scans[i]
        BY <1>1, <3>2, <4>1, StatusSet
      <4>3. SucceededScanned' /\ SupersededScanned'
        BY <3>2, <4>1, <4>2 DEF ScannedInv, SucceededScanned, SupersededScanned, ScannedBefore
      <4>4. SkipsScanned'
        BY <1>1, <2>8, <3>2, <4>1 DEF MarkSucceeded, WorkerGoto, ScannedInv, SkipsScanned, WorkerAt, ScannedBefore
      <4> QED  BY <4>3, <4>4 DEF ScannedInv
    <3> QED  BY <2>8, <3>1, <3>2 DEF MarkSucceeded
  <2>9. CASE MarkScanFailed(w)
    <3>1. wRun[w] \in DOMAIN scans
      BY <1>2, <2>9 DEF MarkScanFailed, WorkerAt, HasRun, WorkerPc
    <3> QED
      BY <1>1, <2>9, <3>1, NoOutcomeUpdated, ScannedKept DEF MarkScanFailed, WorkerGoto, locals
  <2>10. CASE EndAttempt(w)
    BY <1>1, <1>3, <2>10, ScannedKept DEF EndAttempt, WorkerGoto, Forget
  <2>11. CASE WorkerFault(w)
    BY <1>1, <1>3, <2>11, ScannedKept DEF WorkerFault, WorkerGoto, KeepTables, tableVars, locals
  <2>12. CASE WorkerCrash(w)
    BY <1>1, <1>3, <2>12, ScannedKept DEF WorkerCrash, WorkerGoto, Forget, KeepTables, tableVars
  <2> QED
    BY <1>5, <2>1, <2>2, <2>3, <2>4, <2>5, <2>6, <2>7, <2>8, <2>9, <2>10, <2>11, <2>12 DEF WorkerStep
<1>6. UNCHANGED <<scans, scanned, wPc, wRun, wCommit>> => ScannedInv'
  BY <1>3, ScannedKept
<1> QED
  BY <1>4, <1>5, <1>6 DEF Next, PushToDefaultBranch, SchedulerTick, JobStalls, UpdateFindingStatus, vars,
     tableVars, workerVars, locals

(* Skipping is never for nothing: a scan run is "superseded" only for a    *)
(* commit that another run has scanned with success, whatever re-attempts, *)
(* stalled jobs, faults and scans side by side (codebase_scan.py:698).     *)
THEOREM SpecSupersededMeansScanned == Spec => []SupersededMeansScanned
<1>1. Init => ScannedInv
  BY DEF Init, TablesInit, PipelineInit, ScannedInv, SucceededScanned, SkipsScanned, SupersededScanned, WorkerAt
<1>2. ScannedInv => SupersededMeansScanned
  BY DEF ScannedInv, SupersededScanned, ScannedBefore, SupersededMeansScanned
<1> QED
  BY <1>1, <1>2, SpecTypeInv, ScannedStep, PTL DEF Spec

-----------------------------------------------------------------------------
(* Who carries an active run on.  A worker about to end its attempt and a  *)
(* request whose job id is in use do not count: each has left the run to   *)
(* somebody else.                                                          *)
ByWorker(i) == \E w \in ScanWorker : wRun[w] = i /\ wPc[w] \notin {"return", "raise"}
ByJob(i) == \E j \in JobId : jobRun[j] = i /\ jobState[j] = "waiting"
ByRequest(i) ==
  \E q \in Request :
    /\ qRun[q] = i
    /\ \/ At(q, "markFailed")
       \/ At(q, "enqueue") /\ jobState[ScanJobId(TriggerOf(q))] = "none"
CarriedOn(i) == ByWorker(i) \/ ByJob(i) \/ ByRequest(i) \/ i \in abandoned \/ JobIdTaken(i)
StrandInv == \A i \in DOMAIN scans : Active(scans[i]) => CarriedOn(i)

LEMMA JobIdOfRow ==
  ASSUME TypeInv, NEW i \in DOMAIN scans, scans[i].trigger # "scheduled"
  PROVE  ScanJobId(scans[i].trigger) \in JobId
<1>1. scans[i] \in ScanRow
  BY RowIds
<1> QED
  BY <1>1 DEF ScanRow, Trigger, ScanJobId, JobId

LEMMA StillTaken ==
  ASSUME TypeInv, RowsKept, NEW i \in DOMAIN scans, JobIdTaken(i),
         \A j \in JobId : jobState[j] # "none" => jobState'[j] # "none" /\ jobRun'[j] = jobRun[j]
  PROVE  JobIdTaken(i)'
BY JobIdOfRow DEF JobIdTaken, RowsKept

(* A worker's step strands nothing when every other party stays as it is   *)
(* and the worker keeps its run, ends it or leaves it in `abandoned`.      *)
LEMMA StrandWorker ==
  ASSUME TypeInv, StrandInv, RowsKept, NEW w \in ScanWorker,
         UNCHANGED <<kind, qPc, qRun, jobRun>>, abandoned \subseteq abandoned',
         \A v \in ScanWorker \ {w} : wPc'[v] = wPc[v] /\ wRun'[v] = wRun[v],
         \A j \in JobId : /\ jobState'[j] = "none" <=> jobState[j] = "none"
                          /\ jobState[j] = "waiting" => jobState'[j] = "waiting",
         \A i \in DOMAIN scans' : Active(scans'[i]) =>
            \/ i \in DOMAIN scans /\ Active(scans[i])
            \/ wRun'[w] = i /\ wPc'[w] \notin {"return", "raise"},
         \A i \in DOMAIN scans : wRun[w] = i /\ wPc[w] \notin {"return", "raise"} =>
            \/ wRun'[w] = i /\ wPc'[w] \notin {"return", "raise"}
            \/ i \in abandoned' \/ ~Active(scans'[i])
  PROVE  StrandInv'
<1> SUFFICES ASSUME NEW i \in DOMAIN scans', Active(scans'[i]), ~ByWorker(i)'
             PROVE  CarriedOn(i)'
  BY DEF StrandInv, CarriedOn
<1>1. i \in DOMAIN scans /\ CarriedOn(i)
  BY DEF StrandInv, ByWorker
<1>2. CASE ByWorker(i)
  BY <1>1, <1>2 DEF ByWorker, CarriedOn
<1>3. CASE ByJob(i)
  BY <1>3 DEF ByJob, CarriedOn
<1>4. CASE ByRequest(i)
  BY <1>4, JobIds DEF ByRequest, CarriedOn, At, TriggerOf
<1>5. CASE JobIdTaken(i)
  BY <1>1, <1>5, StillTaken DEF CarriedOn
<1> QED
  BY <1>1, <1>2, <1>3, <1>4, <1>5 DEF CarriedOn

(* A request's step that touches no job.                                   *)
LEMMA StrandRequest ==
  ASSUME TypeInv, StrandInv, RowsKept, NEW q \in Request,
         UNCHANGED <<kind, jobRun, jobState, wPc, wRun>>, abandoned \subseteq abandoned',
         \A p \in Request \ {q} : qPc'[p] = qPc[p] /\ qRun'[p] = qRun[p],
         \A i \in DOMAIN scans' : Active(scans'[i]) =>
            (i \in DOMAIN scans /\ Active(scans[i])) \/ CarriedOn(i)',
         \A i \in DOMAIN scans : qRun[q] = i /\ (At(q, "enqueue") \/ At(q, "markFailed")) =>
            \/ qRun'[q] = i /\ At(q, "markFailed")'
            \/ i \in abandoned' \/ ~Active(scans'[i])
  PROVE  StrandInv'
<1> SUFFICES ASSUME NEW i \in DOMAIN scans', Active(scans'[i]), i \in DOMAIN scans, CarriedOn(i)
             PROVE  CarriedOn(i)'
  BY DEF StrandInv
<1>1. CASE ByWorker(i)
  BY <1>1 DEF ByWorker, CarriedOn
<1>2. CASE ByJob(i)
  BY <1>2 DEF ByJob, CarriedOn
<1>3. CASE ByRequest(i)
  BY <1>3 DEF ByRequest, CarriedOn, At, TriggerOf
<1>4. CASE JobIdTaken(i)
  BY <1>4, StillTaken DEF CarriedOn
<1> QED
  BY <1>1, <1>2, <1>3, <1>4 DEF CarriedOn

(* What an update of a row does to the active ones.                        *)
LEMMA UpdatedStatus ==
  ASSUME TypeInv, NEW i \in DOMAIN scans, NEW s \in ScanStatus,
         \/ scans' = WithStatus(i, s)
         \/ \E c \in Commit : scans' = WithCommit(i, s, c)
  PROVE  /\ RowsKept /\ DOMAIN scans' = DOMAIN scans
         /\ scans'[i].status = s
         /\ \A j \in DOMAIN scans : j # i => scans'[j] = scans[j]
<1>1. RowsKept
  BY RowsKeptUpdated
<1>2. CASE scans' = WithStatus(i, s)
  BY <1>1, <1>2, RowIds, StatusSet
<1>3. ASSUME NEW c \in Commit, scans' = WithCommit(i, s, c)
      PROVE  /\ DOMAIN scans' = DOMAIN scans
             /\ scans'[i].status = s
             /\ \A j \in DOMAIN scans : j # i => scans'[j] = scans[j]
  BY <1>3, RowIds, CommitSet
<1> QED
  BY <1>1, <1>2, <1>3

LEMMA StrandRequestStep ==
  ASSUME TypeInv, StrandInv, NEW q \in Request, UNCHANGED workerVars,
         RequestStep(q) \/ RequestFault(q) \/ RequestCrash(q)
  PROVE  StrandInv'
<1> USE DEF KeepSettings, KeepHistory, historyVars, workerVars, locals
<1>1. /\ qPc \in [Request -> RequestPc] /\ qRun \in [Request -> 0..MaxScans]
      /\ jobState \in [JobId -> JobState] /\ jobRun \in [JobId -> 0..MaxScans]
  BY DEF TypeInv, TypeOK, SchedulingTypeOK, TablesTypeOK
<1>2. CASE StartRequest(q) \/ SaveConfiguration(q) \/ SaveRepository(q) \/ FindTarget(q)
           \/ SetScheduler(q) \/ FindTargetAgain(q)
  <2>1. /\ UNCHANGED <<kind, jobState, jobRun, scans, qRun, abandoned>>
        /\ ~At(q, "enqueue") /\ ~At(q, "markFailed") /\ \E pc : Goto(q, pc)
    BY <1>2 DEF StartRequest, SaveConfiguration, SaveRepository, FindTarget, SetScheduler, FindTargetAgain,
       At, tableVars, jobVars
  <2> QED  BY <1>1, <2>1, RowsKeptUnchanged, StrandRequest DEF Goto
<1>3. CASE FindActive(q)
  <2>1. /\ UNCHANGED <<kind, jobState, jobRun, scans, abandoned>>
        /\ ~At(q, "enqueue") /\ ~At(q, "markFailed") /\ \E pc : Goto(q, pc)
        /\ \E i : qRun' = [qRun EXCEPT ![q] = i]
    BY <1>3 DEF FindActive, At, tableVars, jobVars
  <2> QED  BY <1>1, <2>1, RowsKeptUnchanged, StrandRequest DEF Goto
<1>4. CASE InsertScanRun(q)
  <2>1. /\ UNCHANGED <<kind, jobState, jobRun, abandoned>>
        /\ ~At(q, "enqueue") /\ ~At(q, "markFailed") /\ \E pc : Goto(q, pc)
    BY <1>4 DEF InsertScanRun, At, jobVars
  <2>2. CASE UNCHANGED <<scans, qRun>>
    BY <1>1, <2>1, <2>2, RowsKeptUnchanged, StrandRequest DEF Goto
  <2>3. CASE scans' = Inserted(TriggerOf(q)) /\ qRun' = [qRun EXCEPT ![q] = Len(scans) + 1]
             /\ Goto(q, "enqueue")
    <3>0. PICK n \in Nat : n = Len(scans) + 1
      BY RowIds
    <3>1. TriggerOf(q) \in {"install", "manual"} /\ ScanJobId(TriggerOf(q)) \in JobId /\ scans \in Seq(ScanRow)
      BY JobIds, RowIds
    <3>2. RowsKept
      BY <1>4, <2>3, <3>1, RowsKeptInserted DEF InsertScanRun, Trigger
    <3>3. /\ DOMAIN scans' = DOMAIN scans \cup {n} /\ scans'[n].trigger = TriggerOf(q)
          /\ \A i \in DOMAIN scans : scans'[i] = scans[i]
      BY <2>3, <3>0, <3>1, Appended DEF Inserted, QueuedScan, Trigger
    <3>4. jobRun[ScanJobId(TriggerOf(q))] # n
      BY <1>1, <3>0, <3>1, RowIds, ScanTablesAssumption DEF TypeInv, JobInv
    <3>5. qRun'[q] = n /\ At(q, "enqueue")'
      BY <1>1, <2>3, <3>0 DEF Goto, At
    <3>6. CarriedOn(n)'
      <4>1. CASE jobState[ScanJobId(TriggerOf(q))] = "none"
        <5>1. ByRequest(n)'
          BY <2>1, <3>5, <4>1 DEF ByRequest, TriggerOf
        <5> QED  BY <5>1 DEF CarriedOn
      <4>2. CASE jobState[ScanJobId(TriggerOf(q))] # "none"
        <5>1. JobIdTaken(n)'
          BY <2>1, <3>1, <3>3, <3>4, <4>2 DEF JobIdTaken
        <5> QED  BY <5>1 DEF CarriedOn
      <4> QED  BY <4>1, <4>2
    <3> QED  BY <1>1, <2>1, <2>3, <3>2, <3>3, <3>6, StrandRequest DEF Goto
  <2> QED  BY <1>4, <2>2, <2>3 DEF InsertScanRun
<1>5. CASE Enqueue(q)
  <2> DEFINE id == ScanJobId(TriggerOf(q))
  <2>1. /\ UNCHANGED <<kind, scans, qRun, abandoned, wPc, wRun>> /\ At(q, "enqueue")
        /\ qPc' = [qPc EXCEPT ![q] = AfterEnqueue(q)] /\ AfterEnqueue(q) \notin {"enqueue", "markFailed"}
        /\ EnqueueCodebaseScan(id, qRun[q])
    BY <1>5 DEF Enqueue, Goto, AfterEnqueue
  <2>2. RowsKept /\ id \in JobId /\ TriggerOf(q) # "scheduled"
    BY <2>1, RowsKeptUnchanged, JobIds
  <2>3. \A j \in JobId : jobState[j] # "none" => jobState'[j] = jobState[j] /\ jobRun'[j] = jobRun[j]
    BY <1>1, <2>1, <2>2 DEF EnqueueCodebaseScan
  <2>4. jobState[id] = "none" => jobState'[id] = "waiting" /\ jobRun'[id] = qRun[q]
    BY <1>1, <2>1, <2>2 DEF EnqueueCodebaseScan
  <2>5. \A j \in JobId : j # id => jobState'[j] = jobState[j]
    BY <1>1, <2>1, <2>2 DEF EnqueueCodebaseScan
  <2> SUFFICES ASSUME NEW i \in DOMAIN scans, CarriedOn(i) PROVE CarriedOn(i)'
    BY <2>1 DEF StrandInv
  <2> HIDE DEF id
  <2>6. CASE ByWorker(i) \/ i \in abandoned
    BY <2>1, <2>6 DEF ByWorker, CarriedOn
  <2>7. CASE ByJob(i)
    BY <2>3, <2>7 DEF ByJob, CarriedOn
  <2>8. CASE JobIdTaken(i)
    BY <2>2, <2>3, <2>8, StillTaken DEF CarriedOn
  <2>9. ASSUME NEW p \in Request, qRun[p] = i, At(p, "markFailed")
        PROVE  CarriedOn(i)'
    BY <1>1, <2>1, <2>9 DEF CarriedOn, ByRequest, At
  <2>10. ASSUME NEW p \in Request, qRun[p] = i, At(p, "enqueue"), jobState[ScanJobId(TriggerOf(p))] = "none"
         PROVE  CarriedOn(i)'
    <3>1. /\ scans[i].trigger = TriggerOf(p) /\ TriggerOf(p) # "scheduled" /\ ScanJobId(TriggerOf(p)) \in JobId
          /\ TriggerOf(p)' = TriggerOf(p)
      BY <2>1, <2>10, JobIds DEF TypeInv, RequestInv, TriggerOf
    <3>2. CASE ScanJobId(TriggerOf(p)) = id
      <4>1. CASE qRun[q] = i
        BY <2>2, <2>4, <2>10, <3>2, <4>1 DEF CarriedOn, ByJob
      <4>2. CASE qRun[q] # i
        BY <2>1, <2>4, <2>10, <3>1, <3>2, <4>2 DEF CarriedOn, JobIdTaken
      <4> QED  BY <4>1, <4>2
    <3>3. CASE ScanJobId(TriggerOf(p)) # id
      <4>1. p # q
        BY <3>3 DEF id
      <4> QED  BY <1>1, <2>1, <2>5, <2>10, <3>1, <3>3, <4>1 DEF CarriedOn, ByRequest, At
    <3> QED  BY <3>2, <3>3
  <2> QED  BY <2>6, <2>7, <2>8, <2>9, <2>10 DEF CarriedOn, ByRequest
<1>6. CASE MarkEnqueueFailed(q)
  <2>1. /\ UNCHANGED <<kind, jobState, jobRun, qRun, abandoned>> /\ At(q, "markFailed")
        /\ Goto(q, "done") /\ scans' = WithStatus(qRun[q], "failed")
    BY <1>6 DEF MarkEnqueueFailed, jobVars
  <2>2. qRun[q] \in DOMAIN scans /\ "failed" \in ScanStatus
    BY <2>1 DEF TypeInv, RequestInv, ScanStatus
  <2>3. /\ RowsKept /\ DOMAIN scans' = DOMAIN scans /\ ~Active(scans'[qRun[q]])
        /\ \A i \in DOMAIN scans : i # qRun[q] => scans'[i] = scans[i]
    BY <2>1, <2>2, UpdatedStatus DEF Active
  <2> QED  BY <1>1, <2>1, <2>3, StrandRequest DEF Goto
<1>7. CASE RequestFault(q)
  <2>1. /\ UNCHANGED <<kind, jobState, jobRun, qRun, scans>>
        /\ qPc' = [qPc EXCEPT ![q] = AfterFailedCall(q)]
        /\ abandoned' = IF At(q, "markFailed") THEN abandoned \cup {qRun[q]} ELSE abandoned
    BY <1>7 DEF RequestFault, Goto, tableVars, jobVars
  <2>2. At(q, "enqueue") => AfterFailedCall(q) = "markFailed"
    BY DEF AfterFailedCall, At
  <2> QED  BY <1>1, <2>1, <2>2, RowsKeptUnchanged, StrandRequest DEF At
<1>8. CASE RequestCrash(q)
  <2>1. /\ UNCHANGED <<kind, jobState, jobRun, qRun, scans>> /\ Goto(q, "done")
        /\ abandoned' = IF At(q, "enqueue") \/ At(q, "markFailed") THEN abandoned \cup {qRun[q]} ELSE abandoned
    BY <1>8 DEF RequestCrash, tableVars, jobVars
  <2> QED  BY <1>1, <2>1, RowsKeptUnchanged, StrandRequest DEF Goto, At
<1> QED
  BY <1>2, <1>3, <1>4, <1>5, <1>6, <1>7, <1>8 DEF RequestStep

LEMMA StrandWorkerStep ==
  ASSUME TypeInv, StrandInv, NEW w \in ScanWorker, WorkerStep(w) \/ WorkerFault(w) \/ WorkerCrash(w)
  PROVE  StrandInv'
<1> USE DEF requestVars, historyVars, schedulingVars, KeepTables, tableVars, OnlyWorkerPc, locals, WorkerAt
<1>1. /\ wPc \in [ScanWorker -> WorkerPc] /\ wRun \in [ScanWorker -> 0..MaxScans]
      /\ wJob \in [ScanWorker -> JobId \cup {NoJob}] /\ wCommit \in [ScanWorker -> 0..MaxCommit]
      /\ jobState \in [JobId -> JobState] /\ jobRun \in [JobId -> 0..MaxScans]
      /\ scans \in Seq(ScanRow) /\ WorkerOK(w)
  BY RowIds DEF TypeInv, TypeOK, PipelineTypeOK, TablesTypeOK, WorkerInv
<1>2. /\ wPc[w] \in HasRun => wRun[w] \in DOMAIN scans
      /\ wPc[w] \in KnowsCommit => wCommit[w] \in Commit
  BY <1>1, WorkersRow, ScanTablesAssumption DEF WorkerOK, Commit
<1>3. DOMAIN scans = 1..Len(scans) /\ Len(scans) \in Nat
  BY RowIds
(* A step that moves the worker on with its run.                           *)
<1>4. ASSUME UNCHANGED <<kind, qPc, qRun, jobRun, jobState, scans, wRun>>, abandoned \subseteq abandoned',
             NEW pc, WorkerGoto(w, pc),
             pc \in {"return", "raise"} => wRun[w] = 0 \/ wRun[w] \in abandoned'
      PROVE  StrandInv'
  BY <1>1, <1>3, <1>4, RowsKeptUnchanged, StrandWorker DEF WorkerGoto
(* A step that writes the status of the worker's run.                      *)
<1>5. ASSUME UNCHANGED <<kind, qPc, qRun, jobRun, jobState, wRun, abandoned>>,
             NEW pc, WorkerGoto(w, pc), NEW s \in ScanStatus, wPc[w] \in HasRun \ {"return"},
             \/ scans' = WithStatus(wRun[w], s)
             \/ \E c \in Commit : scans' = WithCommit(wRun[w], s, c),
             pc \in {"return", "raise"} => s \notin {"queued", "running"}
      PROVE  StrandInv'
  <2>1. /\ RowsKept /\ DOMAIN scans' = DOMAIN scans /\ scans'[wRun[w]].status = s
        /\ \A j \in DOMAIN scans : j # wRun[w] => scans'[j] = scans[j]
    BY <1>2, <1>5, UpdatedStatus
  <2>2. \A i \in DOMAIN scans' : Active(scans'[i]) =>
           (i \in DOMAIN scans /\ Active(scans[i])) \/ (wRun'[w] = i /\ wPc'[w] \notin {"return", "raise"})
    BY <1>1, <1>5, <2>1 DEF WorkerGoto, Active
  <2>3. \A i \in DOMAIN scans : wRun[w] = i /\ wPc[w] \notin {"return", "raise"} =>
           \/ wRun'[w] = i /\ wPc'[w] \notin {"return", "raise"}
           \/ i \in abandoned' \/ ~Active(scans'[i])
    BY <1>1, <1>5, <2>1 DEF WorkerGoto, Active
  <2> QED
    BY <1>1, <1>5, <2>1, <2>2, <2>3, StrandWorker DEF WorkerGoto
<1>6. ASSUME NEW j \in JobId, Take(w, j)
      PROVE  StrandInv'
  <2>1. /\ UNCHANGED <<kind, qPc, qRun, jobRun, scans, abandoned>>
        /\ jobState[j] = "waiting" /\ jobState' = [jobState EXCEPT ![j] = "active"]
        /\ wPc[w] = "idle" /\ wRun' = [wRun EXCEPT ![w] = jobRun[j]]
        /\ \E pc \in {"createScan", "assertEnabled"} : wPc' = [wPc EXCEPT ![w] = pc]
    BY <1>6 DEF Take, TakeJob, WorkerGoto
  <2>2. wRun[w] = 0 /\ wPc'[w] \notin {"return", "raise"} /\ wRun'[w] = jobRun[j]
    BY <1>1, <2>1 DEF WorkerOK
  <2>3. /\ \A v \in ScanWorker : v # w => wPc'[v] = wPc[v] /\ wRun'[v] = wRun[v]
        /\ \A k \in JobId : k # j => jobState'[k] = jobState[k]
        /\ \A k \in JobId : jobState'[k] = "none" <=> jobState[k] = "none"
    BY <1>1, <2>1
  <2> SUFFICES ASSUME NEW i \in DOMAIN scans, CarriedOn(i) PROVE CarriedOn(i)'
    BY <2>1 DEF StrandInv
  <2>4. CASE ByWorker(i)
    BY <1>3, <2>2, <2>3, <2>4 DEF ByWorker, CarriedOn
  <2>5. CASE ByJob(i)
    BY <2>1, <2>2, <2>3, <2>5 DEF ByJob, ByWorker, CarriedOn
  <2>6. CASE ByRequest(i)
    BY <2>1, <2>3, <2>6, JobIds DEF ByRequest, CarriedOn, At, TriggerOf
  <2>7. CASE JobIdTaken(i)
    BY <2>1, <2>3, <2>7, RowsKeptUnchanged, StillTaken DEF CarriedOn
  <2> QED  BY <2>1, <2>4, <2>5, <2>6, <2>7 DEF CarriedOn
<1>7. CASE CreateScan(w)
  <2>1. wRun[w] = 0 /\ UNCHANGED <<kind, qPc, qRun, jobRun, jobState, abandoned>>
    BY <1>1, <1>7 DEF CreateScan, WorkerOK, jobVars
  <2>2. CASE UNCHANGED <<scans, wRun>> /\ WorkerGoto(w, "raise")
    BY <1>4, <2>1, <2>2
  <2>3. CASE scans' = Inserted("scheduled") /\ wRun' = [wRun EXCEPT ![w] = Len(scans) + 1]
             /\ WorkerGoto(w, "assertEnabled")
    <3>1. PICK t \in Trigger : scans' = Inserted(t)
      BY <2>3 DEF Trigger
    <3>2. RowsKept
      BY <1>7, <3>1, RowsKeptInserted DEF CreateScan
    <3>3. DOMAIN scans' = DOMAIN scans \cup {Len(scans) + 1} /\ \A i \in DOMAIN scans : scans'[i] = scans[i]
      BY <1>1, <3>1, Appended DEF Inserted
    <3>4. /\ wRun'[w] = Len(scans) + 1 /\ wPc'[w] = "assertEnabled"
          /\ \A v \in ScanWorker : v # w => wPc'[v] = wPc[v] /\ wRun'[v] = wRun[v]
      BY <1>1, <2>3 DEF WorkerGoto
    <3>5. \A i \in DOMAIN scans' : Active(scans'[i]) =>
             (i \in DOMAIN scans /\ Active(scans[i])) \/ (wRun'[w] = i /\ wPc'[w] \notin {"return", "raise"})
      BY <3>3, <3>4
    <3>6. \A i \in DOMAIN scans : wRun[w] # i
      BY <1>3, <2>1
    <3> QED  BY <2>1, <3>2, <3>4, <3>5, <3>6, StrandWorker
  <2> QED  BY <1>7, <2>2, <2>3 DEF CreateScan
<1>8. CASE AssertRepositoryEnabled(w) \/ FetchDefaultBranchSha(w) \/ HasSuccessful(w) \/ ReadOwnStatus(w)
           \/ ResolveStaleFindings(w)
  <2>1. PICK pc \in {"fetchSha", "markFailed", "hasSuccessful", "markSuperseded", "markRunning", "resolve",
                     "markAgain"} : WorkerGoto(w, pc)
    BY <1>8, Zenon DEF AssertRepositoryEnabled, FetchDefaultBranchSha, HasSuccessful, ReadOwnStatus, ResolveStaleFindings
  <2>2. UNCHANGED <<kind, qPc, qRun, jobRun, jobState, scans, wRun, abandoned>>
    BY <1>8 DEF AssertRepositoryEnabled, FetchDefaultBranchSha, HasSuccessful, ReadOwnStatus,
       ResolveStaleFindings, jobVars
  <2> QED  BY <1>4, <2>1, <2>2
<1>9. CASE MarkSuperseded(w)
  <2>1. wPc[w] \in HasRun \ {"return"} /\ "superseded" \in ScanStatus /\ wCommit[w] \in Commit
    BY <1>2, <1>9 DEF MarkSuperseded, HasRun, WorkerPc, KnowsCommit, ScanStatus
  <2> QED  BY <1>5, <1>9, <2>1 DEF MarkSuperseded, jobVars
<1>10. CASE MarkRunning(w)
  <2>1. wPc[w] \in HasRun \ {"return"} /\ "running" \in ScanStatus /\ wCommit[w] \in Commit
    BY <1>2, <1>10 DEF MarkRunning, HasRun, WorkerPc, KnowsCommit, ScanStatus
  <2>2. UNCHANGED <<kind, qPc, qRun, jobRun, jobState, wRun, abandoned>>
    BY <1>10 DEF MarkRunning, jobVars
  <2> QED  BY <1>4, <1>5, <1>10, <2>1, <2>2 DEF MarkRunning
<1>11. ASSUME NEW k \in Key, UpsertFinding(w, k)
       PROVE  StrandInv'
  <2>1. WorkerGoto(w, wPc[w]) /\ wPc[w] = "upsert"
    BY <1>1, <1>11 DEF UpsertFinding, WorkerGoto
  <2> QED  BY <1>4, <1>11, <2>1 DEF UpsertFinding, jobVars
<1>12. CASE MarkSucceeded(w)
  <2>1. wPc[w] \in HasRun \ {"return"} /\ "succeeded" \in ScanStatus
    BY <1>12 DEF MarkSucceeded, UpsertsDone, HasRun, WorkerPc, ScanStatus
  <2>2. UNCHANGED <<kind, qPc, qRun, jobRun, jobState, wRun, abandoned>>
    BY <1>12 DEF MarkSucceeded, jobVars
  <2>3. CASE UNCHANGED scans /\ WorkerGoto(w, "markFailed")
    BY <1>4, <2>2, <2>3
  <2>4. CASE scans' = WithStatus(wRun[w], "succeeded") /\ \E pc : WorkerGoto(w, pc)
    BY <1>5, <2>1, <2>2, <2>4
  <2> QED  BY <1>12, <2>3, <2>4 DEF MarkSucceeded
<1>13. CASE MarkScanFailed(w)
  <2>1. wPc[w] \in HasRun \ {"return"} /\ "failed" \in ScanStatus
    BY <1>13 DEF MarkScanFailed, HasRun, WorkerPc, ScanStatus
  <2> QED  BY <1>5, <1>13, <2>1 DEF MarkScanFailed, jobVars
<1>14. CASE EndAttempt(w)
  <2>1. /\ UNCHANGED <<kind, qPc, qRun, jobRun, scans, abandoned>>
        /\ wPc[w] \in {"return", "raise"} /\ wJob[w] \in JobId
        /\ wPc' = [wPc EXCEPT ![w] = "idle"] /\ wRun' = [wRun EXCEPT ![w] = 0]
    BY <1>1, <1>14 DEF EndAttempt, CompleteJob, RejectJob, WorkerGoto, Forget, WorkerOK
  <2>2. lock[wJob[w]] = w => jobState[wJob[w]] = "active"
    BY <2>1, ScanTablesAssumption DEF TypeInv, JobInv
  <2>3. \A j \in JobId : /\ jobState'[j] = "none" <=> jobState[j] = "none"
                         /\ jobState[j] = "waiting" => jobState'[j] = "waiting"
    BY <1>1, <1>14, <2>1, <2>2 DEF EndAttempt, CompleteJob, RejectJob
  <2> QED  BY <1>1, <2>1, <2>3, RowsKeptUnchanged, StrandWorker
<1>15. CASE WorkerFault(w)
  <2>1. UNCHANGED <<kind, qPc, qRun, jobRun, jobState, scans, wRun>> /\ abandoned \subseteq abandoned'
    BY <1>15 DEF WorkerFault, jobVars
  <2>2. PICK pc \in {"raise", "markFailed"} :
          WorkerGoto(w, pc) /\ (pc = "raise" => wRun[w] = 0 \/ wRun[w] \in abandoned')
    BY <1>1, <1>15 DEF WorkerFault, WorkerOK
  <2> QED  BY <1>4, <2>1, <2>2
<1>16. CASE WorkerCrash(w)
  <2>1. /\ UNCHANGED <<kind, qPc, qRun, jobRun, jobState, scans>>
        /\ abandoned' = IF wRun[w] = 0 THEN abandoned ELSE abandoned \cup {wRun[w]}
        /\ wPc' = [wPc EXCEPT ![w] = "idle"] /\ wRun' = [wRun EXCEPT ![w] = 0]
    BY <1>16 DEF WorkerCrash, WorkerGoto, Forget, jobVars
  <2> QED  BY <1>1, <1>3, <2>1, RowsKeptUnchanged, StrandWorker
<1> QED
  BY <1>6, <1>7, <1>8, <1>9, <1>10, <1>11, <1>12, <1>13, <1>14, <1>15, <1>16 DEF WorkerStep

LEMMA StrandStep == TypeInv /\ StrandInv /\ [Next]_vars => StrandInv'
<1> SUFFICES ASSUME TypeInv, StrandInv, [Next]_vars PROVE StrandInv'
  OBVIOUS
<1>1. CASE SchedulerTick /\ UNCHANGED workerVars
  <2>1. PICK n \in 1..MaxTicks : /\ jobState[<<"scheduled", n>>] = "none"
                                /\ jobState' = [jobState EXCEPT ![<<"scheduled", n>>] = "waiting"]
    BY <1>1 DEF SchedulerTick
  <2>2. UNCHANGED <<kind, qPc, qRun, jobRun, scans, abandoned, wPc, wRun>> /\ jobState \in [JobId -> JobState]
    BY <1>1 DEF SchedulerTick, requestVars, historyVars, workerVars, locals, TypeInv, TypeOK, TablesTypeOK
  <2>3. \A j \in JobId : jobState[j] # "none" => jobState'[j] = jobState[j] /\ jobRun'[j] = jobRun[j]
    BY <2>1, <2>2
  <2>4. \A q \in Request : ScanJobId(TriggerOf(q)) \in JobId /\ ScanJobId(TriggerOf(q)) # <<"scheduled", n>>
    BY JobIds DEF ScanJobId
  <2> SUFFICES ASSUME NEW i \in DOMAIN scans, CarriedOn(i) PROVE CarriedOn(i)'
    BY <2>2 DEF StrandInv
  <2>5. CASE ByRequest(i)
    <3>1. \A q \in Request : jobState'[ScanJobId(TriggerOf(q))] = jobState[ScanJobId(TriggerOf(q))]
      BY <2>1, <2>2, <2>4
    <3> QED  BY <2>2, <2>5, <3>1 DEF CarriedOn, ByRequest, At, TriggerOf
  <2>6. CASE ByWorker(i) \/ ByJob(i) \/ i \in abandoned
    BY <2>2, <2>3, <2>6 DEF CarriedOn, ByWorker, ByJob
  <2>7. CASE JobIdTaken(i)
    BY <2>2, <2>3, <2>7, RowsKeptUnchanged, StillTaken DEF CarriedOn
  <2> QED  BY <2>5, <2>6, <2>7 DEF CarriedOn
<1>2. CASE \E q \in Request : (RequestStep(q) \/ RequestFault(q) \/ RequestCrash(q)) /\ UNCHANGED workerVars
  BY <1>2, StrandRequestStep
<1>3. CASE \E w \in ScanWorker : WorkerStep(w) \/ WorkerFault(w) \/ WorkerCrash(w)
  BY <1>3, StrandWorkerStep
<1>4. ASSUME NEW j \in JobId, JobStalls(j)
      PROVE  StrandInv'
  <2>1. /\ UNCHANGED <<kind, qPc, qRun, jobRun, scans, abandoned, wPc, wRun>> /\ jobState[j] = "active"
        /\ \E s \in {"waiting", "failed"} : jobState' = [jobState EXCEPT ![j] = s]
        /\ jobState \in [JobId -> JobState]
    BY <1>4 DEF JobStalls, StallJob, requestVars, workerVars, locals, TypeInv, TypeOK, TablesTypeOK
  <2>2. \A k \in JobId : /\ jobState'[k] = "none" <=> jobState[k] = "none"
                         /\ jobState[k] = "waiting" => jobState'[k] = "waiting"
    BY <2>1
  <2> SUFFICES ASSUME NEW i \in DOMAIN scans, CarriedOn(i) PROVE CarriedOn(i)'
    BY <2>1 DEF StrandInv
  <2>3. CASE ByRequest(i)
    BY <2>1, <2>2, <2>3, JobIds DEF CarriedOn, ByRequest, At, TriggerOf
  <2>4. CASE ByWorker(i) \/ ByJob(i) \/ i \in abandoned
    BY <2>1, <2>2, <2>4 DEF CarriedOn, ByWorker, ByJob
  <2>5. CASE JobIdTaken(i)
    BY <2>1, <2>2, <2>5, RowsKeptUnchanged, StillTaken DEF CarriedOn
  <2> QED  BY <2>3, <2>4, <2>5 DEF CarriedOn
<1>5. UNCHANGED <<kind, qPc, qRun, jobRun, jobState, scans, abandoned, wPc, wRun>> => StrandInv'
  BY DEF StrandInv, CarriedOn, ByWorker, ByJob, ByRequest, JobIdTaken, Active, At, TriggerOf
<1> QED
  BY <1>1, <1>2, <1>3, <1>4, <1>5 DEF Next, PushToDefaultBranch, UpdateFindingStatus, vars, tableVars, jobVars,
     schedulingVars, requestVars, historyVars, workerVars, locals

(* Every scan run shown as queued or running has somebody to end it: a     *)
(* waiting or active job, a worker or a request - except for a process that*)
(* died, or failed to write, with the run in hand, and for a trigger whose *)
(* job id an earlier run has used up (codebase-scan-enqueue.service.ts:200)*)
THEOREM SpecNoScanIsStranded == Spec => []NoScanIsStranded
<1>1. Init => StrandInv
  BY DEF Init, TablesInit, StrandInv
<1>2. StrandInv => NoScanIsStranded
  BY DEF StrandInv, CarriedOn, ByWorker, ByJob, ByRequest, NoScanIsStranded, WorkedOn, LiveJob, At
<1> QED
  BY <1>1, <1>2, SpecTypeInv, StrandStep, PTL DEF Spec

-----------------------------------------------------------------------------
(* While no update overlaps another request, it is alone from its start to *)
(* its end; between its two statements the settings differ, and between the*)
(* second and the removal the schedule may outlive them.                   *)
OnlyUpdates == {"save", "saveRepository", "retarget", "reschedule", "remove"}
UpdatesOnly ==
  \A q \in Request : /\ qPc[q] \in OnlyUpdates => Updates(q)
                     /\ qPc[q] = "saveRepository" => kind[q] = "disableAutomation"
Alone == \A p, q \in Request : Updates(p) /\ InProgress(p) /\ InProgress(q) => p = q
SettingsAgree == (\A q \in Request : qPc[q] # "saveRepository") => (automation <=> configured)
ScheduleAgrees ==
  (\A q \in Request : qPc[q] \notin {"saveRepository", "remove"}) => (scheduler => ScanTargetEnabled)
Decided ==
  \A q \in Request :
    /\ qPc[q] = "saveRepository" => ~configured
    /\ qPc[q] = "remove" => ~ScanTargetEnabled
    /\ qPc[q] \in {"schedule", "reschedule"} => ScanTargetEnabled
ScheduleInv ==
  UpdatesOnly /\ (~overlapped => Alone /\ SettingsAgree /\ ScheduleAgrees /\ Decided)

LEMMA ScheduleRequestStep ==
  ASSUME TypeInv, ScheduleInv, NEW q \in Request, RequestStep(q) \/ RequestFault(q) \/ RequestCrash(q)
  PROVE  ScheduleInv'
<1> USE DEF KeepSettings, KeepHistory, historyVars, At, Goto, InProgress, tableVars
<1>1. qPc \in [Request -> RequestPc] /\ UpdatesOnly
  BY DEF TypeInv, TypeOK, SchedulingTypeOK, ScheduleInv
<1>2. ~overlapped => Alone /\ SettingsAgree /\ ScheduleAgrees /\ Decided
  BY DEF ScheduleInv
<1>3. UNCHANGED kind
  BY DEF RequestStep, StartRequest, SaveConfiguration, SaveRepository, FindTarget, SetScheduler, FindTargetAgain,
     FindActive, InsertScanRun, Enqueue, MarkEnqueueFailed, RequestFault, RequestCrash
<1>4. \A p \in Request : Updates(p)' = Updates(p)
  BY <1>3 DEF Updates
(* A step that writes neither the settings nor the schedule, to a place    *)
(* where nothing is decided yet or where the decision has just been made.  *)
<1>5. ASSUME UNCHANGED <<automation, configured, scansEnabled, scheduler>>, overlapped => overlapped',
             NEW pc, qPc' = [qPc EXCEPT ![q] = pc], InProgress(q),
             pc \in OnlyUpdates => Updates(q), pc # "saveRepository",
             ~overlapped' => qPc[q] \notin {"saveRepository", "remove"},
             pc = "remove" => ~ScanTargetEnabled,
             pc \in {"schedule", "reschedule"} => ScanTargetEnabled
      PROVE  ScheduleInv'
  <2>1. UpdatesOnly'
    BY <1>1, <1>3, <1>4, <1>5 DEF UpdatesOnly
  <2>2. ASSUME ~overlapped' PROVE Alone' /\ SettingsAgree' /\ ScheduleAgrees' /\ Decided'
    <3>1. Alone /\ SettingsAgree /\ ScheduleAgrees /\ Decided /\ (ScanTargetEnabled' <=> ScanTargetEnabled)
      BY <1>2, <1>5, <2>2 DEF ScanTargetEnabled
    <3>2. Alone'
      BY <1>1, <1>4, <1>5, <3>1 DEF Alone
    <3>3. SettingsAgree'
      BY <1>1, <1>5, <2>2, <3>1 DEF SettingsAgree
    <3>4. ScheduleAgrees'
      BY <1>1, <1>5, <2>2, <3>1 DEF ScheduleAgrees
    <3>5. Decided'
      BY <1>1, <1>5, <3>1 DEF Decided
    <3> QED  BY <3>2, <3>3, <3>4, <3>5
  <2> QED  BY <2>1, <2>2 DEF ScheduleInv
<1>6. CASE StartRequest(q)
  <2>1. /\ UNCHANGED <<automation, configured, scansEnabled, scheduler>> /\ qPc[q] = "idle"
        /\ qPc' = [qPc EXCEPT ![q] = IF Updates(q) THEN "save" ELSE "target"]
        /\ overlapped' = (overlapped \/ \E p \in Request \ {q} : InProgress(p) /\ (Updates(p) \/ Updates(q)))
    BY <1>6 DEF StartRequest
  <2>2. UpdatesOnly'
    BY <1>1, <1>3, <1>4, <2>1 DEF UpdatesOnly, OnlyUpdates
  <2>3. ASSUME ~overlapped' PROVE Alone' /\ SettingsAgree' /\ ScheduleAgrees' /\ Decided'
    <3>1. Alone /\ SettingsAgree /\ ScheduleAgrees /\ Decided /\ (ScanTargetEnabled' <=> ScanTargetEnabled)
      BY <1>2, <2>1, <2>3 DEF ScanTargetEnabled
    <3>2. \A p \in Request \ {q} : InProgress(p) => ~Updates(p) /\ ~Updates(q)
      BY <2>1, <2>3
    <3>3. \A p \in Request \ {q} : qPc'[p] = qPc[p]
      BY <1>1, <2>1
    <3>4. qPc'[q] \in {"save", "target"}
      BY <1>1, <2>1
    <3>5. Alone'
      BY <1>4, <3>1, <3>2, <3>3 DEF Alone
    <3>6. SettingsAgree' /\ ScheduleAgrees'
      BY <2>1, <3>1, <3>3, <3>4 DEF SettingsAgree, ScheduleAgrees
    <3>7. Decided'
      BY <2>1, <3>1, <3>3, <3>4 DEF Decided
    <3> QED  BY <3>5, <3>6, <3>7
  <2> QED  BY <2>2, <2>3 DEF ScheduleInv
<1>7. CASE SaveConfiguration(q)
  <2>1. /\ UNCHANGED <<automation, scheduler, overlapped>> /\ qPc[q] = "save"
        /\ configured' = (configured /\ kind[q] # "disableAutomation")
        /\ kind[q] = "enableScans" => scansEnabled' = TRUE
        /\ kind[q] = "disableScans" => scansEnabled' = FALSE
        /\ kind[q] = "disableAutomation" => scansEnabled' = scansEnabled
    BY <1>7, Zenon DEF SaveConfiguration
  <2>2. PICK pc : /\ qPc' = [qPc EXCEPT ![q] = pc]
                  /\ kind[q] = "disableAutomation" => pc = "saveRepository"
                  /\ kind[q] = "enableScans" => pc \in {"target", "done"}
                  /\ kind[q] = "disableScans" => pc = "remove"
    BY <1>7, Zenon DEF SaveConfiguration, AfterSave
  <2>3. Updates(q) /\ kind[q] \in {"enableScans", "disableScans", "disableAutomation"}
    BY <1>1, <2>1 DEF UpdatesOnly, OnlyUpdates, Updates, TypeInv, TypeOK, SchedulingTypeOK, Kind
  <2>4. qPc'[q] = pc /\ \A p \in Request \ {q} : qPc'[p] = qPc[p]
    BY <1>1, <2>2
  <2>5. UpdatesOnly'
    BY <1>1, <1>3, <1>4, <2>2, <2>3, <2>4 DEF UpdatesOnly, OnlyUpdates
  <2>6. ASSUME ~overlapped' PROVE Alone' /\ SettingsAgree' /\ ScheduleAgrees' /\ Decided'
    <3>1. Alone /\ SettingsAgree /\ ScheduleAgrees /\ Decided
      BY <1>2, <2>1, <2>6
    <3>2. \A p \in Request \ {q} : qPc[p] \in {"idle", "done"} /\ qPc'[p] \in {"idle", "done"}
      BY <1>1, <2>1, <2>3, <2>4, <3>1 DEF Alone
    <3>3. Alone'
      BY <3>2 DEF Alone
    <3>4. (automation <=> configured) /\ (scheduler => ScanTargetEnabled)
      BY <2>1, <3>1, <3>2 DEF SettingsAgree, ScheduleAgrees
    <3>5. CASE kind[q] = "disableAutomation"
      BY <2>1, <2>2, <2>4, <3>2, <3>3, <3>5 DEF SettingsAgree, ScheduleAgrees, Decided
    <3>6. CASE kind[q] = "enableScans"
      <4>1. SettingsAgree' /\ ScheduleAgrees'
        BY <2>1, <3>4, <3>6 DEF SettingsAgree, ScheduleAgrees, ScanTargetEnabled
      <4>2. Decided'
        BY <2>2, <2>4, <3>2, <3>6 DEF Decided
      <4> QED  BY <3>3, <4>1, <4>2
    <3>7. CASE kind[q] = "disableScans"
      <4>1. SettingsAgree' /\ ScheduleAgrees'
        BY <2>1, <2>2, <2>4, <3>4, <3>7 DEF SettingsAgree, ScheduleAgrees
      <4>2. Decided'
        BY <2>1, <2>2, <2>4, <3>2, <3>7 DEF Decided, ScanTargetEnabled
      <4> QED  BY <3>3, <4>1, <4>2
    <3> QED  BY <2>3, <3>5, <3>6, <3>7
  <2> QED  BY <2>5, <2>6 DEF ScheduleInv
<1>8. CASE SaveRepository(q)
  <2>1. /\ UNCHANGED <<configured, scansEnabled, scheduler, overlapped>> /\ qPc[q] = "saveRepository"
        /\ automation' = FALSE /\ kind[q] = "disableAutomation" /\ Updates(q)
        /\ qPc' = [qPc EXCEPT ![q] = "remove"]
    BY <1>1, <1>8 DEF SaveRepository, AfterSave, UpdatesOnly, Updates
  <2>2. qPc'[q] = "remove" /\ \A p \in Request \ {q} : qPc'[p] = qPc[p]
    BY <1>1, <2>1
  <2>3. UpdatesOnly'
    BY <1>1, <1>3, <1>4, <2>1, <2>2 DEF UpdatesOnly
  <2>4. ASSUME ~overlapped' PROVE Alone' /\ SettingsAgree' /\ ScheduleAgrees' /\ Decided'
    <3>1. Alone /\ Decided
      BY <1>2, <2>1, <2>4
    <3>2. \A p \in Request \ {q} : qPc'[p] \in {"idle", "done"}
      BY <1>1, <2>1, <2>2, <3>1 DEF Alone
    <3>3. ~configured /\ ~ScanTargetEnabled'
      BY <2>1, <3>1 DEF Decided, ScanTargetEnabled
    <3>4. Alone' /\ Decided'
      BY <2>2, <3>2, <3>3 DEF Alone, Decided
    <3>5. SettingsAgree' /\ ScheduleAgrees'
      BY <2>1, <2>2, <3>3 DEF SettingsAgree, ScheduleAgrees
    <3> QED  BY <3>4, <3>5
  <2> QED  BY <2>3, <2>4 DEF ScheduleInv
<1>9. CASE FindTarget(q)
  <2>1. PICK pc \in {"retarget", "done", "find", "schedule"} :
          /\ qPc' = [qPc EXCEPT ![q] = pc]
          /\ pc = "retarget" => Updates(q)
          /\ pc = "schedule" => ScanTargetEnabled
    BY <1>9 DEF FindTarget
  <2>2. UNCHANGED <<automation, configured, scansEnabled, scheduler, overlapped>> /\ qPc[q] = "target"
    BY <1>9 DEF FindTarget
  <2> QED  BY <1>5, <2>1, <2>2 DEF OnlyUpdates
<1>10. CASE SetScheduler(q)
  <2>1. PICK pc \in {"find", "done"} : qPc' = [qPc EXCEPT ![q] = pc]
    BY <1>10, Zenon DEF SetScheduler
  <2>2. /\ UNCHANGED <<automation, configured, scansEnabled, overlapped>>
        /\ \/ qPc[q] \in {"schedule", "reschedule"} /\ scheduler' = TRUE
           \/ qPc[q] = "remove" /\ scheduler' = FALSE
    BY <1>10 DEF SetScheduler
  <2>3. qPc'[q] = pc /\ \A p \in Request \ {q} : qPc'[p] = qPc[p]
    BY <1>1, <2>1
  <2>4. UpdatesOnly'
    BY <1>1, <1>3, <1>4, <2>3 DEF UpdatesOnly, OnlyUpdates
  <2>5. ASSUME ~overlapped' PROVE Alone' /\ SettingsAgree' /\ ScheduleAgrees' /\ Decided'
    <3>1. Alone /\ SettingsAgree /\ ScheduleAgrees /\ Decided /\ (ScanTargetEnabled' <=> ScanTargetEnabled)
      BY <1>2, <2>2, <2>5 DEF ScanTargetEnabled
    <3>2. Alone'
      BY <1>4, <2>2, <2>3, <3>1 DEF Alone
    <3>3. SettingsAgree'
      BY <2>2, <2>3, <3>1 DEF SettingsAgree
    <3>4. ScheduleAgrees'
      BY <2>2, <3>1 DEF ScheduleAgrees, Decided
    <3>5. Decided'
      BY <2>2, <2>3, <3>1 DEF Decided
    <3> QED  BY <3>2, <3>3, <3>4, <3>5
  <2> QED  BY <2>4, <2>5 DEF ScheduleInv
<1>11. CASE FindTargetAgain(q)
  <2>1. /\ qPc' = [qPc EXCEPT ![q] = IF ScanTargetEnabled THEN "reschedule" ELSE "remove"]
        /\ UNCHANGED <<automation, configured, scansEnabled, scheduler, overlapped>> /\ qPc[q] = "retarget"
    BY <1>11 DEF FindTargetAgain
  <2>2. Updates(q)
    BY <1>1, <2>1 DEF UpdatesOnly, OnlyUpdates
  <2> QED  BY <1>5, <2>1, <2>2
<1>12. CASE FindActive(q) \/ InsertScanRun(q) \/ Enqueue(q) \/ MarkEnqueueFailed(q)
  <2>1. /\ UNCHANGED <<automation, configured, scansEnabled, scheduler, overlapped>>
        /\ qPc[q] \in {"find", "findAgain", "insert", "enqueue", "markFailed"}
    BY <1>12 DEF FindActive, InsertScanRun, Enqueue, MarkEnqueueFailed
  <2>2. PICK pc : /\ qPc' = [qPc EXCEPT ![q] = pc]
                  /\ pc \in {"enqueue", "insert", "done", "findAgain", "retarget"}
                  /\ pc = "retarget" => Updates(q)
    BY <1>12, Zenon DEF FindActive, InsertScanRun, Enqueue, AfterEnqueue, MarkEnqueueFailed
  <2> QED  BY <1>5, <2>1, <2>2 DEF OnlyUpdates
<1>13. CASE RequestFault(q) \/ RequestCrash(q)
  <2>1. /\ UNCHANGED <<automation, configured, scansEnabled, scheduler>> /\ InProgress(q)
        /\ overlapped' = (overlapped \/ Updates(q))
    BY <1>13 DEF RequestFault, RequestCrash
  <2>2. PICK pc \in {"findAgain", "markFailed", "done"} : qPc' = [qPc EXCEPT ![q] = pc]
    BY <1>13, Zenon DEF RequestFault, RequestCrash, AfterFailedCall
  <2>3. ~overlapped' => qPc[q] \notin {"saveRepository", "remove"}
    BY <1>1, <2>1 DEF UpdatesOnly, OnlyUpdates
  <2> QED  BY <1>5, <2>1, <2>2, <2>3 DEF OnlyUpdates
<1> QED
  BY <1>6, <1>7, <1>8, <1>9, <1>10, <1>11, <1>12, <1>13 DEF RequestStep

LEMMA ScheduleStep == TypeInv /\ ScheduleInv /\ [Next]_vars => ScheduleInv'
<1> SUFFICES ASSUME TypeInv, ScheduleInv, [Next]_vars PROVE ScheduleInv'
  OBVIOUS
<1>1. UNCHANGED <<kind, automation, configured, scansEnabled, qPc, overlapped, scheduler>> => ScheduleInv'
  BY DEF ScheduleInv, UpdatesOnly, Alone, SettingsAgree, ScheduleAgrees, Decided, ScanTargetEnabled, Updates,
     InProgress
<1>2. ASSUME NEW w \in ScanWorker, WorkerStep(w) \/ WorkerFault(w) \/ WorkerCrash(w)
      PROVE  UNCHANGED <<kind, automation, configured, scansEnabled, qPc, overlapped, scheduler>>
  BY <1>2 DEF WorkerStep, Take, CreateScan, AssertRepositoryEnabled, FetchDefaultBranchSha, HasSuccessful,
     MarkSuperseded, MarkRunning, UpsertFinding, MarkSucceeded, ReadOwnStatus, ResolveStaleFindings,
     MarkScanFailed, EndAttempt, WorkerFault, WorkerCrash, OnlyWorkerPc, KeepTables, tableVars, schedulingVars,
     requestVars, historyVars
<1> QED
  BY <1>1, <1>2, ScheduleRequestStep DEF Next, PushToDefaultBranch, SchedulerTick, JobStalls, UpdateFindingStatus,
     vars, tableVars, schedulingVars, requestVars, historyVars

(* When every request has ended, the job scheduler exists only for a       *)
(* repository that is to be scanned, unless an update overlapped another   *)
(* request or failed halfway (repository-configuration.service.ts:104-125).*)
THEOREM SpecScheduleFollowsSettings == Spec => []ScheduleFollowsSettings
<1>1. Init => ScheduleInv
  BY DEF Init, TablesInit, SchedulingInit, ScheduleInv, UpdatesOnly, Alone, SettingsAgree, ScheduleAgrees, Decided,
     OnlyUpdates, InProgress
<1>2. ScheduleInv => ScheduleFollowsSettings
  BY DEF ScheduleInv, ScheduleAgrees, ScheduleFollowsSettings, InProgress
<1> QED
  BY <1>1, <1>2, SpecTypeInv, ScheduleStep, PTL DEF Spec

-----------------------------------------------------------------------------
(* While nothing has been disturbed, one worker at a time is between its   *)
(* reading of the branch and its last write; what it has upserted is open, *)
(* what it scans is no older than the scan resolved last, and its final    *)
(* write cannot meet the unique index of succeeded scans.                  *)
InCore(w) == wPc[w] \in KnowsCommit
Follows(c) == \A k \in Key \ byHand : findings[k] = "open" <=> c # 0 /\ k \in Seen[c]
Bounds ==
  /\ latest <= branchHead
  /\ \A w \in ScanWorker : wCommit[w] <= branchHead
  /\ \A k \in Key : findings[k] = "muted" => k \in byHand
OneScan == \A v, w \in ScanWorker : InCore(v) /\ InCore(w) => v = w
Place(w) ==
  /\ InCore(w) => latest <= wCommit[w]
  /\ wPc[w] \in {"markRunning"} \cup Started => ~HasSuccessfulScan(wRun[w], wCommit[w])
  /\ wPc[w] \in Started => scans[wRun[w]].commit = wCommit[w]
  /\ wPc[w] \in {"readStatus", "resolve", "markAgain"} => scans[wRun[w]].status = "succeeded"
  /\ wPc[w] = "upsert" => /\ wTodo[w] \subseteq Seen[wCommit[w]]
                         /\ \A k \in Seen[wCommit[w]] \ (byHand \cup wTodo[w]) : findings[k] = "open"
  /\ wPc[w] \in {"readStatus", "resolve"} =>
       /\ \A k \in Seen[wCommit[w]] \ byHand : findings[k] = "open"
       /\ \A p \in scanned : p[2] <= wCommit[w]
  /\ wPc[w] = "markAgain" => latest = wCommit[w]
Settled ==
  /\ (\A w \in ScanWorker : ~WritesFindings(w)) => Follows(latest)
  /\ (\A w \in ScanWorker : wPc[w] \notin {"readStatus", "resolve"}) => \A p \in scanned : p[2] <= latest
FindingsInv ==
  /\ UniqueIndexes(scans) /\ Bounds
  /\ ~disturbed => OneScan /\ (\A w \in ScanWorker : Place(w)) /\ Settled

(* The unique indexes cannot be met by an update that makes a run neither  *)
(* active nor succeeded, nor by the only success of a commit.              *)
LEMMA UniqueDropped ==
  ASSUME TypeInv, UniqueIndexes(scans), NEW i \in DOMAIN scans, NEW s \in {"failed", "superseded"},
         \/ scans' = WithStatus(i, s)
         \/ \E c \in Commit : scans' = WithCommit(i, s, c)
  PROVE  UniqueIndexes(scans')
<1>1. s \in ScanStatus
  BY DEF ScanStatus
<1>2. /\ DOMAIN scans' = DOMAIN scans /\ scans'[i].status = s
      /\ \A j \in DOMAIN scans : j # i => scans'[j] = scans[j]
  BY <1>1, UpdatedStatus
<1> QED
  BY <1>2 DEF UniqueIndexes, Active

LEMMA UniqueSucceeded ==
  ASSUME TypeInv, UniqueIndexes(scans), NEW i \in DOMAIN scans, scans[i].commit # 0,
         ~HasSuccessfulScan(i, scans[i].commit)
  PROVE  UniqueIndexes(WithStatus(i, "succeeded"))
<1> DEFINE u == WithStatus(i, "succeeded")
<1>1. scans \in Seq(ScanRow) /\ "succeeded" \in ScanStatus
  BY RowIds DEF ScanStatus
<1>2. /\ DOMAIN u = DOMAIN scans /\ u[i].status = "succeeded" /\ u[i].commit = scans[i].commit
      /\ \A j \in DOMAIN scans : j # i => u[j] = scans[j]
  BY <1>1, StatusSet
<1>3. \A j \in DOMAIN scans : j # i => ~(scans[j].commit = scans[i].commit /\ scans[j].status = "succeeded")
  BY DEF HasSuccessfulScan
<1> HIDE DEF u
<1>4. UniqueIndexes(u)
  BY <1>2, <1>3 DEF UniqueIndexes, Active
<1> QED
  BY <1>4 DEF u

LEMMA NoNewSuccess ==
  ASSUME NoOutcome
  PROVE  \A i, c : HasSuccessfulScan(i, c)' => HasSuccessfulScan(i, c)
BY DEF NoOutcome, HasSuccessfulScan

(* Steps that leave the findings alone: each worker either stays in its    *)
(* place with its row as it was, or comes to a place from one that does not*)
(* write findings.                                                         *)
LEMMA FindingsKept ==
  ASSUME FindingsInv, UNCHANGED <<findings, byHand, scanned, latest>>,
         UniqueIndexes(scans'), Bounds', disturbed => disturbed',
         \A i, c : HasSuccessfulScan(i, c)' => HasSuccessfulScan(i, c),
         ~disturbed /\ ~disturbed' =>
            OneScan' /\ \A w \in ScanWorker :
              \/ /\ wPc'[w] = wPc[w] /\ wRun'[w] = wRun[w] /\ wCommit'[w] = wCommit[w] /\ wTodo'[w] = wTodo[w]
                 /\ wPc[w] \in Started => scans'[wRun[w]].commit = scans[wRun[w]].commit
                 /\ wPc[w] \in {"readStatus", "resolve", "markAgain"} =>
                      scans'[wRun[w]].status = scans[wRun[w]].status
              \/ ~WritesFindings(w) /\ Place(w)'
  PROVE  FindingsInv'
<1> SUFFICES ASSUME ~disturbed' PROVE (\A w \in ScanWorker : Place(w)') /\ Settled'
  BY DEF FindingsInv
<1>1. ~disturbed /\ (\A w \in ScanWorker : Place(w)) /\ Settled
  BY DEF FindingsInv
<1>2. ASSUME NEW w \in ScanWorker PROVE Place(w)'
  BY <1>1 DEF Place, InCore, Started
<1>3. Settled'
  <2>1. \A w \in ScanWorker : WritesFindings(w) => WritesFindings(w)'
    BY <1>1 DEF WritesFindings
  <2>2. \A w \in ScanWorker : wPc[w] \in {"readStatus", "resolve"} => wPc'[w] \in {"readStatus", "resolve"}
    BY <1>1 DEF WritesFindings
  <2>3. Follows(latest)' <=> Follows(latest)
    BY DEF Follows
  <2> QED  BY <1>1, <2>1, <2>2, <2>3 DEF Settled
<1> QED
  BY <1>2, <1>3

LEMMA FindingsRequestStep ==
  ASSUME TypeInv, FindingsInv, NEW q \in Request, UNCHANGED workerVars,
         RequestStep(q) \/ RequestFault(q) \/ RequestCrash(q)
  PROVE  FindingsInv'
<1> USE DEF KeepSettings, KeepHistory, historyVars, tableVars, workerVars, locals
<1>a. UNCHANGED <<findings, byHand, scanned, latest, branchHead, wPc, wRun, wCommit, wTodo>>
  BY DEF RequestStep, StartRequest, SaveConfiguration, SaveRepository, FindTarget, SetScheduler, FindTargetAgain,
     FindActive, InsertScanRun, Enqueue, MarkEnqueueFailed, RequestFault, RequestCrash
<1>b. disturbed => disturbed'
  <2>1. CASE MarkEnqueueFailed(q)
    BY <2>1, Zenon DEF MarkEnqueueFailed
  <2>2. ~MarkEnqueueFailed(q) => UNCHANGED disturbed
    BY DEF RequestStep, StartRequest, SaveConfiguration, SaveRepository, FindTarget, SetScheduler, FindTargetAgain,
       FindActive, InsertScanRun, Enqueue, RequestFault, RequestCrash
  <2> QED  BY <2>1, <2>2, Zenon
<1>1. /\ UNCHANGED <<findings, byHand, scanned, latest, branchHead, wPc, wRun, wCommit, wTodo>>
      /\ disturbed => disturbed'
  BY <1>a, <1>b
<1>2. Bounds' /\ UniqueIndexes(scans) /\ (~disturbed => OneScan')
  BY <1>1 DEF FindingsInv, Bounds, OneScan, InCore
<1>3. CASE UNCHANGED scans
  BY <1>1, <1>2, <1>3, NoNewSuccess, FindingsKept DEF NoOutcome
<1>4. CASE InsertScanRun(q) /\ scans' = Inserted(TriggerOf(q))
  <2>1. TriggerOf(q) \in Trigger /\ scans \in Seq(ScanRow)
    BY JobIds, RowIds DEF Trigger
  <2>2. NoOutcome
    BY <1>4, <2>1, NoOutcomeInserted
  <2>4. UniqueIndexes(scans')
    <3>1. Len(scans') # Len(scans)
      BY <1>4, <2>1, Appended DEF Inserted
    <3> QED  BY <1>4, <3>1 DEF InsertScanRun
  <2>3. \A w \in ScanWorker : wPc[w] \in Started => scans'[wRun[w]] = scans[wRun[w]]
    BY <1>4, <2>1, Appended, WorkersRow DEF Inserted, TypeInv, WorkerInv, WorkerOK, HasRun, Started, WorkerPc
  <2> QED  BY <1>1, <1>2, <2>2, <2>3, <2>4, NoNewSuccess, FindingsKept DEF Started
<1>5. CASE MarkEnqueueFailed(q)
  <2>1. /\ qRun[q] \in DOMAIN scans /\ scans' = WithStatus(qRun[q], "failed")
        /\ disturbed' = (disturbed \/ scans[qRun[q]].status # "queued") /\ "failed" \in ScanStatus
    BY <1>5 DEF MarkEnqueueFailed, At, TypeInv, RequestInv, ScanStatus
  <2>2. NoOutcome /\ UniqueIndexes(scans')
    BY <1>2, <2>1, NoOutcomeUpdated, UniqueDropped
  <2>3. /\ scans'[qRun[q]].commit = scans[qRun[q]].commit
        /\ \A i \in DOMAIN scans : i # qRun[q] => scans'[i] = scans[i]
    BY <2>1, RowIds, StatusSet
  <2>4. \A w \in ScanWorker : wPc[w] \in Started => wRun[w] \in DOMAIN scans
    BY WorkersRow DEF TypeInv, WorkerInv, WorkerOK, HasRun, Started, WorkerPc
  <2>5. ~disturbed /\ ~disturbed' => \A w \in ScanWorker : wPc[w] \in {"readStatus", "resolve", "markAgain"} =>
           wRun[w] # qRun[q]
    BY <2>1 DEF FindingsInv, Place
  <2> QED  BY <1>1, <1>2, <2>2, <2>3, <2>4, <2>5, NoNewSuccess, FindingsKept DEF Started
<1>6. RequestStep(q) /\ ~(InsertScanRun(q) /\ scans' = Inserted(TriggerOf(q))) /\ ~MarkEnqueueFailed(q)
        => UNCHANGED scans
  BY DEF RequestStep, StartRequest, SaveConfiguration, SaveRepository, FindTarget, SetScheduler,
     FindTargetAgain, FindActive, InsertScanRun, Enqueue
<1> QED
  BY <1>3, <1>4, <1>5, <1>6 DEF RequestFault, RequestCrash

(* The steps of a worker that leave the findings alone.                    *)
LEMMA FindingsQuietStep ==
  ASSUME TypeInv, FindingsInv, NEW w \in ScanWorker,
         \/ (\E j \in JobId : Take(w, j)) \/ CreateScan(w) \/ AssertRepositoryEnabled(w)
         \/ FetchDefaultBranchSha(w) \/ HasSuccessful(w) \/ MarkSuperseded(w) \/ MarkRunning(w)
         \/ MarkScanFailed(w) \/ EndAttempt(w) \/ WorkerFault(w) \/ WorkerCrash(w)
  PROVE  FindingsInv'
<1> USE DEF tableVars, schedulingVars, requestVars, historyVars, KeepTables, OnlyWorkerPc, locals, WorkerAt
<1>1. /\ wPc \in [ScanWorker -> WorkerPc] /\ wRun \in [ScanWorker -> 0..MaxScans]
      /\ wCommit \in [ScanWorker -> 0..MaxCommit] /\ wTodo \in [ScanWorker -> SUBSET Key]
      /\ branchHead \in Commit /\ latest \in 0..MaxCommit /\ scans \in Seq(ScanRow)
      /\ \A v \in ScanWorker : WorkerOK(v)
  BY RowIds DEF TypeInv, TypeOK, PipelineTypeOK, WorkerInv
<1>2. \A v \in ScanWorker :
        /\ wPc[v] \in HasRun => wRun[v] \in DOMAIN scans
        /\ wPc[v] \in KnowsCommit => wCommit[v] \in Commit
  <2> SUFFICES ASSUME NEW v \in ScanWorker
               PROVE  /\ wPc[v] \in HasRun => wRun[v] \in DOMAIN scans
                      /\ wPc[v] \in KnowsCommit => wCommit[v] \in Commit
    OBVIOUS
  <2> QED  BY <1>1, WorkersRow, ScanTablesAssumption DEF WorkerOK, Commit
<1>3. \A v \in ScanWorker : wPc[v] \in Started => wRun[v] \in DOMAIN scans
  BY <1>2, Places
<1>4. UniqueIndexes(scans) /\ Bounds /\ (~disturbed => OneScan /\ (\A v \in ScanWorker : Place(v)) /\ Settled)
  BY DEF FindingsInv
<1>a. disturbed => disturbed'
  <2>1. CASE FetchDefaultBranchSha(w) \/ MarkScanFailed(w) \/ WorkerFault(w) \/ WorkerCrash(w)
    BY <2>1, Zenon DEF FetchDefaultBranchSha, MarkScanFailed, WorkerFault, WorkerCrash
  <2>2. ~(FetchDefaultBranchSha(w) \/ MarkScanFailed(w) \/ WorkerFault(w) \/ WorkerCrash(w)) => UNCHANGED disturbed
    BY DEF Take, CreateScan, AssertRepositoryEnabled, HasSuccessful, MarkSuperseded, MarkRunning, EndAttempt
  <2> QED  BY <2>1, <2>2, Zenon
<1>b. /\ UNCHANGED <<findings, byHand, scanned, latest, branchHead>>
      /\ \A v \in ScanWorker \ {w} : wPc'[v] = wPc[v] /\ wRun'[v] = wRun[v] /\ wCommit'[v] = wCommit[v]
                                     /\ wTodo'[v] = wTodo[v]
  BY <1>1 DEF Take, CreateScan, AssertRepositoryEnabled, FetchDefaultBranchSha, HasSuccessful, MarkSuperseded,
     MarkRunning, MarkScanFailed, EndAttempt, WorkerFault, WorkerCrash, WorkerGoto, Forget
<1>5. /\ UNCHANGED <<findings, byHand, scanned, latest, branchHead>> /\ (disturbed => disturbed')
      /\ \A v \in ScanWorker \ {w} : wPc'[v] = wPc[v] /\ wRun'[v] = wRun[v] /\ wCommit'[v] = wCommit[v]
                                     /\ wTodo'[v] = wTodo[v]
  BY <1>a, <1>b
(* The worker goes to a place outside the core, or leaves one.             *)
<1>6. ASSUME UNCHANGED scans, wCommit'[w] \in {0, wCommit[w]}, ~InCore(w)',
             ~disturbed' => ~WritesFindings(w)
      PROVE  FindingsInv'
  <2>1. Bounds'
    BY <1>1, <1>4, <1>5, <1>6, SMTT(60) DEF Bounds, Commit
  <2>2. ~disturbed => OneScan'
    BY <1>4, <1>5, <1>6 DEF OneScan, InCore
  <2>3. Place(w)'
    BY <1>6 DEF Place, InCore, KnowsCommit, Started
  <2> QED  BY <1>4, <1>5, <1>6, <2>1, <2>2, <2>3, NoNewSuccess, FindingsKept DEF NoOutcome
<1>7. CASE \E j \in JobId : Take(w, j)
  BY <1>1, <1>6, <1>7 DEF Take, WorkerGoto, InCore, KnowsCommit, WritesFindings
<1>8. CASE CreateScan(w)
  <2>1. ~InCore(w)' /\ ~WritesFindings(w) /\ wCommit'[w] = wCommit[w]
    BY <1>1, <1>8 DEF CreateScan, WorkerGoto, InCore, KnowsCommit, WritesFindings
  <2>2. CASE UNCHANGED scans
    BY <1>6, <2>1, <2>2
  <2>3. CASE scans' = Inserted("scheduled") /\ UniqueIndexes(scans')
    <3>1. PICK t \in Trigger : scans' = Inserted(t)
      BY <2>3 DEF Trigger
    <3>2. NoOutcome /\ \A i \in DOMAIN scans : scans'[i] = scans[i]
      BY <1>1, <3>1, NoOutcomeInserted, Appended DEF Inserted
    <3>3. Bounds' /\ (~disturbed => OneScan') /\ Place(w)'
      BY <1>1, <1>4, <1>5, <2>1 DEF Bounds, OneScan, InCore, Place, KnowsCommit, Started
    <3> QED  BY <1>3, <1>4, <1>5, <2>1, <2>3, <3>2, <3>3, NoNewSuccess, FindingsKept DEF Started
  <2> QED  BY <1>8, <2>2, <2>3 DEF CreateScan
<1>9. CASE AssertRepositoryEnabled(w)
  BY <1>1, <1>6, <1>9 DEF AssertRepositoryEnabled, WorkerGoto, InCore, KnowsCommit, WritesFindings
<1>10. CASE FetchDefaultBranchSha(w)
  <2>1. /\ UNCHANGED scans /\ wPc[w] = "fetchSha" /\ wPc'[w] = "hasSuccessful" /\ wCommit'[w] = branchHead
        /\ disturbed' = (disturbed \/ \E v \in ScanWorker \ {w} : InScan(v))
    BY <1>1, <1>10 DEF FetchDefaultBranchSha, WorkerGoto
  <2>2. Bounds'
    BY <1>1, <1>4, <1>5, <2>1, SMTT(60) DEF Bounds, Commit
  <2>3. ~disturbed' => \A v \in ScanWorker \ {w} : ~InCore(v)'
    BY <1>5, <2>1 DEF InScan, InCore, KnowsCommit
  <2>4. ~disturbed' => OneScan'
    BY <2>3 DEF OneScan
  <2>5. Place(w)'
    BY <1>4, <1>5, <2>1 DEF Place, Bounds, Started
  <2> QED  BY <1>4, <1>5, <2>1, <2>2, <2>4, <2>5, NoNewSuccess, FindingsKept DEF NoOutcome, WritesFindings
<1>11. CASE HasSuccessful(w)
  <2>1. /\ UNCHANGED <<scans, wRun, wCommit>> /\ wPc[w] = "hasSuccessful"
        /\ \/ wPc'[w] = "markSuperseded"
           \/ wPc'[w] = "markRunning" /\ ~HasSuccessfulScan(wRun[w], wCommit[w])
    BY <1>1, <1>11 DEF HasSuccessful, WorkerGoto
  <2>2. Bounds' /\ (~disturbed => OneScan')
    BY <1>4, <1>5, <2>1 DEF Bounds, OneScan, InCore, KnowsCommit
  <2>3. HasSuccessfulScan(wRun[w], wCommit[w])' <=> HasSuccessfulScan(wRun[w], wCommit[w])
    BY <2>1 DEF HasSuccessfulScan
  <2>4. ~disturbed => Place(w)'
    BY <1>4, <1>5, <2>1, <2>3 DEF Place, InCore, KnowsCommit, Started
  <2> QED  BY <1>4, <1>5, <2>1, <2>2, <2>4, NoNewSuccess, FindingsKept DEF NoOutcome, WritesFindings
(* The worker writes its own row, and takes no other worker's from it.     *)
<1>12. ASSUME wPc[w] \in HasRun, NEW s \in {"failed", "superseded"}, ~WritesFindings(w), ~InCore(w)',
              wCommit'[w] = wCommit[w],
              \/ scans' = WithStatus(wRun[w], s)
              \/ \E c \in Commit : scans' = WithCommit(wRun[w], s, c),
              \A i, c : HasSuccessfulScan(i, c)' => HasSuccessfulScan(i, c),
              ~disturbed /\ ~disturbed' => \A v \in ScanWorker \ {w} : wPc[v] \in Started => wRun[v] # wRun[w]
       PROVE  FindingsInv'
  <2>1. wRun[w] \in DOMAIN scans /\ s \in ScanStatus
    BY <1>2, <1>12, Zenon DEF ScanStatus
  <2>2. UniqueIndexes(scans') /\ \A i \in DOMAIN scans : i # wRun[w] => scans'[i] = scans[i]
    BY <1>4, <1>12, <2>1, UniqueDropped, UpdatedStatus
  <2>3. Bounds' /\ (~disturbed => OneScan') /\ Place(w)'
    BY <1>4, <1>5, <1>12 DEF Bounds, OneScan, InCore, Place, KnowsCommit, Started
  <2> QED  BY <1>3, <1>4, <1>5, <1>12, <2>2, <2>3, FindingsKept DEF Started
<1>13. CASE MarkSuperseded(w)
  <2>1. /\ wPc[w] = "markSuperseded" /\ wPc'[w] = "return" /\ wCommit' = wCommit /\ wCommit[w] \in Commit
        /\ scans' = WithCommit(wRun[w], "superseded", wCommit[w]) /\ wRun[w] \in DOMAIN scans
        /\ "superseded" \in ScanStatus
    <3>1. wPc[w] = "markSuperseded" /\ wPc[w] \in KnowsCommit /\ wPc[w] \in HasRun
      BY <1>13, Places DEF MarkSuperseded, KnowsCommit
    <3> QED  BY <1>1, <1>2, <1>13, <3>1 DEF MarkSuperseded, WorkerGoto, ScanStatus
  <2>2. \A i, c : HasSuccessfulScan(i, c)' => HasSuccessfulScan(i, c)
    BY <1>1, <2>1, CommitSet, SMTT(60) DEF HasSuccessfulScan
  <2>3. ~disturbed => \A v \in ScanWorker \ {w} : wPc[v] \notin Started
    BY <1>4, <2>1 DEF OneScan, InCore, KnowsCommit, Started
  <2> QED  BY <1>12, <2>1, <2>2, <2>3 DEF HasRun, WorkerPc, WritesFindings, InCore, KnowsCommit
<1>14. CASE MarkRunning(w)
  <2>1. /\ wPc[w] = "markRunning" /\ wRun[w] \in DOMAIN scans /\ wCommit[w] \in Commit
        /\ UNCHANGED <<wRun, wCommit, disturbed>> /\ "running" \in ScanStatus
    <3>1. wPc[w] = "markRunning" /\ wPc[w] \in KnowsCommit /\ wPc[w] \in HasRun
      BY <1>14, Places DEF MarkRunning, KnowsCommit
    <3> QED  BY <1>2, <1>14, <3>1 DEF MarkRunning, ScanStatus
  <2>2. CASE UNCHANGED scans /\ WorkerGoto(w, "markFailed")
    BY <1>1, <1>6, <2>1, <2>2 DEF WorkerGoto, InCore, KnowsCommit, WritesFindings
  <2>3. CASE /\ UniqueIndexes(scans') /\ scans' = WithCommit(wRun[w], "running", wCommit[w])
             /\ wTodo' = [wTodo EXCEPT ![w] = Seen[wCommit[w]]] /\ WorkerGoto(w, "upsert")
    <3>1. /\ scans'[wRun[w]].commit = wCommit[w] /\ DOMAIN scans' = DOMAIN scans
          /\ \A i \in DOMAIN scans : i # wRun[w] => scans'[i] = scans[i]
          /\ wPc'[w] = "upsert" /\ wTodo'[w] = Seen[wCommit[w]]
      BY <1>1, <2>1, <2>3, CommitSet DEF WorkerGoto
    <3>2. \A i, c : HasSuccessfulScan(i, c)' => HasSuccessfulScan(i, c)
      BY <2>1, <2>3, NoOutcomeUpdated, NoNewSuccess
    <3>3. Bounds' /\ (~disturbed => OneScan')
      BY <1>4, <1>5, <2>1, <3>1 DEF Bounds, OneScan, InCore, KnowsCommit
    <3>4. ~disturbed => Place(w)'
      BY <1>4, <1>5, <2>1, <3>1, <3>2 DEF Place, InCore, KnowsCommit, Started
    <3>5. ~disturbed => \A v \in ScanWorker \ {w} : wPc[v] \notin Started
      BY <1>4, <2>1 DEF OneScan, InCore, KnowsCommit, Started
    <3> QED  BY <1>4, <1>5, <2>1, <2>3, <3>2, <3>3, <3>4, <3>5, FindingsKept DEF WritesFindings, Started
  <2> QED  BY <1>14, <2>2, <2>3 DEF MarkRunning
<1>15. CASE MarkScanFailed(w)
  <2>1. /\ wPc[w] = "markFailed" /\ wPc'[w] = "raise" /\ wCommit' = wCommit /\ wRun[w] \in DOMAIN scans
        /\ scans' = WithStatus(wRun[w], "failed")
        /\ disturbed' = (disturbed \/ \E v \in ScanWorker \ {w} : wRun[v] = wRun[w] /\ InScan(v))
    <3>1. wPc[w] = "markFailed" /\ wPc[w] \in HasRun
      BY <1>15, Places DEF MarkScanFailed
    <3> QED  BY <1>1, <1>2, <1>15, <3>1 DEF MarkScanFailed, WorkerGoto
  <2>2. \A i, c : HasSuccessfulScan(i, c)' => HasSuccessfulScan(i, c)
    BY <2>1, NoOutcomeUpdated, NoNewSuccess
  <2>3. ~disturbed' => \A v \in ScanWorker \ {w} : wPc[v] \in Started => wRun[v] # wRun[w]
    BY <2>1 DEF InScan, Started
  <2> QED  BY <1>12, <2>1, <2>2, <2>3 DEF HasRun, WorkerPc, WritesFindings, InCore, KnowsCommit
<1>16. CASE EndAttempt(w)
  BY <1>1, <1>6, <1>16 DEF EndAttempt, WorkerGoto, Forget, InCore, KnowsCommit, WritesFindings
<1>17. CASE WorkerFault(w) \/ WorkerCrash(w)
  <2>1. UNCHANGED scans /\ (~disturbed' => ~WritesFindings(w)) /\ wCommit'[w] \in {0, wCommit[w]} /\ ~InCore(w)'
    BY <1>1, <1>17 DEF WorkerFault, WorkerCrash, WorkerGoto, Forget, InCore, KnowsCommit
  <2> QED  BY <1>6, <2>1
<1> QED
  BY <1>7, <1>8, <1>9, <1>10, <1>11, <1>13, <1>14, <1>15, <1>16, <1>17

(* The steps of a worker that write findings or that a scan has succeeded. *)
LEMMA FindingsWriteStep ==
  ASSUME TypeInv, FindingsInv, NEW w \in ScanWorker,
         \/ \E k \in Key : UpsertFinding(w, k)
         \/ MarkSucceeded(w) \/ ReadOwnStatus(w) \/ ResolveStaleFindings(w)
  PROVE  FindingsInv'
<1> USE DEF tableVars, schedulingVars, requestVars, historyVars, KeepTables, OnlyWorkerPc, locals, WorkerAt
<1>1. /\ wPc \in [ScanWorker -> WorkerPc] /\ wRun \in [ScanWorker -> 0..MaxScans]
      /\ wCommit \in [ScanWorker -> 0..MaxCommit] /\ wTodo \in [ScanWorker -> SUBSET Key]
      /\ branchHead \in Commit /\ latest \in 0..MaxCommit /\ scans \in Seq(ScanRow)
      /\ findings \in [Key -> FindingStatus] /\ scanned \subseteq ScanId \X Commit
  BY RowIds DEF TypeInv, TypeOK, PipelineTypeOK, TablesTypeOK
<1>2. UniqueIndexes(scans) /\ Bounds /\ (~disturbed => OneScan /\ (\A v \in ScanWorker : Place(v)) /\ Settled)
  BY DEF FindingsInv
<1>3. UNCHANGED <<disturbed, wRun, wCommit, branchHead>> /\ wPc[w] \in Started
  BY DEF UpsertFinding, MarkSucceeded, UpsertsDone, ReadOwnStatus, ResolveStaleFindings, Started
<1>4. wRun[w] \in DOMAIN scans /\ scans[wRun[w]].commit # 0 /\ wCommit[w] # 0
  BY <1>3, Places, WorkersRow DEF TypeInv, WorkerInv, WorkerOK
<1>5. \A v \in ScanWorker \ {w} : wPc'[v] = wPc[v] /\ wTodo'[v] = wTodo[v]
  BY <1>1 DEF UpsertFinding, MarkSucceeded, ReadOwnStatus, ResolveStaleFindings, WorkerGoto
<1>6. ~disturbed => \A v \in ScanWorker \ {w} : ~InCore(v) /\ ~InCore(v)' /\ Place(v)'
                                          /\ ~WritesFindings(v) /\ ~WritesFindings(v)'
  BY <1>2, <1>3, <1>5, Places DEF OneScan, InCore, Place, WritesFindings, KnowsCommit, Started
<1>7. ~disturbed => OneScan'
  BY <1>6 DEF OneScan
<1>8. SUFFICES /\ UniqueIndexes(scans') /\ Bounds'
               /\ ~disturbed => Place(w)' /\ Settled'
  BY <1>3, <1>6, <1>7 DEF FindingsInv
<1>9. ASSUME UNCHANGED scans
      PROVE  HasSuccessfulScan(wRun[w], wCommit[w])' <=> HasSuccessfulScan(wRun[w], wCommit[w])
  BY <1>3, <1>9 DEF HasSuccessfulScan
<1>10. ASSUME NEW k \in Key, UpsertFinding(w, k)
       PROVE  /\ UniqueIndexes(scans') /\ Bounds'
              /\ ~disturbed => Place(w)' /\ Settled'
  <2>1. /\ UNCHANGED <<scans, scanned, latest, wPc>> /\ wPc[w] = "upsert"
        /\ wTodo'[w] = wTodo[w] \ {k}
    BY <1>1, <1>10 DEF UpsertFinding
  <2>2. \A x \in Key \ {k} : findings'[x] = findings[x] /\ (x \in byHand' <=> x \in byHand)
    BY <1>1, <1>10 DEF UpsertFinding
  <2>3. findings'[k] = IF findings[k] = "muted" THEN "muted" ELSE "open"
    BY <1>1, <1>10 DEF UpsertFinding
  <2>4. findings[k] = "muted" => k \in byHand'
    BY <1>2, <1>10 DEF UpsertFinding, Bounds
  <2>5. Bounds'
    BY <1>2, <1>3, <2>1, <2>2, <2>3, <2>4 DEF Bounds
  <2>6. ASSUME ~disturbed PROVE Place(w)'
    <3>1. Place(w) /\ Seen[wCommit[w]] \subseteq Key
      BY <1>1, <1>2, <1>4, <2>6, PipelineAssumption, ScanTablesAssumption DEF Commit
    <3>2. wTodo'[w] \subseteq Seen[wCommit[w]]
      BY <2>1, <3>1 DEF Place
    <3>3. \A x \in Seen[wCommit[w]] \ (byHand' \cup wTodo'[w]) : findings'[x] = "open"
      BY <2>1, <2>2, <2>3, <2>4, <3>1 DEF Place
    <3> QED  BY <1>3, <1>9, <2>1, <3>1, <3>2, <3>3 DEF Place, InCore, KnowsCommit, Started
  <2>7. ASSUME ~disturbed PROVE Settled'
    BY <1>2, <2>1, <2>7 DEF Settled, WritesFindings
  <2> QED  BY <1>2, <2>1, <2>5, <2>6, <2>7
<1>11. CASE MarkSucceeded(w)
  <2>1. (wPc[w] = "upsert" /\ wTodo[w] = {}) \/ wPc[w] = "markAgain"
    BY <1>11 DEF MarkSucceeded, UpsertsDone
  <2>2. UNCHANGED <<findings, byHand, latest, wTodo>>
    BY <1>11 DEF MarkSucceeded
  <2>3. Bounds'
    BY <1>2, <1>3, <2>2 DEF Bounds
  <2>4. ~disturbed => scans[wRun[w]].commit = wCommit[w] /\ ~HasSuccessfulScan(wRun[w], wCommit[w])
    BY <1>2, <1>3 DEF Place, Started
  <2>5. ~disturbed => UniqueIndexes(WithStatus(wRun[w], "succeeded"))
    BY <1>2, <1>4, <2>4, UniqueSucceeded
  <2>6. CASE ~UniqueIndexes(WithStatus(wRun[w], "succeeded"))
    BY <1>2, <1>11, <2>3, <2>5, <2>6 DEF MarkSucceeded
  <2>7. CASE UniqueIndexes(WithStatus(wRun[w], "succeeded"))
    <3>1. /\ scans' = WithStatus(wRun[w], "succeeded") /\ UniqueIndexes(scans')
          /\ scanned' = scanned \cup {<<wRun[w], scans[wRun[w]].commit>>}
          /\ wPc'[w] = IF wPc[w] = "markAgain" THEN "return" ELSE "readStatus"
      BY <1>1, <1>11, <2>7 DEF MarkSucceeded, WorkerGoto
    <3>2. /\ DOMAIN scans' = DOMAIN scans /\ scans'[wRun[w]].commit = scans[wRun[w]].commit
          /\ scans'[wRun[w]].status = "succeeded"
          /\ \A j \in DOMAIN scans : j # wRun[w] => scans'[j] = scans[j]
      BY <1>1, <1>4, <3>1, StatusSet DEF ScanStatus
    <3>3. HasSuccessfulScan(wRun[w], wCommit[w])' <=> HasSuccessfulScan(wRun[w], wCommit[w])
      BY <1>3, <3>2 DEF HasSuccessfulScan
    <3>4. ASSUME ~disturbed, wPc[w] = "upsert" PROVE Place(w)' /\ Settled'
      <4>1. wPc'[w] = "readStatus" /\ wTodo[w] = {}
        BY <2>1, <3>1, <3>4
      <4>2. latest <= wCommit[w] /\ \A p \in scanned : p[2] <= latest
        BY <1>2, <1>6, <3>4 DEF Place, InCore, KnowsCommit, Settled, WritesFindings
      <4>3. \A p \in scanned' : p[2] <= wCommit[w]
        BY <1>1, <2>4, <3>1, <3>4, <4>2 DEF Commit
      <4>4. \A k \in Seen[wCommit[w]] \ byHand : findings[k] = "open"
        BY <1>2, <3>4, <4>1 DEF Place
      <4>5. Place(w)'
        BY <1>3, <2>2, <2>4, <3>2, <3>3, <3>4, <4>1, <4>2, <4>3, <4>4 DEF Place, InCore, KnowsCommit, Started
      <4> QED  BY <4>1, <4>5 DEF Settled, WritesFindings
    <3>5. ASSUME ~disturbed, wPc[w] = "markAgain" PROVE Place(w)' /\ Settled'
      <4>1. wPc'[w] = "return" /\ latest = wCommit[w]
        BY <1>2, <3>1, <3>5 DEF Place
      <4>2. Follows(latest) /\ \A p \in scanned : p[2] <= latest
        BY <1>2, <1>6, <3>5 DEF Settled, WritesFindings
      <4>3. Follows(latest)' /\ \A p \in scanned' : p[2] <= latest'
        BY <1>1, <2>2, <2>4, <3>1, <3>5, <4>1, <4>2 DEF Follows, Commit
      <4> QED  BY <4>1, <4>3 DEF Place, InCore, KnowsCommit, Started, Settled
    <3> QED  BY <2>1, <2>3, <3>1, <3>4, <3>5
  <2> QED  BY <2>6, <2>7
<1>12. CASE ReadOwnStatus(w)
  <2>1. /\ UNCHANGED <<scans, scanned, findings, byHand, latest, wTodo>> /\ wPc[w] = "readStatus"
        /\ wPc'[w] = IF scans[wRun[w]].status = "succeeded" THEN "resolve" ELSE "markAgain"
    BY <1>1, <1>12 DEF ReadOwnStatus, WorkerGoto
  <2>2. ~disturbed => wPc'[w] = "resolve"
    BY <1>2, <2>1 DEF Place
  <2>3. Bounds'
    BY <1>2, <1>3, <2>1 DEF Bounds
  <2>4. ~disturbed => Place(w)' /\ Settled'
    BY <1>2, <1>3, <1>9, <2>1, <2>2 DEF Place, InCore, KnowsCommit, Started, Settled, WritesFindings
  <2> QED  BY <1>2, <2>1, <2>3, <2>4
<1>13. CASE ResolveStaleFindings(w)
  <2>1. /\ UNCHANGED <<scans, scanned, wTodo>> /\ wPc[w] = "resolve" /\ wPc'[w] = "markAgain"
        /\ latest' = wCommit[w] /\ byHand' = byHand \ Stale(w)
        /\ \A k \in Key : findings'[k] = IF k \in Stale(w) THEN "resolved" ELSE findings[k]
    BY <1>1, <1>13 DEF ResolveStaleFindings, WorkerGoto
  <2>2. Bounds'
    BY <1>1, <1>2, <1>3, <2>1 DEF Bounds
  <2>3. ASSUME ~disturbed PROVE Place(w)'
    BY <1>1, <1>2, <1>3, <1>9, <2>1, <2>3 DEF Place, InCore, KnowsCommit, Started
  <2>4. ASSUME ~disturbed PROVE Follows(latest)' /\ \A p \in scanned' : p[2] <= latest'
    <3>1. /\ \A k \in Seen[wCommit[w]] \ byHand : findings[k] = "open"
          /\ \A p \in scanned : p[2] <= wCommit[w]
      BY <1>2, <2>1, <2>4 DEF Place
    <3> QED  BY <1>4, <2>1, <3>1 DEF Follows, Stale
  <2> QED  BY <1>2, <2>1, <2>2, <2>3, <2>4 DEF Settled
<1> QED
  BY <1>10, <1>11, <1>12, <1>13

LEMMA FindingsStep == TypeInv /\ FindingsInv /\ [Next]_vars => FindingsInv'
<1> SUFFICES ASSUME TypeInv, FindingsInv, [Next]_vars PROVE FindingsInv'
  OBVIOUS
<1> USE DEF tableVars, schedulingVars, requestVars, historyVars, workerVars, locals
<1>1. CASE PushToDefaultBranch
  <2>1. /\ UNCHANGED <<findings, byHand, scanned, latest, scans, disturbed, wPc, wRun, wCommit, wTodo>>
        /\ branchHead' = branchHead + 1
    BY <1>1 DEF PushToDefaultBranch
  <2>2. branchHead \in Nat /\ latest \in Nat /\ \A w \in ScanWorker : wCommit[w] \in Nat
    BY DEF TypeInv, TypeOK, PipelineTypeOK, Commit
  <2>3. Bounds' /\ UniqueIndexes(scans') /\ (~disturbed => OneScan')
    BY <2>1, <2>2 DEF FindingsInv, Bounds, OneScan, InCore
  <2> QED  BY <2>1, <2>3, NoNewSuccess, FindingsKept DEF NoOutcome
<1>2. ASSUME NEW k \in Key, NEW s \in FindingStatus, UpdateFindingStatus(k, s)
      PROVE  FindingsInv'
  <2>1. /\ UNCHANGED <<scans, disturbed, branchHead, scanned, latest, wPc, wRun, wCommit, wTodo>>
        /\ byHand' = byHand \cup {k}
        /\ \A x \in Key \ {k} : findings'[x] = findings[x]
    BY <1>2 DEF UpdateFindingStatus, TypeInv, TypeOK, TablesTypeOK
  <2>2. Bounds' /\ UniqueIndexes(scans')
    BY <2>1 DEF FindingsInv, Bounds
  <2>3. ASSUME ~disturbed, NEW w \in ScanWorker PROVE Place(w)'
    <3>1. Place(w) /\ (HasSuccessfulScan(wRun[w], wCommit[w])' <=> HasSuccessfulScan(wRun[w], wCommit[w]))
      BY <2>1, <2>3 DEF FindingsInv, HasSuccessfulScan
    <3>2. wCommit[w] # 0 => Seen[wCommit[w]] \subseteq Key
      BY PipelineAssumption, ScanTablesAssumption DEF TypeInv, TypeOK, PipelineTypeOK, Commit
    <3>3. wPc[w] \in KnowsCommit => wCommit[w] # 0
      BY DEF TypeInv, WorkerInv, WorkerOK
    <3> QED  BY <2>1, <3>1, <3>2, <3>3 DEF Place, InCore, KnowsCommit, Started
  <2>4. ASSUME ~disturbed PROVE OneScan' /\ Settled'
    BY <2>1, <2>4 DEF FindingsInv, OneScan, InCore, Settled, WritesFindings, Follows
  <2> QED  BY <2>1, <2>2, <2>3, <2>4 DEF FindingsInv
<1>3. CASE UNCHANGED <<findings, byHand, scanned, latest, branchHead, scans, disturbed, wPc, wRun, wCommit, wTodo>>
  <2>1. Bounds' /\ UniqueIndexes(scans') /\ (~disturbed => OneScan')
    BY <1>3 DEF FindingsInv, Bounds, OneScan, InCore
  <2> QED  BY <1>3, <2>1, NoNewSuccess, FindingsKept DEF NoOutcome
<1>4. (SchedulerTick /\ UNCHANGED workerVars) \/ (\E j \in JobId : JobStalls(j)) \/ UNCHANGED vars =>
        UNCHANGED <<findings, byHand, scanned, latest, branchHead, scans, disturbed, wPc, wRun, wCommit, wTodo>>
  BY DEF SchedulerTick, JobStalls, vars
<1> QED
  BY <1>1, <1>2, <1>3, <1>4, FindingsRequestStep, FindingsQuietStep, FindingsWriteStep DEF Next, WorkerStep

(* Nothing fixed stays open and nothing present is resolved, while scans do*)
(* not overlap and no worker stops halfway: the open findings that no user *)
(* set are those of the commit scanned last, and no newer commit has been  *)
(* scanned (codebase_scan.py:749-790).                                     *)
THEOREM SpecFindingsFollowTheLastScan == Spec => []FindingsFollowTheLastScan
<1>1. Init => FindingsInv
  <2> USE DEF Init, TablesInit, SchedulingInit, PipelineInit
  <2>1. Init => UniqueIndexes(scans)
    BY DEF UniqueIndexes
  <2>2. Init => Bounds
    BY DEF Bounds
  <2>3. Init => OneScan /\ (\A w \in ScanWorker : Place(w)) /\ Settled
    BY DEF OneScan, InCore, KnowsCommit, Place, Started, Settled, Follows
  <2> QED  BY <2>1, <2>2, <2>3 DEF FindingsInv
<1>2. FindingsInv => FindingsFollowTheLastScan
  BY DEF FindingsInv, Settled, Follows, FindingsFollowTheLastScan, WritesFindings
<1> QED
  BY <1>1, <1>2, SpecTypeInv, FindingsStep, PTL DEF Spec
=============================================================================
