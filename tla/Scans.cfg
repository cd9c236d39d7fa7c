\* The codebase scans of one repository: two API requests in five
\* combinations, one tick of the scheduler, two workers, two attempts per
\* job, one stall, a push to the default branch, one fault.
SPECIFICATION Spec
CONSTANTS
  r1 = r1
  r2 = r2
  fixed = fixed
  w1 = w1
  w2 = w2
  NoWorker = NoWorker
  ScanWorker = {w1, w2}
  Key = {fixed}
  MaxCommit = 2
  MaxScans = 2
  MaxTicks = 1
  MaxAttempts = 2
  MaxStalled = 1
  Request = {r1, r2}
  MaxFaults = 1
  Workload <- MCWorkload
  Seen <- MCSeen
SYMMETRY ScanWorkers
INVARIANTS
  TypeOK
  NoScanIsStranded
  SupersededMeansScanned
  FindingsFollowTheLastScan
  ScheduleFollowsSettings
\* Requests, ticks and scans are bounded, so the instance stops.
CHECK_DEADLOCK FALSE
