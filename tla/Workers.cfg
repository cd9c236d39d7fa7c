\* Two deliveries of different heads in any order, two workers, a crash or a
\* lost lock, two attempts.
SPECIFICATION Spec
CONSTANTS
  opened1 = opened1
  sync1 = sync1
  sync2 = sync2
  push2 = push2
  draft2 = draft2
  ping = ping
  tag = tag
  w1 = w1
  w2 = w2
  NoWorker = NoWorker
  NoRun = NoRun
  Delivery = {opened1, sync2}
  Worker = {w1, w2}
  Copies = 1
  MaxHead = 2
  MaxRetries = 0
  MaxAttempts = 2
  MaxStalled = 1
  MayDisable = FALSE
  MaxDbFaults = 0
  MaxCrashes = 1
  Kind <- MCKind
  EventHead <- MCEventHead
  Draft <- MCDraft
SYMMETRY Workers
INVARIANTS
  
  
  SucceededMeansPublished
  OneWorkerPerRun
PROPERTIES
  
  RefinesLifecycle
