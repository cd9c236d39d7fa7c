\* A failed run and its dashboard retry: one failing call, one crash, two
\* workers, both bodies of the retry transaction.
SPECIFICATION Spec
CONSTANTS
  opened1 = opened1
  sync1 = sync1
  sync2 = sync2
  push2 = push2
  draft2 = draft2
  ping = ping
  tag = tag
  w1 = w1
  w2 = w2
  NoWorker = NoWorker
  NoRun = NoRun
  Delivery = {sync1}
  Worker = {w1, w2}
  Copies = 1
  MaxHead = 2
  MaxRetries = 1
  MaxAttempts = 2
  MaxStalled = 1
  MayDisable = FALSE
  MaxDbFaults = 1
  MaxCrashes = 1
  Kind <- MCKind
  EventHead <- MCEventHead
  Draft <- MCDraft
SYMMETRY Workers
INVARIANTS
  JobHasRun
  SucceededMeansPublished
PROPERTIES
  RefinesLifecycle
