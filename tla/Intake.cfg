\* Webhook handlers: four kinds of delivery, each sent twice, one failing
\* call, the repository switched off at any time.
SPECIFICATION Spec
CONSTANTS
  opened1 = opened1
  sync1 = sync1
  sync2 = sync2
  push2 = push2
  draft2 = draft2
  ping = ping
  tag = tag
  w1 = w1
  w2 = w2
  NoWorker = NoWorker
  NoRun = NoRun
  Delivery = {push2, draft2, ping, tag}
  Worker = {w1}
  Copies = 2
  MaxHead = 2
  MaxRetries = 0
  MaxAttempts = 1
  MaxStalled = 0
  MayDisable = TRUE
  MaxDbFaults = 1
  MaxCrashes = 0
  Kind <- MCKind
  EventHead <- MCEventHead
  Draft <- MCDraft
INVARIANTS
  TypeOK
  VerdictMatchesWork
  JobHasRun

  
