\* The push and the synchronize delivery of one push, and the opened
\* delivery before it, handled in any order.
SPECIFICATION Spec
CONSTANTS
  opened1 = opened1
  sync1 = sync1
  sync2 = sync2
  push2 = push2
  draft2 = draft2
  ping = ping
  tag = tag
  w1 = w1
  w2 = w2
  NoWorker = NoWorker
  NoRun = NoRun
  Delivery = {opened1, push2, sync2}
  Worker = {w1}
  Copies = 1
  MaxHead = 2
  MaxRetries = 0
  MaxAttempts = 1
  MaxStalled = 0
  MayDisable = FALSE
  MaxDbFaults = 0
  MaxCrashes = 0
  Kind <- MCKind
  EventHead <- MCEventHead
  Draft <- MCDraft
INVARIANTS
  SupersessionHasCause
  CurrentHeadIsReviewed
