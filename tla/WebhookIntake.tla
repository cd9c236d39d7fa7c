---------------------------- MODULE WebhookIntake ---------------------------
(***************************************************************************)
(* GitHubWebhookService.acceptDelivery and acceptPushDelivery: the request *)
(* handlers of the API that turn a GitHub delivery into a review run and a *)
(* queue job.  GitHub may send a delivery more than once (Copies) and in   *)
(* any order; a handler is <<d, i>>, the i-th request for delivery d.  Each*)
(* `await` of the handler is one action, so handlers of different          *)
(* deliveries, and of the same one, interleave between any two calls.      *)
(***************************************************************************)
EXTENDS ReviewQueue

CONSTANTS Copies,      \* how often GitHub sends one delivery, at most
          Kind,        \* [Delivery -> EventKind]
          EventHead,   \* [Delivery -> Head]: the head the payload names
          Draft,       \* deliveries whose pull request is a draft
          MayDisable,  \* whether the repository may be switched off
          MaxDbFaults, \* failed database or Redis calls, over a whole behaviour
          MaxCrashes   \* process crashes, over a whole behaviour

(* "opened" stands for opened, reopened and ready_for_review, which are    *)
(* treated alike; "ignorable" for the events marked ignored before the     *)
(* pull request is looked at (unsupported events, events with no           *)
(* normalizer), and "deadRef" for pushes that delete a ref or push no      *)
(* branch, which are marked inside the try block.                          *)
EventKind == {"opened", "synchronize", "push", "ignorable", "deadRef"}

ASSUME IntakeAssumption ==
  /\ Copies \in Nat \ {0}
  /\ Kind \in [Delivery -> EventKind]
  /\ EventHead \in [Delivery -> Head]
  /\ Draft \subseteq Delivery
  /\ MayDisable \in BOOLEAN
  /\ MaxDbFaults \in Nat /\ MaxCrashes \in Nat

Handler == Delivery \X (1..Copies)
RunOf(h) == <<h[1], 0>>

HandlerPc == {"idle", "resolve", "upsertRepository", "upsertPullRequest",
              "supersede", "createRun", "enqueue", "markProcessed",
              "markIgnored", "markFailed", "done"}

VARIABLES
  ghHead,    \* the head of the pull request on GitHub
  hPc,       \* where each handler is
  hHead,     \* its local pullRequest.headSha
  hEnabled,  \* its local repository.enabled
  dbFaults,  \* failed calls so far
  crashes    \* crashes so far

handlerVars == <<hPc, hHead, hEnabled>>
faultVars == <<dbFaults, crashes>>
intakeVars == <<ghHead, handlerVars, faultVars>>

IntakeTypeOK ==
  /\ ghHead \in Head
  /\ hPc \in [Handler -> HandlerPc]
  /\ hHead \in [Handler -> 0..MaxHead]
  /\ hEnabled \in [Handler -> BOOLEAN]
  /\ dbFaults \in 0..MaxDbFaults
  /\ crashes \in 0..MaxCrashes

IntakeInit ==
  /\ ghHead = 1
  /\ hPc = [h \in Handler |-> "idle"]
  /\ hHead = [h \in Handler |-> 0]
  /\ hEnabled = [h \in Handler |-> FALSE]
  /\ dbFaults = 0
  /\ crashes = 0

At(h, pc) == hPc[h] = pc
Goto(h, pc) == hPc' = [hPc EXCEPT ![h] = pc]
OnlyPc == UNCHANGED <<ghHead, hHead, hEnabled, faultVars>>
-----------------------------------------------------------------------------
(* A push to the pull request's branch, on GitHub.                         *)
PushToBranch ==
  /\ ghHead < MaxHead
  /\ ghHead' = ghHead + 1
  /\ UNCHANGED <<tableVars, queueVars, handlerVars, faultVars>>

(* An administrator switches review automation of the repository off.      *)
DisableRepository ==
  /\ MayDisable /\ enabled
  /\ enabled' = FALSE
  /\ UNCHANGED <<deliveryStatus, prHead, runVars, retryRow, queueVars, intakeVars>>

(* A request for delivery d can arrive once its event has happened; the    *)
(* requests for one delivery are numbered in the order they arrive.        *)
Arrives(h) ==
  /\ At(h, "idle")
  /\ EventHead[h[1]] <= ghHead
  /\ h[2] > 1 => ~At(<<h[1], h[2] - 1>>, "idle")

(* Mutant of CreateDelivery: a delivery sent again is handled again. *)
CreateDeliveryAgain(h) ==
  /\ Arrives(h)
  /\ deliveryStatus' = [deliveryStatus EXCEPT ![RunOf(h)] = "processing"]
  /\ Goto(h, IF Kind[h[1]] = "push" THEN "resolve" ELSE "upsertRepository")
  /\ hHead' = [hHead EXCEPT ![h] = EventHead[h[1]]]
  /\ UNCHANGED <<ghHead, hEnabled, faultVars>>
  /\ UNCHANGED <<prHead, enabled, runVars, retryRow, queueVars>>

(* createDelivery: the first request for a delivery id inserts its row,    *)
(* every later one finds it and answers 202 without another effect.        *)
CreateDelivery(h) ==
  LET r == RunOf(h)
      d == h[1]
  IN  /\ Arrives(h)
      /\ IF DeliveryExists(r)
           THEN Goto(h, "done") /\ UNCHANGED deliveryStatus
           ELSE /\ InsertDelivery(r, "processing")
                /\ Goto(h, CASE Kind[d] \in {"ignorable", "deadRef"} -> "markIgnored"
                             [] Kind[d] = "push" -> "resolve"
                             [] OTHER -> "upsertRepository")
      /\ hHead' = [hHead EXCEPT ![h] = EventHead[d]]
      /\ UNCHANGED <<ghHead, hEnabled, faultVars>>
      /\ UNCHANGED <<prHead, enabled, runVars, retryRow, queueVars>>

(* Mutant of ResolvePushPullRequest: returns without a verdict. *)
ResolveUnmarked(h) ==
  /\ At(h, "resolve")
  /\ Goto(h, "done") /\ OnlyPc
  /\ UNCHANGED <<tableVars, queueVars>>

(* A push names no pull request: GitHub lists the open ones that contain   *)
(* the pushed commit, with their head of the moment.  choosePushPullRequest*)
(* takes one whose head is the pushed SHA, else the first in the list.     *)
ResolvePushPullRequest(h) ==
  /\ At(h, "resolve")
  /\ \/ Goto(h, "markIgnored") /\ UNCHANGED hHead       \* none is open
     \/ /\ Goto(h, "upsertRepository")
        /\ hHead' = [hHead EXCEPT ![h] = ghHead]
  /\ UNCHANGED <<ghHead, hEnabled, faultVars, tableVars, queueVars>>

(* upsertRepository with preserveExistingEnabled returns the stored flag.  *)
UpsertRepository(h) ==
  /\ At(h, "upsertRepository")
  /\ Goto(h, "upsertPullRequest")
  /\ hEnabled' = [hEnabled EXCEPT ![h] = enabled]
  /\ UNCHANGED <<ghHead, hHead, faultVars, tableVars, queueVars>>

(* Mutant of AfterUpsert: the job is added, the run is not created. *)
AfterUpsertEnqueue(h) ==
  IF ~hEnabled[h] \/ h[1] \in Draft THEN "markIgnored" ELSE "enqueue"

(* Mutant of AfterUpsert: opened supersedes the runs of other heads too. *)
AfterUpsertSupersede(h) ==
  IF ~hEnabled[h] \/ h[1] \in Draft THEN "markIgnored" ELSE "supersede"

(* Only synchronize and push supersede the runs of other heads.            *)
AfterUpsert(h) ==
  IF ~hEnabled[h] \/ h[1] \in Draft THEN "markIgnored"
  ELSE IF Kind[h[1]] \in {"synchronize", "push"} THEN "supersede"
  ELSE "createRun"
UpsertPullRequestRow(h) ==
  /\ At(h, "upsertPullRequest")
  /\ UpsertPullRequest(hHead[h])
  /\ Goto(h, AfterUpsert(h))
  /\ OnlyPc
  /\ UNCHANGED <<deliveryStatus, enabled, runVars, retryRow, queueVars>>

SupersedeOthers(h) ==
  /\ At(h, "supersede")
  /\ SupersedeQueuedOrRunningReviewRuns(hHead[h])
  /\ Goto(h, "createRun")
  /\ OnlyPc
  /\ UNCHANGED <<deliveryStatus, prHead, enabled, retryRow, queueVars>>

(* A second run of one delivery would hit UNIQUE (delivery_id) and throw.  *)
CreateRun(h) ==
  /\ At(h, "createRun")
  /\ IF RunExists(RunOf(h))
       THEN Goto(h, "markFailed") /\ UNCHANGED runVars
       ELSE Goto(h, "enqueue") /\ CreateReviewRun(RunOf(h), hHead[h])
  /\ OnlyPc
  /\ UNCHANGED <<deliveryStatus, prHead, enabled, retryRow, queueVars>>

(* Mutant of EnqueueRun: a failing add() is swallowed. *)
EnqueueSwallowed(h) ==
  /\ At(h, "enqueue")
  /\ Goto(h, "markProcessed")
  /\ OnlyPc
  /\ UNCHANGED <<tableVars, queueVars>>

EnqueueRun(h) ==
  /\ At(h, "enqueue")
  /\ EnqueuePullRequestReview(RunOf(h))
  /\ Goto(h, "markProcessed")
  /\ OnlyPc
  /\ UNCHANGED tableVars

(* The verdict: the delivery row leaves "processing" and the request ends. *)
Verdict(h, pc, s) ==
  /\ At(h, pc)
  /\ MarkDeliveryProcessed(RunOf(h), s)
  /\ Goto(h, "done")
  /\ OnlyPc
  /\ UNCHANGED <<prHead, enabled, runVars, retryRow, queueVars>>
MarkDelivery(h) ==
  \/ Verdict(h, "markProcessed", "processed")
  \/ Verdict(h, "markIgnored", "ignored")
  \/ Verdict(h, "markFailed", "failed")

(* A call of the handler fails before it takes effect.  Inside the try     *)
(* block the catch marks the delivery failed; createDelivery, the verdict  *)
(* on an ignorable event and the catch's own update are not inside it.     *)
InTry(h) == ~At(h, "idle") /\ ~At(h, "markFailed") /\ Kind[h[1]] # "ignorable"
HandlerFault(h) ==
  /\ dbFaults < MaxDbFaults
  /\ Arrives(h) \/ (~At(h, "idle") /\ ~At(h, "done"))
  /\ Goto(h, IF InTry(h) THEN "markFailed" ELSE "done")
  /\ dbFaults' = dbFaults + 1
  /\ UNCHANGED <<ghHead, hHead, hEnabled, crashes, tableVars, queueVars>>

(* The API process dies between two awaits: the request is gone and what   *)
(* it had written stays.                                                   *)
HandlerCrash(h) ==
  /\ crashes < MaxCrashes
  /\ ~At(h, "idle") /\ ~At(h, "done")
  /\ Goto(h, "done")
  /\ crashes' = crashes + 1
  /\ UNCHANGED <<ghHead, hHead, hEnabled, dbFaults, tableVars, queueVars>>

HandlerStep(h) ==
  \/ CreateDelivery(h) \/ ResolvePushPullRequest(h) \/ UpsertRepository(h)
  \/ UpsertPullRequestRow(h) \/ SupersedeOthers(h) \/ CreateRun(h)
  \/ EnqueueRun(h) \/ MarkDelivery(h)

IntakeNext ==
  \/ PushToBranch
  \/ DisableRepository
  \/ \E h \in Handler : HandlerStep(h) \/ HandlerFault(h) \/ HandlerCrash(h)
=============================================================================
