--------------------------- MODULE ReviewLifecycle --------------------------
(***************************************************************************)
(* What the review path promises of one review run, whoever moves it: it   *)
(* is created queued, a worker starts it (again after each failed or lost  *)
(* attempt), and it succeeds only once its summary is on the pull request. *)
(* Supersession is the end: no worker starts, finishes or fails it again.  *)
(* Handlers, the queue, locks and retries do not appear here.              *)
(***************************************************************************)
CONSTANT Run

VARIABLES life,    \* the status of each run
          summary  \* runs whose summary comment has been published

LifeInit == life = [r \in Run |-> "none"] /\ summary = {}

Become(r, s) == life' = [life EXCEPT ![r] = s] /\ UNCHANGED summary

Create(r) == life[r] = "none" /\ Become(r, "queued")
Start(r) == life[r] \notin {"none", "superseded"} /\ Become(r, "running")
Fail(r) == life[r] \notin {"none", "superseded"} /\ Become(r, "failed")

(* A run may publish while its status says anything but "none": another    *)
(* worker may meanwhile have failed or superseded it.                      *)
Publish(r) ==
  /\ life[r] # "none"
  /\ summary' = summary \cup {r}
  /\ UNCHANGED life

Succeed(r) ==
  /\ life[r] \notin {"none", "superseded"}
  /\ r \in summary
  /\ Become(r, "succeeded")

(* One statement may supersede several runs of a pull request.             *)
Supersede(R) ==
  /\ \A r \in R : life[r] # "none"
  /\ life' = [r \in Run |-> IF r \in R THEN "superseded" ELSE life[r]]
  /\ UNCHANGED summary

LifeNext ==
  \/ \E r \in Run : Create(r) \/ Start(r) \/ Fail(r) \/ Publish(r) \/ Succeed(r)
  \/ \E R \in SUBSET Run : Supersede(R)

LifeSpec == LifeInit /\ [][LifeNext]_<<life, summary>>
=============================================================================
