--------------------------- MODULE WorkerAnalysis ---------------------------
(***************************************************************************)
(* The two analyses a worker makes: of the files of a pull request         *)
(* (ChangedFiles) and of the tree of a repository (ScanPlan).  A job makes *)
(* one of them.                                                            *)
(***************************************************************************)
EXTENDS ChangedFiles, ScanPlan

VARIABLE job   \* "review" or "codebase_scan"

vars == <<job, reviewVars, planVars>>

TypeOK == job \in {"review", "codebase_scan"} /\ ReviewTypeOK /\ PlanTypeOK

Init == job \in {"review", "codebase_scan"} /\ ReviewInit /\ PlanInit

Next ==
  /\ UNCHANGED job
  /\ \/ job = "review" /\ ReviewNext /\ UNCHANGED planVars
     \/ job = "codebase_scan" /\ PlanNext /\ UNCHANGED reviewVars

Spec == Init /\ [][Next]_vars
=============================================================================
