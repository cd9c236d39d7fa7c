-------------------------- MODULE MCCodebaseScans ---------------------------
(***************************************************************************)
(* An instance of CodebaseScans for TLC: two requests, in five             *)
(* combinations, and two commits, the second of which fixes the finding of *)
(* the first.                                                              *)
(***************************************************************************)
EXTENDS CodebaseScans, TLC

CONSTANTS r1, r2, fixed, w1, w2

Asks(k1, k2, on, f) ==
  [kind |-> [r \in Request |-> IF r = r1 THEN k1 ELSE k2], scansEnabled |-> on, faults |-> f]
MCWorkload == {Asks("manual", "manual", TRUE, 1), Asks("sync", "manual", TRUE, 1),
               Asks("enableScans", "disableScans", FALSE, 0),
               Asks("sync", "disableAutomation", TRUE, 0),
               Asks("enableScans", "disableAutomation", FALSE, 0)}
MCSeen == [c \in Commit |-> IF c = 1 THEN {fixed} ELSE {}]
ScanWorkers == Permutations(ScanWorker)
=============================================================================
