--------------------------- MODULE MCReviewSystem ---------------------------
(***************************************************************************)
(* Instances of ReviewSystem for TLC.  Each delivery is what its name says.*)
(***************************************************************************)
EXTENDS ReviewSystem, TLC

CONSTANTS opened1, sync1, sync2, push2, draft2, ping, tag, w1, w2

MCKind == [d \in Delivery |-> CASE d = opened1 -> "opened"
                                [] d \in {sync1, sync2, draft2} -> "synchronize"
                                [] d = push2 -> "push"
                                [] d = ping -> "ignorable"
                                [] OTHER -> "deadRef"]
MCEventHead == [d \in Delivery |-> IF d \in {sync2, push2, draft2} THEN 2 ELSE 1]
MCDraft == Delivery \cap {draft2}
Workers == Permutations(Worker)
=============================================================================
