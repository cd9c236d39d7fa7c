------------------------ MODULE MCCommentPublishing -------------------------
(***************************************************************************)
(* An instance of CommentPublishing for TLC: two runs of one pull request; *)
(* both want the inline comment k1, only the second wants k2.  A page is   *)
(* two comments, so that one comment of somebody else pushes the summary   *)
(* comment off it and two push both off.                                   *)
(***************************************************************************)
EXTENDS CommentPublishing, TLC

CONSTANTS old, new, k1, k2, w1, w2

MCWanted == [r \in Run |-> IF r = old THEN Content \cap {k1} ELSE Content]
Workers == Permutations(Worker)
=============================================================================
