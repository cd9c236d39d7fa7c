-------------------------- MODULE MCGitHubAccounts --------------------------
(***************************************************************************)
(* An instance of GitHubAccounts for TLC: two users who are both admins of *)
(* one organization, one of them of a second organization too.             *)
(***************************************************************************)
EXTENDS GitHubAccounts, TLC

CONSTANTS u1, u2, o1, o2, q1, q2

MCSeeded == [o \in Org |-> IF o = o1 THEN {u1, u2} ELSE {u2}]
Symmetry == Permutations(Request) \cup Permutations(Account)
=============================================================================
