-------------------------- MODULE WorkspaceMembers --------------------------
(***************************************************************************)
(* Workspaces and who belongs to them: PostgresDashboardWorkspaceResolver, *)
(* which creates a user's workspace and membership on a first request, and *)
(* SettingsService, by which admins change roles and suspend members.      *)
(* Every SQL statement is a step, and requests interleave between them.    *)
(*                                                                         *)
(* An organization workspace is the organization itself, since the unique  *)
(* identity_provider_org_id lets only one INSERT create it; a personal     *)
(* workspace is a number, in the order of creation.                        *)
(***************************************************************************)
EXTENDS Naturals, FiniteSets

CONSTANTS User, Org,
          Request,       \* requests the API handles at a time
          MaxRequests,   \* bound on the requests of all kinds
          MaxPersonal,   \* bound on personal workspaces
          MaxFaults,     \* requests that fail or die midway
          Seeded,        \* [Org -> SUBSET User]: admins from before the first request
          Nobody, NoWorkspace, Account, Installation, Repository

ASSUME MembersAssumption ==
  /\ MaxRequests \in Nat /\ MaxPersonal \in Nat /\ MaxFaults \in Nat
  /\ IsFiniteSet(Request) /\ Seeded \in [Org -> SUBSET User]
  /\ Nobody \notin User \cup Account \cup Installation
  /\ Org \cap Nat = {} /\ NoWorkspace \notin Org \cup Nat

Personal == 1..MaxPersonal
Workspace == Org \cup Personal
Role == {"admin", "developer"}
Membership == [role : Role \cup {"none"}, active : BOOLEAN]
NotMember == [role |-> "none", active |-> FALSE]
Change == {"admin", "developer", "suspend", "restore"}

(* A request: how far it is, whose it is, and its local variables.         *)
Pc == {"idle", "personalFind", "personalCreate", "orgEnsure", "memberFind", "memberInsert",
       "targetRead", "adminCount", "memberWrite",
       "oauthConsume", "oauthExchange", "connDelete", "connInsert", "accessible",
       "instNext", "instFind", "instUpsert", "repoList", "repoUpsert", "repoGrant"}
RequestRecord ==
  [pc : Pc, user : User \cup {Nobody}, ws : Workspace \cup {NoWorkspace},
   target : User \cup {Nobody}, change : Change \cup {"none"},
   counted : BOOLEAN,       \* its count of the other admins still holds
   flow : {"none", "login", "settings", "oauth", "connect", "sync"},
   manager : BOOLEAN,       \* the role it read may manage installations
   state : Nat,             \* the OAuth state it brings, 0 for none
   account : Account \cup {Nobody},
   todo : SUBSET Installation, inst : Installation \cup {Nobody},
   repo : Repository \cup {Nobody},
   listed : SUBSET Repository]   \* still to be written of what GitHub listed for inst
Idle ==
  [pc |-> "idle", user |-> Nobody, ws |-> NoWorkspace, target |-> Nobody, change |-> "none",
   counted |-> FALSE, flow |-> "none", manager |-> FALSE, state |-> 0, account |-> Nobody,
   todo |-> {}, inst |-> Nobody, repo |-> Nobody, listed |-> {}]

VARIABLES
  members,    \* workspace_memberships: workspace, user -> role and active
  created,    \* personal workspaces created so far
  req,        \* the requests being handled
  started,    \* requests so far
  faults,     \* requests that failed or died so far
  resolved,   \* history: personal workspaces a user's requests were answered with
  peak,       \* history: most first-login requests of a user at work at once
  uncounted   \* history: workspaces that lost an admin to an update without a valid count

memberVars == <<members, created, req, started, faults, resolved, peak, uncounted>>

MembersTypeOK ==
  /\ members \in [Workspace -> [User -> Membership]]
  /\ created \in 0..MaxPersonal
  /\ req \in [Request -> RequestRecord]
  /\ started \in 0..MaxRequests /\ faults \in 0..MaxFaults
  /\ resolved \in [User -> SUBSET Personal]
  /\ peak \in [User -> 0..Cardinality(Request)]
  /\ uncounted \subseteq Workspace

MembersInit ==
  /\ members = [w \in Workspace |-> [u \in User |->
       IF w \in Org /\ u \in Seeded[w] THEN [role |-> "admin", active |-> TRUE] ELSE NotMember]]
  /\ created = 0
  /\ req = [q \in Request |-> Idle]
  /\ started = 0 /\ faults = 0
  /\ resolved = [u \in User |-> {}] /\ peak = [u \in User |-> 0]
  /\ uncounted = {}

At(q, pc) == req[q].pc = pc
Goto(q, pc) == req' = [req EXCEPT ![q].pc = pc]
End(q) == req' = [req EXCEPT ![q] = Idle]
Begin(q, r) ==
  /\ At(q, "idle") /\ started < MaxRequests
  /\ started' = started + 1
  /\ req' = [req EXCEPT ![q] = r]
Active(w, u) == members[w][u].active
ActiveAdmin(w, u) == Active(w, u) /\ members[w][u].role = "admin"
-----------------------------------------------------------------------------
(* resolve() for a token without organization and no workspace selected.   *)
LoginsOf(u) == {q \in Request : req[q].flow = "login" /\ req[q].user = u /\ req[q].ws \notin Org}
LoginPersonal(q, u) ==
  /\ Begin(q, [Idle EXCEPT !.pc = "personalFind", !.flow = "login", !.user = u])
  /\ peak' = [peak EXCEPT ![u] = IF Cardinality(LoginsOf(u)) + 1 > @ THEN Cardinality(LoginsOf(u)) + 1 ELSE @]
  /\ UNCHANGED <<members, created, faults, resolved, uncounted>>

(* Mutant of PersonalOf: only a workspace the user administers is found. *)
PersonalAdminOf(u) == {w \in Personal : ActiveAdmin(w, u)}
(* The memberships of ensurePersonalWorkspace's SELECT; the one with the   *)
(* oldest created_at is taken.                                             *)
PersonalOf(u) == {w \in Personal : Active(w, u)}
Oldest(S) == CHOOSE w \in S : \A v \in S : w <= v
PersonalFind(q) ==
  /\ At(q, "personalFind")
  /\ \/ /\ PersonalOf(req[q].user) # {}
        /\ req' = [req EXCEPT ![q].pc = "memberFind", ![q].ws = Oldest(PersonalOf(req[q].user))]
     \/ PersonalOf(req[q].user) = {} /\ Goto(q, "personalCreate")
  /\ UNCHANGED <<members, created, started, faults, resolved, peak, uncounted>>

(* INSERT INTO workspaces: nothing keeps a second request from another.    *)
PersonalCreate(q) ==
  /\ At(q, "personalCreate") /\ created < MaxPersonal
  /\ created' = created + 1
  /\ req' = [req EXCEPT ![q].pc = "memberFind", ![q].ws = created + 1]
  /\ UNCHANGED <<members, started, faults, resolved, peak, uncounted>>

(* resolve() for a token of an organization: ensureOrganizationWorkspace.  *)
LoginOrg(q, u, o) ==
  /\ Begin(q, [Idle EXCEPT !.pc = "memberFind", !.flow = "login", !.user = u, !.ws = o])
  /\ UNCHANGED <<members, created, faults, resolved, peak, uncounted>>

Answered(q) ==
  resolved' = IF req[q].ws \in Personal
              THEN [resolved EXCEPT ![req[q].user] = @ \cup {req[q].ws}] ELSE resolved

(* ensureMembership: a membership that is inactive is refused, an active   *)
(* one keeps its role (syncExistingRole is false for every caller) ...     *)
MemberFind(q) ==
  LET m == members[req[q].ws][req[q].user] IN
  /\ At(q, "memberFind")
  /\ \/ m = NotMember /\ Goto(q, "memberInsert") /\ UNCHANGED resolved
     \/ m # NotMember /\ m.active /\ Answered(q) /\ End(q)
     \/ m # NotMember /\ ~m.active /\ End(q) /\ UNCHANGED resolved
  /\ UNCHANGED <<members, created, started, faults, peak, uncounted>>

(* ... and one that is missing is inserted, as a developer; when another   *)
(* request was first the search starts again.                              *)
MemberInsert(q) ==
  LET w == req[q].ws  u == req[q].user IN
  /\ At(q, "memberInsert")
  /\ \/ /\ members[w][u] = NotMember
        /\ members' = [members EXCEPT ![w][u] = [role |-> "developer", active |-> TRUE]]
        /\ Answered(q) /\ End(q)
     \/ members[w][u] # NotMember /\ Goto(q, "memberFind") /\ UNCHANGED <<members, resolved>>
  /\ UNCHANGED <<created, started, faults, peak, uncounted>>
-----------------------------------------------------------------------------
(* updateWorkspaceMemberRole and updateWorkspaceMemberStatus: the actor is *)
(* an active admin, and somebody else.                                     *)
ChangeMember(q, u, w, t, c) ==
  /\ ActiveAdmin(w, u) /\ t # u
  /\ Begin(q, [Idle EXCEPT !.pc = "targetRead", !.flow = "settings",
                           !.user = u, !.ws = w, !.target = t, !.change = c])
  /\ UNCHANGED <<members, created, faults, resolved, peak, uncounted>>

Removes(q) == req[q].change \in {"developer", "suspend"}

(* assertMemberMutationAllowed: getWorkspaceMember, and when an active     *)
(* admin would go, countOtherActiveAdmins.                                 *)
TargetRead(q) ==
  LET m == members[req[q].ws][req[q].target] IN
  /\ At(q, "targetRead")
  /\ \/ m = NotMember /\ End(q)
     \/ /\ m # NotMember
        /\ Goto(q, IF m.active /\ m.role = "admin" /\ Removes(q) THEN "adminCount" ELSE "memberWrite")
  /\ UNCHANGED <<members, created, started, faults, resolved, peak, uncounted>>

(* Mutant of OtherAdmins: the target is counted too. *)
OtherOrSameAdmins(q) == {u \in User : ActiveAdmin(req[q].ws, u)}
OtherAdmins(q) == {u \in User \ {req[q].target} : ActiveAdmin(req[q].ws, u)}
AdminCount(q) ==
  /\ At(q, "adminCount")
  /\ \/ OtherAdmins(q) = {} /\ End(q)   \* "At least one active Admin must remain"
     \/ OtherAdmins(q) # {} /\ req' = [req EXCEPT ![q].pc = "memberWrite", ![q].counted = TRUE]
  /\ UNCHANGED <<members, created, started, faults, resolved, peak, uncounted>>

(* Mutant of Changed: a change of status is written as a role. *)
ChangedRole(m, c) == [m EXCEPT !.role = c]
Changed(m, c) ==
  CASE c \in Role -> [m EXCEPT !.role = c]
    [] c = "suspend" -> [m EXCEPT !.active = FALSE]
    [] c = "restore" -> [m EXCEPT !.active = TRUE]

(* The UPDATE, with no condition on what was read before.  An admin who    *)
(* goes makes the counts of the requests still at work in the workspace    *)
(* void.                                                                   *)
MemberWrite(q) ==
  LET w == req[q].ws  t == req[q].target
      goes == ActiveAdmin(w, t) /\ Removes(q)
  IN /\ At(q, "memberWrite")
     /\ members' = [members EXCEPT ![w][t] = Changed(@, req[q].change)]
     /\ req' = [p \in Request |->
                  IF p = q THEN Idle
                  ELSE IF goes /\ req[p].ws = w THEN [req[p] EXCEPT !.counted = FALSE] ELSE req[p]]
     /\ uncounted' = IF goes /\ ~req[q].counted THEN uncounted \cup {w} ELSE uncounted
     /\ UNCHANGED <<created, started, faults, resolved, peak>>

MembersNext ==
  \E q \in Request :
    \/ \E u \in User :
         \/ LoginPersonal(q, u)
         \/ \E w \in Org : LoginOrg(q, u, w)
         \/ \E w \in Workspace, t \in User, c \in Change : ChangeMember(q, u, w, t, c)
    \/ PersonalFind(q) \/ PersonalCreate(q) \/ MemberFind(q) \/ MemberInsert(q)
    \/ TargetRead(q) \/ AdminCount(q) \/ MemberWrite(q)
-----------------------------------------------------------------------------
(* A workspace that began with an active admin has one for ever, unless an *)
(* admin was removed on no count of the others, or on one another removal  *)
(* had made void in between (settings.service.ts:169).                     *)
OneAdminRemains ==
  \A o \in Org \ uncounted : Seeded[o] # {} => \E u \in User : ActiveAdmin(o, u)

(* A user has no more personal workspaces, and is answered with no more    *)
(* different ones, than first requests of theirs were at work at once;     *)
(* later requests add none, nor does one that died (workspace-resolver.ts: *)
(* 150).                                                                   *)
PersonalWorkspacesAreFew ==
  \A u \in User :
    /\ Cardinality({w \in Personal : members[w][u] # NotMember}) <= peak[u]
    /\ Cardinality(resolved[u]) <= peak[u]
=============================================================================
