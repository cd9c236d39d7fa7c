--------------------------- MODULE GitHubAccounts ---------------------------
(***************************************************************************)
(* GitHubDashboardService and its store: a user connects a GitHub account  *)
(* by OAuth, and a workspace claims App installations and their            *)
(* repositories.  The requests interleave with each other and with those   *)
(* of WorkspaceMembers; a membership is read once, when a request begins.  *)
(***************************************************************************)
EXTENDS WorkspaceMembers, Sequences

CONSTANTS MaxStates,      \* bound on OAuth flows started
          MaxTransfers    \* bound on repositories moving between installations

ASSUME AccountsAssumption ==
  /\ MaxStates \in Nat /\ MaxTransfers \in Nat
  /\ Nobody \notin Repository

VARIABLES
  states,       \* github_oauth_states, in the order of creation
  connection,   \* github_oauth_connections: user -> account
  owner,        \* github_installations: installation -> workspace_id; no row is like NULL
  row,          \* repositories: repository -> installation_id, or no row
  access,       \* repository_access
  home,         \* on GitHub: the installation a repository is in, or Nobody
  transfers,    \* moves of repositories so far
  linked,       \* history: accounts that should be some user's
  owed          \* history: user and repository of every grant a sync has come to

OAuthState == [user : User, ws : Workspace, open : BOOLEAN]
githubVars == <<states, connection, owner, row, access, home, transfers, linked, owed>>
vars == <<memberVars, githubVars>>

TypeOK ==
  /\ MembersTypeOK
  /\ states \in Seq(OAuthState) /\ Len(states) <= MaxStates
  /\ connection \in [User -> Account \cup {Nobody}]
  /\ owner \in [Installation -> Workspace \cup {NoWorkspace}]
  /\ row \in [Repository -> Installation \cup {Nobody}]
  /\ access \subseteq User \X Repository
  /\ home \in [Repository -> Installation \cup {Nobody}]
  /\ transfers \in 0..MaxTransfers
  /\ linked \subseteq Account /\ owed \subseteq User \X Repository

Init ==
  /\ MembersInit
  /\ states = << >>
  /\ connection = [u \in User |-> Nobody]
  /\ owner = [i \in Installation |-> NoWorkspace]
  /\ row = [r \in Repository |-> Nobody]
  /\ access = {}
  /\ home \in [Repository -> Installation \cup {Nobody}]
  /\ transfers = 0
  /\ linked = {} /\ owed = {}

(* What a step of a request leaves alone, beside its own variables.        *)
Handling == UNCHANGED <<members, created, started, faults, resolved, peak, uncounted, home, transfers>>
Arrival == UNCHANGED <<members, created, faults, resolved, peak, uncounted>>
-----------------------------------------------------------------------------
(* Outside the API: a state outlives its ten minutes, a repository is      *)
(* transferred, or removed from the App.  (A webhook may insert an         *)
(* installation, but leaves workspace_id alone.)                           *)
StateExpires(s) ==
  /\ s \in DOMAIN states /\ states[s].open
  /\ states' = [states EXCEPT ![s].open = FALSE]
  /\ UNCHANGED <<memberVars, connection, owner, row, access, home, transfers, linked, owed>>
Transfer(r, i) ==
  /\ transfers < MaxTransfers /\ home[r] # i
  /\ home' = [home EXCEPT ![r] = i] /\ transfers' = transfers + 1
  /\ UNCHANGED <<memberVars, states, connection, owner, row, access, linked, owed>>

(* A request fails at any statement or call, or its process dies.          *)
RequestFails(q) ==
  /\ ~At(q, "idle") /\ faults < MaxFaults
  /\ faults' = faults + 1
  /\ End(q)
  /\ linked' = IF At(q, "connInsert") THEN linked \ {req[q].account} ELSE linked
  /\ owed' = IF At(q, "repoGrant") /\ <<req[q].user, req[q].repo>> \notin access
             THEN owed \ {<<req[q].user, req[q].repo>>} ELSE owed
  /\ UNCHANGED <<members, created, started, resolved, peak, uncounted>>
  /\ UNCHANGED <<states, connection, owner, row, access, home, transfers>>
-----------------------------------------------------------------------------
(* startOAuth                                                              *)
StartOAuth(q, u, w) ==
  /\ At(q, "idle") /\ started < MaxRequests /\ started' = started + 1 /\ UNCHANGED req
  /\ Active(w, u) /\ Len(states) < MaxStates
  /\ states' = Append(states, [user |-> u, ws |-> w, open |-> TRUE])
  /\ Arrival /\ UNCHANGED <<connection, owner, row, access, home, transfers, linked, owed>>

(* completeOAuth with a state, or for an installation without one          *)
(* (completeInstallationOAuth).                                            *)
CompleteOAuth(q, u, w, s) ==
  /\ Active(w, u) /\ s \in 0..Len(states)
  /\ Begin(q, [Idle EXCEPT !.pc = IF s = 0 THEN "oauthExchange" ELSE "oauthConsume", !.flow = "oauth",
                           !.user = u, !.ws = w, !.manager = ActiveAdmin(w, u), !.state = s])
  /\ Arrival /\ UNCHANGED githubVars

(* consumeOAuthState, one UPDATE.                                          *)
Consumable(q) == LET s == states[req[q].state] IN
  s.user = req[q].user /\ s.ws = req[q].ws /\ s.open
OAuthConsume(q) ==
  /\ At(q, "oauthConsume")
  /\ \/ /\ Consumable(q)
        /\ states' = [states EXCEPT ![req[q].state].open = FALSE]
        /\ Goto(q, "oauthExchange")
     \/ ~Consumable(q) /\ End(q) /\ UNCHANGED states
  /\ Handling /\ UNCHANGED <<connection, owner, row, access, linked, owed>>

(* exchangeOAuthCode and fetchOAuthUser: the account the browser is logged *)
(* in with.                                                                *)
OAuthExchange(q, g) ==
  /\ At(q, "oauthExchange")
  /\ req' = [req EXCEPT ![q].pc = "connDelete", ![q].account = g]
  /\ Handling /\ UNCHANGED <<states, connection, owner, row, access, linked, owed>>

(* upsertOAuthConnection: the account is taken from other users ...        *)
ConnDelete(q) ==
  /\ At(q, "connDelete")
  /\ connection' = [u \in User |->
       IF u # req[q].user /\ connection[u] = req[q].account THEN Nobody ELSE connection[u]]
  /\ Goto(q, "connInsert")
  /\ Handling /\ UNCHANGED <<states, owner, row, access, linked, owed>>

(* Mutant of Connected: ON CONFLICT (user_id) DO NOTHING. *)
ConnectedFirst(u, g) == IF connection[u] = Nobody THEN [connection EXCEPT ![u] = g] ELSE connection
Connected(u, g) == [connection EXCEPT ![u] = g]
(* ... and given to this one, in place of the account they had; the unique *)
(* github_user_id refuses it if another user took it in between.           *)
Taken(q) == \E u \in User \ {req[q].user} : connection[u] = req[q].account
ConnInsert(q) ==
  LET u == req[q].user  g == req[q].account IN
  /\ At(q, "connInsert")
  /\ \/ Taken(q) /\ End(q) /\ UNCHANGED <<connection, linked>>
     \/ /\ ~Taken(q)
        /\ connection' = Connected(u, g)
        /\ linked' = (linked \ ({connection[u]} \ {g})) \cup {g}
        /\ IF req[q].manager THEN Goto(q, "accessible") ELSE End(q)
  /\ Handling /\ UNCHANGED <<states, owner, row, access, owed>>

(* connectAccessibleInstallations: any installations the account can see.  *)
Accessible(q, S) ==
  /\ At(q, "accessible")
  /\ req' = [req EXCEPT ![q].pc = "instNext", ![q].todo = S]
  /\ Handling /\ UNCHANGED <<states, connection, owner, row, access, linked, owed>>
-----------------------------------------------------------------------------
(* requireInstallationManager: a connected admin.                          *)
Manager(w, u) == ActiveAdmin(w, u) /\ connection[u] # Nobody

(* connectInstallation, and syncInstallations for one installation or all. *)
Connect(q, u, w, i) ==
  /\ Manager(w, u)
  /\ Begin(q, [Idle EXCEPT !.pc = "instNext", !.flow = "connect", !.user = u, !.ws = w, !.todo = {i}])
  /\ Arrival /\ UNCHANGED githubVars
Sync(q, u, w, S) ==
  LET all == {i \in Installation : owner[i] = w} IN
  /\ Manager(w, u)
  /\ S # {} /\ (S = all \/ \E i \in all : S = {i})
  /\ Begin(q, [Idle EXCEPT !.pc = "instNext", !.flow = "sync", !.user = u, !.ws = w, !.todo = S])
  /\ Arrival /\ UNCHANGED githubVars

(* The loops over installations.  A sync asks only GitHub, the others ask  *)
(* for the owner first.                                                    *)
InstNext(q) ==
  /\ At(q, "instNext")
  /\ \/ req[q].todo = {} /\ End(q)
     \/ \E i \in req[q].todo :
          req' = [req EXCEPT ![q].pc = IF req[q].flow = "sync" THEN "instUpsert" ELSE "instFind",
                             ![q].inst = i, ![q].todo = @ \ {i}]
  /\ Handling /\ UNCHANGED <<states, connection, owner, row, access, linked, owed>>

(* findInstallationOwner: an installation of another workspace is skipped, *)
(* or ends the request with 403.                                           *)
Unclaimed(i) == owner[i] = NoWorkspace
InstFind(q) ==
  LET i == req[q].inst IN
  /\ At(q, "instFind")
  /\ IF Unclaimed(i) \/ owner[i] = req[q].ws THEN Goto(q, "instUpsert")
     ELSE IF req[q].flow = "oauth" THEN Goto(q, "instNext") ELSE End(q)
  /\ Handling /\ UNCHANGED <<states, connection, owner, row, access, linked, owed>>

(* Mutant of Claimable: the check before is trusted. *)
ClaimableAfterCheck(i, w) == TRUE
Claimable(i, w) == Unclaimed(i) \/ owner[i] = w
(* upsertWorkspaceInstallation: ON CONFLICT ... WHERE; no row comes back   *)
(* for an installation claimed in between, and requireRow throws.          *)
InstUpsert(q) ==
  LET i == req[q].inst  w == req[q].ws IN
  /\ At(q, "instUpsert")
  /\ \/ Claimable(i, w) /\ owner' = [owner EXCEPT ![i] = w] /\ Goto(q, "repoList")
     \/ ~Claimable(i, w) /\ End(q) /\ UNCHANGED owner
  /\ Handling /\ UNCHANGED <<states, connection, row, access, linked, owed>>

(* syncInstallationRepositories: GitHub's list, then for each repository   *)
(* upsertInstallationRepository and grantRepositoryAccess.                 *)
RepoList(q) ==
  /\ At(q, "repoList")
  /\ req' = [req EXCEPT ![q].pc = "repoUpsert", ![q].listed = {r \in Repository : home[r] = req[q].inst}]
  /\ Handling /\ UNCHANGED <<states, connection, owner, row, access, linked, owed>>

(* syncRepository: the one repository, if the installation still has it.   *)
SyncRepository(q, u, w, r) ==
  /\ Manager(w, u) /\ row[r] # Nobody /\ owner[row[r]] = w /\ home[r] = row[r]
  /\ Begin(q, [Idle EXCEPT !.pc = "repoUpsert", !.flow = "sync", !.user = u, !.ws = w,
                           !.inst = row[r], !.listed = {r}])
  /\ Arrival /\ UNCHANGED githubVars

(* Mutant of AfterUpsert: only a new row is granted. *)
AfterUpsertOfNew(r) == IF row[r] = Nobody THEN "repoGrant" ELSE "repoUpsert"
AfterUpsert(r) == "repoGrant"
RepoUpsert(q) ==
  /\ At(q, "repoUpsert")
  /\ \/ /\ req[q].listed = {}
        /\ req' = [req EXCEPT ![q].pc = "instNext", ![q].inst = Nobody]
        /\ UNCHANGED <<row, owed>>
     \/ \E r \in req[q].listed :
          /\ row' = [row EXCEPT ![r] = req[q].inst]
          /\ owed' = owed \cup {<<req[q].user, r>>}
          /\ req' = [req EXCEPT ![q].pc = AfterUpsert(r), ![q].repo = r, ![q].listed = @ \ {r}]
  /\ Handling /\ UNCHANGED <<states, connection, owner, access, linked>>
RepoGrant(q) ==
  /\ At(q, "repoGrant")
  /\ access' = access \cup {<<req[q].user, req[q].repo>>}
  /\ req' = [req EXCEPT ![q].pc = "repoUpsert", ![q].repo = Nobody]
  /\ Handling /\ UNCHANGED <<states, connection, owner, row, linked, owed>>
-----------------------------------------------------------------------------
Next ==
  \/ MembersNext /\ UNCHANGED githubVars
  \/ \E s \in 1..MaxStates : StateExpires(s)
  \/ \E r \in Repository, i \in Installation \cup {Nobody} : Transfer(r, i)
  \/ \E q \in Request :
       \/ RequestFails(q)
       \/ \E u \in User, w \in Workspace :
            \/ StartOAuth(q, u, w)
            \/ \E s \in 0..MaxStates : CompleteOAuth(q, u, w, s)
            \/ \E i \in Installation : Connect(q, u, w, i)
            \/ \E S \in SUBSET Installation : Sync(q, u, w, S)
            \/ \E r \in Repository : SyncRepository(q, u, w, r)
       \/ OAuthConsume(q) \/ ConnDelete(q) \/ ConnInsert(q)
       \/ \E g \in Account : OAuthExchange(q, g)
       \/ \E S \in SUBSET Installation : Accessible(q, S)
       \/ InstNext(q) \/ InstFind(q) \/ InstUpsert(q)
       \/ RepoList(q) \/ RepoUpsert(q) \/ RepoGrant(q)

Spec == Init /\ [][Next]_vars
-----------------------------------------------------------------------------
(* An installation a workspace has claimed stays that workspace's, however *)
(* the check of the owner and the upsert interleave with other workspaces' *)
(* requests and webhooks (github.service.ts:165, github.store.ts:389).     *)
InstallationKeepsItsWorkspace ==
  [][\A i \in Installation : owner[i] \in Workspace => owner'[i] = owner[i]]_vars

(* An account that was connected is one user's, and stays some user's      *)
(* until that user connects another: while it moves, the request that took *)
(* it is still to insert it, and only a failure right there loses it       *)
(* (github.store.ts:276).                                                  *)
AccountHasOneUser ==
  \A g \in Account :
    /\ \A u, v \in User : connection[u] = g /\ connection[v] = g => u = v
    /\ g \in linked =>
         \/ \E u \in User : connection[u] = g
         \/ \E q \in Request : At(q, "connInsert") /\ req[q].account = g

(* A repository is filed under an installation some workspace has claimed, *)
(* and every sync that filed it, the first or a later one, gives its user  *)
(* access; only the grant a sync is at, or failed at, may be missing       *)
(* (github.store.ts:446).                                                  *)
FiledRepositoriesAreVisible ==
  /\ \A r \in Repository : row[r] # Nobody => owner[row[r]] \in Workspace
  /\ \A g \in owed \ access : \E q \in Request : At(q, "repoGrant") /\ g = <<req[q].user, req[q].repo>>
=============================================================================
