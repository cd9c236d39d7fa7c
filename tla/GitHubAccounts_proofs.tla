------------------------ MODULE GitHubAccounts_proofs ------------------------
(***************************************************************************)
(* Theorems about GitHubAccounts, for any users, organizations, accounts,  *)
(* installations and any number of requests at a time: an installation     *)
(* keeps its workspace, an account has one user, and an organization keeps *)
(* an admin as long as every removal rests on a valid count.               *)
(***************************************************************************)
EXTENDS GitHubAccounts, FiniteSetTheorems, TLAPS

Settings == {"targetRead", "adminCount", "memberWrite"}
Connecting == {"oauthConsume", "oauthExchange", "connDelete", "connInsert"}

(* Every request has the fields it is created with.                        *)
Shape ==
  /\ DOMAIN req = Request
  /\ \A q \in Request : DOMAIN req[q] = DOMAIN Idle /\ req[q].counted \in BOOLEAN

(* What a step of the request q changes: itself, beside what a MemberWrite *)
(* does to the counts of the others.                                       *)
OnlyReq(q) ==
  /\ DOMAIN req' = Request /\ DOMAIN req'[q] = DOMAIN Idle
  /\ \A p \in Request \ {q} : req'[p] = req[p]

(* A change of a membership knows what it changes, and a request that      *)
(* connects an account knows its user.                                     *)
Known(q) ==
  /\ req[q].pc \in Settings =>
       req[q].ws \in Workspace /\ req[q].target \in User /\ req[q].change \in Change
  /\ req[q].pc \in Connecting => req[q].user \in User

(* An admin counted on is there, and an organization has an admin.         *)
AdminInv ==
  /\ Shape
  /\ members \in [Workspace -> [User -> Membership]]
  /\ \A q \in Request : Known(q)
  /\ \A q \in Request : req[q].counted =>
       At(q, "memberWrite") /\ \E u \in User \ {req[q].target} : ActiveAdmin(req[q].ws, u)
  /\ OneAdminRemains
-----------------------------------------------------------------------------
(* A step that leaves the memberships alone, and counts on nobody new.     *)
LEMMA AdminsStay ==
  ASSUME AdminInv, UNCHANGED <<members, uncounted>>,
         NEW q \in Request, OnlyReq(q), req'[q].counted = FALSE,
         Known(q)'
  PROVE  AdminInv'
<1>1. Shape' /\ \A p \in Request : Known(p)'
  BY DEF AdminInv, Shape, OnlyReq, Known
<1>2. \A w, u : ActiveAdmin(w, u)' <=> ActiveAdmin(w, u)
  BY DEF ActiveAdmin, Active
<1>3. OneAdminRemains'
  BY <1>2 DEF AdminInv, OneAdminRemains
<1>4. ASSUME NEW p \in Request, req'[p].counted
      PROVE  req'[p].pc = "memberWrite" /\ \E u \in User \ {req'[p].target} : ActiveAdmin(req'[p].ws, u)
  BY <1>4 DEF AdminInv, OnlyReq, At
<1>5. \A p \in Request : (req[p].counted)' =>
        At(p, "memberWrite")' /\ \E u \in User \ {req'[p].target} : ActiveAdmin(req[p].ws, u)'
  <2>1. \A p, u : ActiveAdmin(req[p].ws, u)' <=> ActiveAdmin(req'[p].ws, u)
    BY DEF ActiveAdmin, Active
  <2> QED BY <1>4, <2>1 DEF At
<1> QED
  BY <1>1, <1>3, <1>5 DEF AdminInv

(* A step of a request that is not about members.                          *)
OtherStep(q) ==
  /\ OnlyReq(q) /\ UNCHANGED <<members, uncounted>>
  /\ Known(q)' /\ req'[q].counted = FALSE

(* The steps of GitHubAccounts are of that kind.                           *)
LEMMA OtherRequests ==
  ASSUME AdminInv, NEW q \in Request,
         \/ RequestFails(q)
         \/ \E u \in User, w \in Workspace :
              \/ \E s \in 0..MaxStates : CompleteOAuth(q, u, w, s)
              \/ \E i \in Installation : Connect(q, u, w, i)
              \/ \E S \in SUBSET Installation : Sync(q, u, w, S)
              \/ \E r \in Repository : SyncRepository(q, u, w, r)
         \/ OAuthConsume(q) \/ ConnDelete(q) \/ ConnInsert(q)
         \/ \E g \in Account : OAuthExchange(q, g)
         \/ \E S \in SUBSET Installation : Accessible(q, S)
         \/ InstNext(q) \/ InstFind(q) \/ InstUpsert(q)
         \/ RepoList(q) \/ RepoUpsert(q) \/ RepoGrant(q)
  PROVE  OtherStep(q)
<1> USE DEF OtherStep, OnlyReq, Known, Settings, Connecting, At, Goto, End, Begin, Idle, Handling, Arrival
<1>0. /\ DOMAIN req = Request /\ DOMAIN req[q] = DOMAIN Idle
      /\ req[q].pc # "memberWrite" => req[q].counted = FALSE
      /\ Known(q)
  BY DEF AdminInv, Shape
<1>1. CASE RequestFails(q)
  BY <1>0, <1>1 DEF RequestFails
<1>2. CASE OAuthConsume(q)
  BY <1>0, <1>2 DEF OAuthConsume
<1>3. CASE ConnDelete(q) \/ ConnInsert(q)
  BY <1>0, <1>3 DEF ConnDelete, ConnInsert
<1>4. ASSUME NEW g, OAuthExchange(q, g)
      PROVE  OtherStep(q)
  BY <1>0, <1>4 DEF OAuthExchange
<1>5. ASSUME NEW u \in User, NEW w, NEW s, CompleteOAuth(q, u, w, s)
      PROVE  OtherStep(q)
  BY <1>0, <1>5 DEF CompleteOAuth
<1>6. ASSUME NEW u, NEW w, NEW x, Connect(q, u, w, x) \/ Sync(q, u, w, x) \/ SyncRepository(q, u, w, x)
      PROVE  OtherStep(q)
  <2>1. CASE Connect(q, u, w, x)
    BY <1>0, <2>1 DEF Connect
  <2>2. CASE Sync(q, u, w, x)
    BY <1>0, <2>2 DEF Sync
  <2>3. CASE SyncRepository(q, u, w, x)
    BY <1>0, <2>3 DEF SyncRepository
  <2> QED
    BY <1>6, <2>1, <2>2, <2>3
<1>7. ASSUME NEW S, Accessible(q, S)
      PROVE  OtherStep(q)
  BY <1>0, <1>7 DEF Accessible
<1>8. CASE InstNext(q)
  <2>1. CASE req[q].todo = {} /\ End(q)
    BY <1>0, <1>8, <2>1 DEF InstNext
  <2>2. ASSUME NEW i, req' = [req EXCEPT ![q].pc = IF req[q].flow = "sync" THEN "instUpsert" ELSE "instFind",
                                         ![q].inst = i, ![q].todo = @ \ {i}]
        PROVE  OtherStep(q)
    BY <1>0, <1>8, <2>2 DEF InstNext
  <2> QED
    BY <1>8, <2>1, <2>2 DEF InstNext
<1>9. CASE InstFind(q) \/ InstUpsert(q)
  BY <1>0, <1>9 DEF InstFind, InstUpsert
<1>10. CASE RepoList(q) \/ RepoUpsert(q) \/ RepoGrant(q)
  <2>1. CASE RepoList(q)
    BY <1>0, <2>1 DEF RepoList
  <2>2. CASE RepoUpsert(q)
    <3>1. CASE req' = [req EXCEPT ![q].pc = "instNext", ![q].inst = Nobody]
      BY <1>0, <2>2, <3>1 DEF RepoUpsert
    <3>2. ASSUME NEW r, req' = [req EXCEPT ![q].pc = AfterUpsert(r), ![q].repo = r, ![q].listed = @ \ {r}]
          PROVE  OtherStep(q)
      BY <1>0, <2>2, <3>2 DEF RepoUpsert, AfterUpsert
    <3> QED
      BY <2>2, <3>1, <3>2 DEF RepoUpsert
  <2>3. CASE RepoGrant(q)
    BY <1>0, <2>3 DEF RepoGrant
  <2> QED
    BY <1>10, <2>1, <2>2, <2>3
<1> QED
  BY <1>1, <1>2, <1>3, <1>4, <1>5, <1>6, <1>7, <1>8, <1>9, <1>10

(* A first login or an admin's request that changes no membership yet.     *)
LEMMA MemberRequests ==
  ASSUME AdminInv, NEW q \in Request,
         \/ \E u \in User :
              \/ LoginPersonal(q, u)
              \/ \E w \in Org : LoginOrg(q, u, w)
              \/ \E w \in Workspace, t \in User, c \in Change : ChangeMember(q, u, w, t, c)
         \/ PersonalFind(q) \/ PersonalCreate(q) \/ MemberFind(q) \/ TargetRead(q)
  PROVE  /\ OnlyReq(q) /\ UNCHANGED <<members, uncounted>> /\ req'[q].counted = FALSE
         /\ Known(q)'
<1> DEFINE Harmless ==
      /\ OnlyReq(q) /\ UNCHANGED <<members, uncounted>> /\ req'[q].counted = FALSE
      /\ Known(q)'
<1> USE DEF OnlyReq, At, Goto, End, Begin, Idle, Settings, Connecting, Known
<1>0. /\ DOMAIN req = Request /\ DOMAIN req[q] = DOMAIN Idle
      /\ req[q].pc # "memberWrite" => req[q].counted = FALSE
      /\ Known(q)
  BY DEF AdminInv, Shape
<1>1. ASSUME NEW u, LoginPersonal(q, u)
      PROVE  Harmless
  BY <1>0, <1>1 DEF LoginPersonal
<1>2. ASSUME NEW u, NEW w, LoginOrg(q, u, w)
      PROVE  Harmless
  BY <1>0, <1>2 DEF LoginOrg
<1>3. ASSUME NEW u, NEW w \in Workspace, NEW t \in User, NEW c \in Change, ChangeMember(q, u, w, t, c)
      PROVE  Harmless
  BY <1>0, <1>3 DEF ChangeMember
<1>4. CASE PersonalFind(q) \/ PersonalCreate(q) \/ MemberFind(q)
  BY <1>0, <1>4 DEF PersonalFind, PersonalCreate, MemberFind
<1>5. CASE TargetRead(q)
  BY <1>0, <1>5 DEF TargetRead
<1> QED
  BY <1>1, <1>2, <1>3, <1>4, <1>5

(* A membership that is inserted is no admin's, and was nobody's.          *)
LEMMA MemberInsertKeeps ==
  ASSUME AdminInv, NEW q \in Request, MemberInsert(q)
  PROVE  AdminInv'
<1> DEFINE w == req[q].ws
           u == req[q].user
<1>0. /\ DOMAIN req = Request /\ DOMAIN req[q] = DOMAIN Idle /\ req[q].counted = FALSE
  BY DEF AdminInv, Shape, MemberInsert, At
<1>1. OnlyReq(q) /\ req'[q].counted = FALSE /\ req'[q].pc \notin Settings \cup Connecting /\ uncounted' = uncounted
  BY <1>0 DEF MemberInsert, OnlyReq, Goto, End, Idle, Settings, Connecting
<1>2. CASE members' = members
  BY <1>1, <1>2, AdminsStay DEF Known, Connecting
<1>3. CASE /\ members[w][u] = NotMember
           /\ members' = [members EXCEPT ![w][u] = [role |-> "developer", active |-> TRUE]]
  <2>1. \A v \in Workspace, x \in User : ActiveAdmin(v, x) => members'[v][x] = members[v][x]
    BY <1>3 DEF AdminInv, ActiveAdmin, Active, NotMember
  <2>2. members' \in [Workspace -> [User -> Membership]]
    BY <1>3 DEF AdminInv, Membership, Role
  <2>3. \A v \in Workspace, x \in User : ActiveAdmin(v, x) => ActiveAdmin(v, x)'
    BY <2>1 DEF ActiveAdmin, Active
  <2>4. OneAdminRemains'
    BY <1>1, <2>3 DEF AdminInv, OneAdminRemains, Workspace
  <2>5. ASSUME NEW p \in Request, req'[p].counted
        PROVE  req'[p].pc = "memberWrite" /\ \E x \in User \ {req'[p].target} : ActiveAdmin(req[p].ws, x)'
    <3>1. p # q /\ req'[p] = req[p] /\ req[p].ws \in Workspace
      BY <1>1, <2>5 DEF OnlyReq, AdminInv, Known, At, Settings
    <3>2. PICK x \in User \ {req[p].target} : ActiveAdmin(req[p].ws, x)
      BY <2>5, <3>1 DEF AdminInv
    <3>3. members'[req[p].ws][x].active /\ members'[req[p].ws][x].role = "admin"
      BY <2>1, <3>1, <3>2 DEF ActiveAdmin, Active
    <3> QED
      BY <2>5, <3>1, <3>2, <3>3 DEF AdminInv, At, ActiveAdmin, Active
  <2>6. Shape' /\ \A p \in Request : Known(p)'
    BY <1>1 DEF AdminInv, Shape, OnlyReq, Known
  <2> QED
    BY <2>2, <2>4, <2>5, <2>6 DEF AdminInv, At
<1> QED
  BY <1>2, <1>3 DEF MemberInsert

(* A count is of admins who are there.                                     *)
LEMMA AdminCountKeeps ==
  ASSUME AdminInv, NEW q \in Request, AdminCount(q)
  PROVE  AdminInv'
<1>0. /\ DOMAIN req = Request /\ DOMAIN req[q] = DOMAIN Idle /\ req[q].counted = FALSE
      /\ req[q].pc \in Settings /\ Known(q)
  BY DEF AdminInv, Shape, AdminCount, At, Settings
<1>1. OnlyReq(q) /\ UNCHANGED <<members, uncounted>>
  BY <1>0 DEF AdminCount, OnlyReq, End, Idle
<1>2. CASE End(q)
  BY <1>0, <1>1, <1>2, AdminsStay DEF End, Idle, Settings, Connecting, Known
<1>3. CASE OtherAdmins(q) # {} /\ req' = [req EXCEPT ![q].pc = "memberWrite", ![q].counted = TRUE]
  <2>1. /\ req'[q].pc = "memberWrite" /\ req'[q].counted = TRUE /\ req'[q].change = req[q].change
        /\ req'[q].ws = req[q].ws /\ req'[q].target = req[q].target
    BY <1>0, <1>3 DEF Idle
  <2>2. \A w, u : ActiveAdmin(w, u)' <=> ActiveAdmin(w, u)
    BY <1>1 DEF ActiveAdmin, Active
  <2>3. Shape' /\ \A p \in Request : Known(p)'
    BY <1>0, <1>1, <2>1 DEF AdminInv, Shape, OnlyReq, Known, Settings, Connecting
  <2>4. ASSUME NEW p \in Request, req'[p].counted
        PROVE  req'[p].pc = "memberWrite" /\ \E x \in User \ {req'[p].target} : ActiveAdmin(req'[p].ws, x)
    BY <1>1, <1>3, <2>1, <2>4 DEF AdminInv, OnlyReq, At, OtherAdmins
  <2>5. \A p, u : ActiveAdmin(req[p].ws, u)' <=> ActiveAdmin(req'[p].ws, u)
    BY <1>1 DEF ActiveAdmin, Active
  <2> QED
    BY <1>1, <2>2, <2>3, <2>4, <2>5 DEF AdminInv, At, OneAdminRemains
<1> QED
  BY <1>2, <1>3 DEF AdminCount

(* An admin who goes leaves another when the count held, and is marked in  *)
(* uncounted when it did not.                                              *)
LEMMA MemberWriteKeeps ==
  ASSUME AdminInv, NEW q \in Request, MemberWrite(q)
  PROVE  AdminInv'
<1>0. PICK w \in Workspace, t \in User, c \in Change :
        w = req[q].ws /\ t = req[q].target /\ c = req[q].change
  BY DEF AdminInv, Known, MemberWrite, At, Settings
<1>01. PICK goes \in BOOLEAN : goes <=> ActiveAdmin(w, t) /\ c \in {"developer", "suspend"}
  OBVIOUS
<1>1. /\ members' = [members EXCEPT ![w][t] = Changed(members[w][t], c)]
      /\ req' = [p \in Request |->
                   IF p = q THEN Idle
                   ELSE IF goes /\ req[p].ws = w THEN [req[p] EXCEPT !.counted = FALSE] ELSE req[p]]
      /\ uncounted' = IF goes /\ ~req[q].counted THEN uncounted \cup {w} ELSE uncounted
  BY <1>0, <1>01 DEF MemberWrite, Removes
<1>2. \A v \in Workspace, x \in User : ~(v = w /\ x = t) => members'[v][x] = members[v][x]
  BY <1>1 DEF AdminInv
<1>3. members'[w][t] = Changed(members[w][t], c) /\ members[w][t] \in Membership
  BY <1>1 DEF AdminInv
<1>4. Changed(members[w][t], c) \in Membership
  BY <1>3 DEF Changed, Membership, Change, Role
<1>5. members' \in [Workspace -> [User -> Membership]]
  BY <1>1, <1>4 DEF AdminInv
<1>6. \A v \in Workspace, x \in User : ActiveAdmin(v, x) =>
        ActiveAdmin(v, x)' \/ (goes /\ v = w /\ x = t)
  <2>1. ASSUME ~goes, ActiveAdmin(w, t)
        PROVE  ActiveAdmin(w, t)'
    <3>1. c \in {"admin", "restore"}
      BY <1>01, <2>1 DEF Change
    <3>2. Changed(members[w][t], c).active = TRUE /\ Changed(members[w][t], c).role = "admin"
      BY <1>3, <2>1, <3>1 DEF Changed, Role, ActiveAdmin, Active, Membership
    <3> QED
      BY <1>3, <3>2 DEF ActiveAdmin, Active
  <2> QED
    BY <1>2, <2>1 DEF ActiveAdmin, Active
<1>7. OneAdminRemains'
  <2> SUFFICES ASSUME NEW o \in Org \ uncounted', Seeded[o] # {}
               PROVE  \E u \in User : ActiveAdmin(o, u)'
    BY DEF OneAdminRemains
  <2>1. o \in Workspace /\ o \notin uncounted
    BY <1>1 DEF Workspace
  <2>2. PICK u \in User : ActiveAdmin(o, u)
    BY <2>1 DEF AdminInv, OneAdminRemains
  <2>3. CASE ~(goes /\ o = w)
    BY <1>6, <2>1, <2>2, <2>3
  <2>4. CASE goes /\ o = w
    <3>1. req[q].counted
      BY <1>1, <2>4
    <3>2. PICK x \in User \ {t} : ActiveAdmin(w, x)
      BY <1>0, <3>1 DEF AdminInv
    <3> QED
      BY <1>6, <2>4, <3>2
  <2> QED
    BY <2>3, <2>4
<1>8. Shape' /\ \A p \in Request : Known(p)'
  BY <1>1, ZenonT(60) DEF AdminInv, Shape, Known, Idle, Settings, Connecting
<1>9. ASSUME NEW p \in Request, req'[p].counted
      PROVE  req'[p].pc = "memberWrite" /\ \E x \in User \ {req'[p].target} : ActiveAdmin(req[p].ws, x)'
  <2>1. p # q /\ req'[p] = req[p] /\ ~(goes /\ req[p].ws = w)
    BY <1>1, <1>9 DEF AdminInv, Shape, Idle
  <2>2. req[p].pc = "memberWrite" /\ req[p].ws \in Workspace
    BY <1>9, <2>1 DEF AdminInv, Known, At, Settings
  <2>3. PICK v \in Workspace : v = req[p].ws
    BY <2>2
  <2>4. PICK x \in User \ {req[p].target} : ActiveAdmin(v, x)
    BY <1>9, <2>1, <2>3 DEF AdminInv
  <2>5. ActiveAdmin(v, x)'
    BY <1>6, <2>1, <2>3, <2>4
  <2> QED
    BY <2>1, <2>2, <2>3, <2>4, <2>5 DEF ActiveAdmin, Active
<1> QED
  BY <1>5, <1>7, <1>8, <1>9 DEF AdminInv, At

(* Steps outside the requests, and those that change no request.           *)
LEMMA AdminsUntouched ==
  ASSUME AdminInv, UNCHANGED <<members, uncounted, req>>
  PROVE  AdminInv'
BY DEF AdminInv, Shape, Known, At, OneAdminRemains, ActiveAdmin, Active

(* AdminInv is an invariant.                                               *)
THEOREM AdminInvariant == Spec => []AdminInv
<1>1. Init => AdminInv
  <2> SUFFICES ASSUME Init PROVE AdminInv
    OBVIOUS
  <2>1. members \in [Workspace -> [User -> Membership]]
    BY DEF Init, MembersInit, Membership, NotMember, Role
  <2>2. /\ DOMAIN req = Request
        /\ \A q \in Request : req[q] = Idle /\ req[q].counted = FALSE /\ req[q].pc = "idle"
    BY DEF Init, MembersInit, Idle
  <2>3. OneAdminRemains
    BY MembersAssumption DEF Init, MembersInit, OneAdminRemains, ActiveAdmin, Active, Workspace
  <2> QED
    BY <2>1, <2>2, <2>3 DEF AdminInv, Shape, Known, Settings, Connecting
<1>2. AdminInv /\ [Next]_vars => AdminInv'
  <2> SUFFICES ASSUME AdminInv, [Next]_vars PROVE AdminInv'
    OBVIOUS
  <2>1. CASE MembersNext
    <3>1. PICK q \in Request :
            \/ \E u \in User :
                 \/ LoginPersonal(q, u)
                 \/ \E w \in Org : LoginOrg(q, u, w)
                 \/ \E w \in Workspace, t \in User, c \in Change : ChangeMember(q, u, w, t, c)
            \/ PersonalFind(q) \/ PersonalCreate(q) \/ MemberFind(q) \/ MemberInsert(q)
            \/ TargetRead(q) \/ AdminCount(q) \/ MemberWrite(q)
      BY <2>1 DEF MembersNext
    <3>2. CASE MemberInsert(q) \/ AdminCount(q) \/ MemberWrite(q)
      BY <3>2, MemberInsertKeeps, AdminCountKeeps, MemberWriteKeeps
    <3>3. CASE ~(MemberInsert(q) \/ AdminCount(q) \/ MemberWrite(q))
      BY <3>1, <3>3, MemberRequests, AdminsStay
    <3> QED
      BY <3>2, <3>3
  <2>2. ASSUME NEW q \in Request, OtherStep(q)
        PROVE  AdminInv'
    BY <2>2, AdminsStay DEF OtherStep, Known
  <2>3. ASSUME \/ \E s \in 1..MaxStates : StateExpires(s)
               \/ \E r \in Repository, i \in Installation \cup {Nobody} : Transfer(r, i)
               \/ \E q \in Request, u \in User, w \in Workspace : StartOAuth(q, u, w)
               \/ UNCHANGED vars
        PROVE  AdminInv'
    <3>1. UNCHANGED <<members, uncounted, req>>
      BY <2>3 DEF StateExpires, Transfer, StartOAuth, Arrival, vars, memberVars
    <3> QED
      BY <3>1, AdminsUntouched
  <2> QED
    BY <2>1, <2>2, <2>3, OtherRequests DEF Next
<1> QED
  BY <1>1, <1>2, PTL DEF Spec

(* An organization that began with an active admin has one for ever,       *)
(* whatever admins do to each other at the same time, except when one was  *)
(* removed on no count of the others or on a count made void in between    *)
(* (SettingsService.assertMemberMutationAllowed).                          *)
THEOREM AdminRemains == Spec => []OneAdminRemains
<1>1. AdminInv => OneAdminRemains
  BY DEF AdminInv
<1> QED
  BY <1>1, AdminInvariant, PTL
-----------------------------------------------------------------------------
(* An installation that some workspace has claimed is never claimed by     *)
(* another (upsertWorkspaceInstallation).                                  *)
THEOREM InstallationKept == Spec => InstallationKeepsItsWorkspace
<1> DEFINE Inv == DOMAIN owner = Installation
           Keeps == \A i \in Installation : owner[i] \in Workspace => owner'[i] = owner[i]
<1>1. Init => Inv
  BY DEF Init
<1>2. Inv /\ [Next]_vars => Inv' /\ Keeps
  <2> SUFFICES ASSUME Inv, [Next]_vars PROVE Inv' /\ Keeps
    OBVIOUS
  <2>1. ASSUME NEW q \in Request, InstUpsert(q)
        PROVE  Inv' /\ Keeps
    <3>1. CASE owner' = owner
      BY <3>1
    <3>2. CASE Claimable(req[q].inst, req[q].ws) /\ owner' = [owner EXCEPT ![req[q].inst] = req[q].ws]
      <4>1. NoWorkspace \notin Workspace
        BY MembersAssumption DEF Workspace, Personal
      <4> QED
        BY <3>2, <4>1 DEF Claimable, Unclaimed
    <3> QED
      BY <2>1, <3>1, <3>2 DEF InstUpsert
  <2>2. CASE UNCHANGED owner
    BY <2>2
  <2>3. [Next]_vars => UNCHANGED owner \/ \E q \in Request : InstUpsert(q)
    <3>1. ASSUME NEW q, NEW u, NEW w, NEW x,
                 \/ StartOAuth(q, u, w) \/ CompleteOAuth(q, u, w, x) \/ Connect(q, u, w, x)
                 \/ Sync(q, u, w, x) \/ SyncRepository(q, u, w, x)
          PROVE  UNCHANGED owner
      BY <3>1 DEF StartOAuth, CompleteOAuth, Connect, Sync, SyncRepository, githubVars
    <3>2. ASSUME NEW q, NEW x,
                 RequestFails(q) \/ OAuthExchange(q, x) \/ Accessible(q, x) \/ StateExpires(x) \/ Transfer(q, x)
          PROVE  UNCHANGED owner
      BY <3>2 DEF RequestFails, OAuthExchange, Accessible, StateExpires, Transfer
    <3>3. ASSUME NEW q,
                 \/ OAuthConsume(q) \/ ConnDelete(q) \/ ConnInsert(q) \/ InstNext(q) \/ InstFind(q)
                 \/ RepoList(q) \/ RepoUpsert(q) \/ RepoGrant(q)
          PROVE  UNCHANGED owner
      BY <3>3 DEF OAuthConsume, ConnDelete, ConnInsert, InstNext, InstFind, RepoList, RepoUpsert, RepoGrant
    <3>4. UNCHANGED githubVars \/ UNCHANGED vars => UNCHANGED owner
      BY DEF githubVars, vars
    <3> QED
      BY <3>1, <3>2, <3>3, <3>4 DEF Next
  <2> QED
    BY <2>1, <2>2, <2>3
<1> QED
  BY <1>1, <1>2, PTL DEF Spec, InstallationKeepsItsWorkspace
-----------------------------------------------------------------------------
(* What is inductive of AccountHasOneUser.                                 *)
AccountInv == DOMAIN connection = User /\ AccountHasOneUser

(* A step that moves no account.                                           *)
LEMMA AccountsStay ==
  ASSUME AccountInv, UNCHANGED <<connection, linked>>,
         \A p \in Request : At(p, "connInsert") => At(p, "connInsert")' /\ req'[p].account = req[p].account
  PROVE  AccountInv'
BY DEF AccountInv, AccountHasOneUser

(* The DELETE: the account is in the hands of the request alone.           *)
LEMMA ConnDeleteKeeps ==
  ASSUME AdminInv, AccountInv, NEW q \in Request, ConnDelete(q)
  PROVE  AccountInv'
<1>1. /\ OnlyReq(q) /\ linked' = linked /\ At(q, "connInsert")' /\ req'[q].account = req[q].account
      /\ req[q].pc # "connInsert"
      /\ connection' = [u \in User |->
            IF u # req[q].user /\ connection[u] = req[q].account THEN Nobody ELSE connection[u]]
  BY DEF ConnDelete, OnlyReq, Goto, At, Handling, Idle, AdminInv, Shape
<1>2. ASSUME NEW g \in Account, NEW u \in User, NEW v \in User, connection'[u] = g, connection'[v] = g
      PROVE  u = v
  <2>1. g # Nobody
    BY MembersAssumption
  <2> QED
    BY <1>1, <1>2, <2>1 DEF AccountInv, AccountHasOneUser
<1>3. ASSUME NEW g \in Account, g \in linked
      PROVE  \/ \E u \in User : connection'[u] = g
             \/ \E p \in Request : At(p, "connInsert")' /\ req'[p].account = g
  <2>1. CASE g = req[q].account
    BY <1>1, <2>1
  <2>2. CASE g # req[q].account
    BY <1>1, <1>3, <2>2 DEF AccountInv, AccountHasOneUser, OnlyReq, At
  <2> QED
    BY <2>1, <2>2
<1> QED
  BY <1>1, <1>2, <1>3 DEF AccountInv, AccountHasOneUser, OnlyReq

(* The INSERT: the account the user had before need be nobody's any more,  *)
(* and nobody else has the new one.                                        *)
LEMMA ConnInsertKeeps ==
  ASSUME AdminInv, AccountInv, NEW q \in Request, ConnInsert(q)
  PROVE  AccountInv'
<1>1. OnlyReq(q) /\ At(q, "connInsert") /\ req[q].user \in User
  BY DEF ConnInsert, OnlyReq, Goto, End, At, Idle, AdminInv, Shape, Known, Connecting
<1>2. ASSUME NEW g \in Account, g # req[q].account, NEW p \in Request, At(p, "connInsert"), req[p].account = g
      PROVE  At(p, "connInsert")' /\ req'[p].account = g
  BY <1>1, <1>2 DEF OnlyReq, At
<1>3. CASE Taken(q) /\ UNCHANGED <<connection, linked>>
  BY <1>2, <1>3 DEF Taken, AccountInv, AccountHasOneUser
<1>4. CASE /\ ~Taken(q) /\ connection' = [connection EXCEPT ![req[q].user] = req[q].account]
           /\ linked' = (linked \ ({connection[req[q].user]} \ {req[q].account})) \cup {req[q].account}
  <2>0. PICK u \in User, a \in {req[q].account} : u = req[q].user
    BY <1>1
  <2>1. ASSUME NEW g \in Account, NEW x \in User, NEW v \in User, connection'[x] = g, connection'[v] = g
        PROVE  x = v
    BY <1>4, <2>0, <2>1 DEF Taken, AccountInv, AccountHasOneUser
  <2>2. ASSUME NEW g \in Account, g \in linked'
        PROVE  \/ \E x \in User : connection'[x] = g
               \/ \E p \in Request : At(p, "connInsert")' /\ req'[p].account = g
    <3>1. CASE g = a
      BY <1>4, <2>0, <3>1 DEF AccountInv
    <3>2. CASE g # a
      BY <1>2, <1>4, <2>0, <2>2, <3>2 DEF AccountInv, AccountHasOneUser
    <3> QED
      BY <3>1, <3>2
  <2> QED
    BY <1>4, <2>1, <2>2 DEF AccountInv, AccountHasOneUser
<1> QED
  BY <1>3, <1>4 DEF ConnInsert, Connected

(* A request that fails gives up what it was moving.                       *)
LEMMA RequestFailsKeeps ==
  ASSUME AdminInv, AccountInv, NEW q \in Request, RequestFails(q)
  PROVE  AccountInv'
<1>1. /\ \A p \in Request \ {q} : req'[p] = req[p]
      /\ connection' = connection
      /\ linked' = IF At(q, "connInsert") THEN linked \ {req[q].account} ELSE linked
  BY DEF RequestFails, End, AdminInv, Shape
<1> QED
  BY <1>1 DEF AccountInv, AccountHasOneUser, At

(* The steps that leave the connections alone.                             *)
LEMMA OtherKeeps ==
  ASSUME AdminInv, AccountInv, NEW q \in Request, OnlyReq(q), ~At(q, "connInsert"),
         UNCHANGED <<connection, linked>>
  PROVE  AccountInv'
BY AccountsStay DEF OnlyReq, At

(* The requests about members move no account.                             *)
LEMMA MembersKeep ==
  ASSUME AdminInv, AccountInv, MembersNext, UNCHANGED githubVars
  PROVE  AccountInv'
<1>1. PICK q \in Request :
        \/ \E u \in User :
             \/ LoginPersonal(q, u)
             \/ \E w \in Org : LoginOrg(q, u, w)
             \/ \E w \in Workspace, t \in User, c \in Change : ChangeMember(q, u, w, t, c)
        \/ PersonalFind(q) \/ PersonalCreate(q) \/ MemberFind(q) \/ MemberInsert(q)
        \/ TargetRead(q) \/ AdminCount(q) \/ MemberWrite(q)
  BY SMTT(60) DEF MembersNext
<1>2. ~At(q, "connInsert")
  BY <1>1 DEF LoginPersonal, LoginOrg, ChangeMember, Begin, PersonalFind, PersonalCreate, MemberFind, MemberInsert,
     TargetRead, AdminCount, MemberWrite, At
<1>3. CASE MemberWrite(q)
  <2>1. ASSUME NEW p \in Request, At(p, "connInsert")
        PROVE  At(p, "connInsert")' /\ req'[p].account = req[p].account
    BY <1>2, <1>3, <2>1 DEF MemberWrite, AdminInv, Shape, Idle, At
  <2> QED
    BY <2>1, AccountsStay DEF githubVars
<1>4. CASE MemberInsert(q) \/ AdminCount(q)
  <2>1. OnlyReq(q)
    BY <1>4 DEF MemberInsert, AdminCount, Goto, End, Idle, OnlyReq, AdminInv, Shape
  <2> QED
    BY <1>2, <2>1, OtherKeeps DEF githubVars
<1>5. CASE ~(MemberInsert(q) \/ AdminCount(q) \/ MemberWrite(q))
  <2>1. OnlyReq(q)
    BY <1>1, <1>5, MemberRequests
  <2> QED
    BY <1>2, <2>1, OtherKeeps DEF githubVars
<1> QED
  BY <1>3, <1>4, <1>5

(* An account that was connected is one user's, and while a request moves  *)
(* it nobody else's: only a failure between DELETE and INSERT loses it     *)
(* (upsertOAuthConnection).                                                *)
THEOREM OneUser == Spec => []AccountHasOneUser
<1>1. Init => AccountInv
  BY MembersAssumption DEF Init, AccountInv, AccountHasOneUser
<1>2. AdminInv /\ AccountInv /\ [Next]_vars => AccountInv'
  <2> SUFFICES ASSUME AdminInv, AccountInv, [Next]_vars PROVE AccountInv'
    OBVIOUS
  <2>1. CASE MembersNext /\ UNCHANGED githubVars
    BY <2>1, MembersKeep
  <2>2. ASSUME NEW q \in Request, RequestFails(q) \/ ConnDelete(q) \/ ConnInsert(q)
        PROVE  AccountInv'
    BY <2>2, RequestFailsKeeps, ConnDeleteKeeps, ConnInsertKeeps
  <2>3. ASSUME NEW q \in Request,
               \/ \E u \in User, w \in Workspace :
                    \/ \E s \in 0..MaxStates : CompleteOAuth(q, u, w, s)
                    \/ \E i \in Installation : Connect(q, u, w, i)
                    \/ \E S \in SUBSET Installation : Sync(q, u, w, S)
                    \/ \E r \in Repository : SyncRepository(q, u, w, r)
               \/ OAuthConsume(q)
               \/ \E g \in Account : OAuthExchange(q, g)
               \/ \E S \in SUBSET Installation : Accessible(q, S)
               \/ InstNext(q) \/ InstFind(q) \/ InstUpsert(q)
               \/ RepoList(q) \/ RepoUpsert(q) \/ RepoGrant(q)
        PROVE  AccountInv'
    <3>1. OnlyReq(q)
      BY <2>3, OtherRequests DEF OtherStep
    <3>2. ~At(q, "connInsert")
      BY <2>3 DEF CompleteOAuth, Connect, Sync, SyncRepository, Begin, OAuthConsume, OAuthExchange, Accessible,
         InstNext, InstFind, InstUpsert, RepoList, RepoUpsert, RepoGrant, At
    <3>3. UNCHANGED <<connection, linked>>
      BY <2>3, ZenonT(60) DEF CompleteOAuth, Connect, Sync, SyncRepository, OAuthConsume, OAuthExchange, Accessible,
         InstNext, InstFind, InstUpsert, RepoList, RepoUpsert, RepoGrant, githubVars
    <3> QED
      BY <3>1, <3>2, <3>3, OtherKeeps
  <2>4. ASSUME \/ \E s \in 1..MaxStates : StateExpires(s)
               \/ \E r \in Repository, i \in Installation \cup {Nobody} : Transfer(r, i)
               \/ \E q \in Request, u \in User, w \in Workspace : StartOAuth(q, u, w)
               \/ UNCHANGED vars
        PROVE  AccountInv'
    <3>1. UNCHANGED <<connection, linked, req>>
      BY <2>4 DEF StateExpires, Transfer, StartOAuth, vars, memberVars, githubVars
    <3> QED
      BY <3>1, AccountsStay DEF At
  <2> QED
    BY <2>1, <2>2, <2>3, <2>4 DEF Next
<1>3. AccountInv => AccountHasOneUser
  BY DEF AccountInv
<1> QED
  BY <1>1, <1>2, <1>3, AdminInvariant, PTL DEF Spec
-----------------------------------------------------------------------------
(* The pcs of a request that has an installation, or a claimed one.        *)
Filing == {"repoList", "repoUpsert", "repoGrant"}
Claiming == {"instFind", "instUpsert"} \cup Filing
(* What a request has in hand at each of its steps: its user, workspace    *)
(* and what it changes, an OAuth state that exists, an installation, and   *)
(* one that some workspace has claimed while its repositories are filed.   *)
RequestOK(q) ==
  /\ At(q, "idle") => req[q] = Idle
  /\ ~At(q, "idle") => req[q].user \in User
  /\ req[q].pc \notin {"idle", "personalFind", "personalCreate"} => req[q].ws \in Workspace
  /\ req[q].pc \in Settings => req[q].target \in User /\ req[q].change \in Change
  /\ At(q, "oauthConsume") => req[q].state \in DOMAIN states
  /\ req[q].pc \in {"connDelete", "connInsert"} => req[q].account \in Account
  /\ req[q].pc \in Claiming => req[q].inst \in Installation
  /\ req[q].pc \in Filing => owner[req[q].inst] \in Workspace
  /\ At(q, "repoGrant") => req[q].repo \in Repository

AccountsInv ==
  /\ TypeOK
  /\ \A q \in Request : RequestOK(q)
  /\ FiledRepositoriesAreVisible

(* A step of the request q alone, and what it has in hand after it.        *)
Advances(q) ==
  /\ req' \in [Request -> RequestRecord] /\ RequestOK(q)'
  /\ \A p \in Request \ {q} : req'[p] = req[p]

LEMMA IdleRecord == Idle \in RequestRecord /\ Idle.pc = "idle"
BY DEF Idle, RequestRecord, Pc

LEMMA Fields ==
  ASSUME NEW x \in RequestRecord
  PROVE  /\ x.pc \in Pc /\ x.user \in User \cup {Nobody} /\ x.ws \in Workspace \cup {NoWorkspace}
         /\ x.target \in User \cup {Nobody} /\ x.change \in Change \cup {"none"} /\ x.counted \in BOOLEAN
         /\ x.flow \in {"none", "login", "settings", "oauth", "connect", "sync"} /\ x.manager \in BOOLEAN
         /\ x.state \in Nat /\ x.account \in Account \cup {Nobody} /\ x.todo \in SUBSET Installation
         /\ x.inst \in Installation \cup {Nobody} /\ x.repo \in Repository \cup {Nobody}
         /\ x.listed \in SUBSET Repository
BY DEF RequestRecord




(* A request that takes another record.                                    *)
LEMMA Replaced ==
  ASSUME req \in [Request -> RequestRecord], NEW q \in Request, NEW r \in RequestRecord,
         req' = [req EXCEPT ![q] = r]
  PROVE  /\ req' \in [Request -> RequestRecord] /\ req'[q] = r
         /\ \A p \in Request \ {q} : req'[p] = req[p]
OBVIOUS

(* The records the steps of a request make.                                *)
LEMMA Records ==
  ASSUME NEW x \in RequestRecord, NEW pc \in Pc
  PROVE  /\ [x EXCEPT !.pc = pc] \in RequestRecord
         /\ \A w \in Workspace : [x EXCEPT !.pc = pc, !.ws = w] \in RequestRecord
         /\ \A b \in BOOLEAN : [x EXCEPT !.pc = pc, !.counted = b] \in RequestRecord
         /\ \A g \in Account : [x EXCEPT !.pc = pc, !.account = g] \in RequestRecord
         /\ \A S \in SUBSET Installation : [x EXCEPT !.pc = pc, !.todo = S] \in RequestRecord
         /\ \A i \in Installation, S \in SUBSET Installation :
              [x EXCEPT !.pc = pc, !.inst = i, !.todo = S] \in RequestRecord
         /\ \A i \in Installation \cup {Nobody} : [x EXCEPT !.pc = pc, !.inst = i] \in RequestRecord
         /\ \A S \in SUBSET Repository : [x EXCEPT !.pc = pc, !.listed = S] \in RequestRecord
         /\ \A r \in Repository \cup {Nobody} : [x EXCEPT !.pc = pc, !.repo = r] \in RequestRecord
         /\ \A r \in Repository, S \in SUBSET Repository :
              [x EXCEPT !.pc = pc, !.repo = r, !.listed = S] \in RequestRecord
<1> USE DEF RequestRecord
<1>1. [x EXCEPT !.pc = pc] \in RequestRecord
  OBVIOUS
<1>2. \A w \in Workspace : [x EXCEPT !.pc = pc, !.ws = w] \in RequestRecord
  OBVIOUS
<1>3. \A b \in BOOLEAN : [x EXCEPT !.pc = pc, !.counted = b] \in RequestRecord
  OBVIOUS
<1>4. \A g \in Account : [x EXCEPT !.pc = pc, !.account = g] \in RequestRecord
  OBVIOUS
<1>5. \A S \in SUBSET Installation : [x EXCEPT !.pc = pc, !.todo = S] \in RequestRecord
  OBVIOUS
<1>6. \A i \in Installation, S \in SUBSET Installation :
        [x EXCEPT !.pc = pc, !.inst = i, !.todo = S] \in RequestRecord
  OBVIOUS
<1>7. \A i \in Installation \cup {Nobody} : [x EXCEPT !.pc = pc, !.inst = i] \in RequestRecord
  OBVIOUS
<1>8. \A S \in SUBSET Repository : [x EXCEPT !.pc = pc, !.listed = S] \in RequestRecord
  OBVIOUS
<1>9. \A r \in Repository \cup {Nobody} : [x EXCEPT !.pc = pc, !.repo = r] \in RequestRecord
  OBVIOUS
<1>10. \A r \in Repository, S \in SUBSET Repository :
         [x EXCEPT !.pc = pc, !.repo = r, !.listed = S] \in RequestRecord
  OBVIOUS
<1> QED
  BY <1>1, <1>2, <1>3, <1>4, <1>5, <1>6, <1>7, <1>8, <1>9, <1>10

LEMMA BegunRecords ==
  ASSUME NEW u \in User, NEW w \in Workspace, NEW pc \in Pc
  PROVE  /\ [Idle EXCEPT !.pc = pc, !.flow = "login", !.user = u] \in RequestRecord
         /\ [Idle EXCEPT !.pc = pc, !.flow = "login", !.user = u, !.ws = w] \in RequestRecord
         /\ \A t \in User, c \in Change :
              [Idle EXCEPT !.pc = pc, !.flow = "settings",
                           !.user = u, !.ws = w, !.target = t, !.change = c] \in RequestRecord
         /\ \A b \in BOOLEAN, s \in Nat :
              [Idle EXCEPT !.pc = pc, !.flow = "oauth",
                           !.user = u, !.ws = w, !.manager = b, !.state = s] \in RequestRecord
         /\ \A S \in SUBSET Installation :
              /\ [Idle EXCEPT !.pc = pc, !.flow = "connect", !.user = u, !.ws = w, !.todo = S] \in RequestRecord
              /\ [Idle EXCEPT !.pc = pc, !.flow = "sync", !.user = u, !.ws = w, !.todo = S] \in RequestRecord
         /\ \A i \in Installation, L \in SUBSET Repository :
              [Idle EXCEPT !.pc = pc, !.flow = "sync", !.user = u, !.ws = w,
                           !.inst = i, !.listed = L] \in RequestRecord
<1> USE DEF RequestRecord, Idle
<1>1. [Idle EXCEPT !.pc = pc, !.flow = "login", !.user = u] \in RequestRecord
  OBVIOUS
<1>2. [Idle EXCEPT !.pc = pc, !.flow = "login", !.user = u, !.ws = w] \in RequestRecord
  OBVIOUS
<1>3. \A t \in User, c \in Change :
        [Idle EXCEPT !.pc = pc, !.flow = "settings",
                     !.user = u, !.ws = w, !.target = t, !.change = c] \in RequestRecord
  OBVIOUS
<1>4. \A b \in BOOLEAN, s \in Nat :
        [Idle EXCEPT !.pc = pc, !.flow = "oauth",
                     !.user = u, !.ws = w, !.manager = b, !.state = s] \in RequestRecord
  OBVIOUS
<1>5. \A S \in SUBSET Installation :
        [Idle EXCEPT !.pc = pc, !.flow = "connect", !.user = u, !.ws = w, !.todo = S] \in RequestRecord
  OBVIOUS
<1>6. \A S \in SUBSET Installation :
        [Idle EXCEPT !.pc = pc, !.flow = "sync", !.user = u, !.ws = w, !.todo = S] \in RequestRecord
  OBVIOUS
<1>7. \A i \in Installation, L \in SUBSET Repository :
        [Idle EXCEPT !.pc = pc, !.flow = "sync", !.user = u, !.ws = w,
                     !.inst = i, !.listed = L] \in RequestRecord
  OBVIOUS
<1> HIDE DEF RequestRecord, Idle
<1> QED
  BY <1>1, <1>2, <1>3, <1>4, <1>5, <1>6, <1>7

(* A request that goes on with what it has.                                *)
LEMMA Goes ==
  ASSUME req \in [Request -> RequestRecord], NEW q \in Request, NEW pc \in Pc, Goto(q, pc)
  PROVE  /\ req' \in [Request -> RequestRecord] /\ \A p \in Request \ {q} : req'[p] = req[p]
         /\ req'[q].pc = pc /\ req'[q].user = req[q].user /\ req'[q].ws = req[q].ws
         /\ req'[q].target = req[q].target /\ req'[q].change = req[q].change
         /\ req'[q].state = req[q].state /\ req'[q].account = req[q].account
         /\ req'[q].inst = req[q].inst /\ req'[q].repo = req[q].repo
         /\ req'[q].flow = req[q].flow
BY ZenonT(60) DEF Goto, RequestRecord

LEMMA Ends ==
  ASSUME req \in [Request -> RequestRecord], NEW q \in Request, End(q)
  PROVE  /\ Advances(q) /\ req'[q] = Idle
<1>1. req' \in [Request -> RequestRecord] /\ req'[q] = Idle /\ \A p \in Request \ {q} : req'[p] = req[p]
  BY IdleRecord, Replaced DEF End
<1> QED
  BY <1>1, IdleRecord DEF Advances, RequestOK, At, Settings, Claiming, Filing

(* The oldest workspace of a user is one of the user's.                    *)
LEMMA OldestIsOne ==
  ASSUME NEW u, PersonalOf(u) # {}
  PROVE  Oldest(PersonalOf(u)) \in PersonalOf(u) /\ Oldest(PersonalOf(u)) \in Personal
<1>1. PersonalOf(u) \in SUBSET Nat /\ PersonalOf(u) \subseteq Personal
  BY DEF PersonalOf, Personal
<1>2. \E n \in PersonalOf(u) : \A v \in PersonalOf(u) : n <= v
  <2> DEFINE R == OpToRel(<, Nat)
             S == PersonalOf(u)
  <2>1. \E x \in S : \A y \in S : ~(<<y, x>> \in R)
    <3>1. IsWellFoundedOn(R, Nat)
      BY NatLessThanWellFounded
    <3> HIDE DEF R
    <3> QED  BY <1>1, <3>1, WFMin
  <2>2. \A x, y \in Nat : <<y, x>> \in R <=> y < x
    BY DEF OpToRel
  <2>3. \E x \in S : \A y \in S : ~(y < x)
    BY <1>1, <2>1, <2>2, Zenon
  <2> HIDE DEF R
  <2> QED  BY <1>1, <2>3
<1> QED
  BY <1>1, <1>2, Zenon DEF Oldest

(* First logins, and changes of members up to the write.                   *)
LEMMA MembersAdvance ==
  ASSUME AccountsInv, UNCHANGED githubVars, NEW q \in Request,
         \/ \E u \in User :
              \/ LoginPersonal(q, u)
              \/ \E w \in Org : LoginOrg(q, u, w)
              \/ \E w \in Workspace, t \in User, c \in Change : ChangeMember(q, u, w, t, c)
         \/ PersonalFind(q) \/ PersonalCreate(q) \/ MemberFind(q) \/ MemberInsert(q)
         \/ TargetRead(q) \/ AdminCount(q)
  PROVE  Advances(q)
<1> USE DEF RequestOK, At, Settings, Claiming, Filing, githubVars
<1>1. /\ req \in [Request -> RequestRecord] /\ RequestOK(q) /\ created \in Nat
  BY MembersAssumption DEF AccountsInv, TypeOK, MembersTypeOK
<1>2. ASSUME NEW u \in User, LoginPersonal(q, u) PROVE Advances(q)
  <2> DEFINE r == [Idle EXCEPT !.pc = "personalFind", !.flow = "login", !.user = u]
  <2>1. r \in RequestRecord
    <3>1. "personalFind" \in Pc /\ Workspace \cup {NoWorkspace} # {}
      BY DEF Pc
    <3> QED  BY <3>1 DEF RequestRecord, Idle
  <2>2. r.pc = "personalFind" /\ r.user = u /\ req' = [req EXCEPT ![q] = r]
    BY <1>2 DEF Idle, LoginPersonal, Begin
  <2> HIDE DEF r
  <2> QED  BY <1>1, <2>1, <2>2, Replaced DEF Advances
<1>3. ASSUME NEW u \in User, NEW w \in Org, LoginOrg(q, u, w) PROVE Advances(q)
  <2> DEFINE r == [Idle EXCEPT !.pc = "memberFind", !.flow = "login", !.user = u, !.ws = w]
  <2>1. w \in Workspace /\ "memberFind" \in Pc
    BY DEF Workspace, Pc
  <2>2. r \in RequestRecord
    BY <2>1, BegunRecords
  <2>3. r.pc = "memberFind" /\ r.user = u /\ r.ws = w /\ req' = [req EXCEPT ![q] = r]
    BY <1>3 DEF Idle, LoginOrg, Begin
  <2> HIDE DEF r
  <2> QED  BY <1>1, <2>1, <2>2, <2>3, Replaced DEF Advances
<1>4. ASSUME NEW u \in User, NEW w \in Workspace, NEW t \in User, NEW c \in Change, ChangeMember(q, u, w, t, c)
      PROVE  Advances(q)
  <2> DEFINE r == [Idle EXCEPT !.pc = "targetRead", !.flow = "settings",
                               !.user = u, !.ws = w, !.target = t, !.change = c]
  <2>1. "targetRead" \in Pc
    BY SMTT(60) DEF Pc
  <2>2. r \in RequestRecord
    BY <2>1, BegunRecords
  <2>3. /\ r.pc = "targetRead" /\ r.user = u /\ r.ws = w /\ r.target = t /\ r.change = c
        /\ req' = [req EXCEPT ![q] = r]
    BY <1>4 DEF Idle, ChangeMember, Begin
  <2> HIDE DEF r
  <2> QED  BY <1>1, <2>1, <2>2, <2>3, Replaced DEF Advances
<1>5. ASSUME NEW w \in Personal, req' = [req EXCEPT ![q].pc = "memberFind", ![q].ws = w], ~At(q, "idle")
      PROVE  Advances(q)
  <2> DEFINE r == [req[q] EXCEPT !.pc = "memberFind", !.ws = w]
  <2>1. w \in Workspace /\ "memberFind" \in Pc
    BY DEF Workspace, Pc
  <2>2. r \in RequestRecord
    BY <1>1, <2>1, Records
  <2>3. r.pc = "memberFind" /\ r.user = req[q].user /\ r.ws = w /\ req' = [req EXCEPT ![q] = r]
    BY <1>1, <1>5 DEF RequestRecord
  <2> HIDE DEF r
  <2> QED  BY <1>1, <1>5, <2>1, <2>2, <2>3, Replaced DEF Advances
<1>6. ASSUME NEW pc \in {"personalCreate", "memberFind", "memberInsert", "adminCount", "memberWrite"}, Goto(q, pc),
             ~At(q, "idle"), pc \in Settings => req[q].pc \in Settings,
             pc # "personalCreate" => req[q].pc \notin {"personalFind", "personalCreate"}
      PROVE  Advances(q)
  <2>1. pc \in Pc
    BY DEF Pc
  <2> QED  BY <1>1, <1>6, <2>1, Goes DEF Advances
<1>7. CASE PersonalFind(q)
  BY <1>5, <1>6, <1>7, OldestIsOne DEF PersonalFind
<1>8. CASE PersonalCreate(q)
  <2>1. created + 1 \in Personal
    BY <1>1, <1>8, MembersAssumption DEF PersonalCreate, Personal
  <2> QED  BY <1>5, <1>8, <2>1 DEF PersonalCreate
<1>9. CASE MemberFind(q) \/ MemberInsert(q)
  BY <1>1, <1>6, <1>9, Ends DEF MemberFind, MemberInsert
<1>10. CASE TargetRead(q)
  BY <1>1, <1>6, <1>10, Ends DEF TargetRead
<1>11. CASE AdminCount(q)
  <2>1. CASE End(q)
    BY <1>1, <2>1, Ends
  <2>2. CASE req' = [req EXCEPT ![q].pc = "memberWrite", ![q].counted = TRUE]
    <3> DEFINE r == [req[q] EXCEPT !.pc = "memberWrite", !.counted = TRUE]
    <3>1. "memberWrite" \in Pc
      BY DEF Pc
    <3>2. r \in RequestRecord
      BY <1>1, <3>1, Records
    <3>3. /\ r.pc = "memberWrite" /\ r.user = req[q].user /\ r.ws = req[q].ws /\ r.target = req[q].target
          /\ r.change = req[q].change /\ req' = [req EXCEPT ![q] = r]
      BY <1>1, <2>2, ZenonT(60) DEF RequestRecord
    <3> HIDE DEF r
    <3> QED  BY <1>1, <1>11, <3>1, <3>2, <3>3, Replaced DEF Advances, AdminCount
  <2> QED  BY <1>11, <2>1, <2>2 DEF AdminCount
<1> QED
  BY <1>2, <1>3, <1>4, <1>7, <1>8, <1>9, <1>10, <1>11

(* The other requests: OAuth, installations and their repositories.        *)
LEMMA AccountsAdvance ==
  ASSUME AccountsInv, NEW q \in Request,
         \/ RequestFails(q)
         \/ \E u \in User, w \in Workspace :
              \/ \E s \in 0..MaxStates : CompleteOAuth(q, u, w, s)
              \/ \E i \in Installation : Connect(q, u, w, i)
              \/ \E S \in SUBSET Installation : Sync(q, u, w, S)
              \/ \E r \in Repository : SyncRepository(q, u, w, r)
         \/ OAuthConsume(q) \/ ConnDelete(q) \/ ConnInsert(q)
         \/ \E g \in Account : OAuthExchange(q, g)
         \/ \E S \in SUBSET Installation : Accessible(q, S)
         \/ InstNext(q) \/ InstFind(q) \/ InstUpsert(q)
         \/ RepoList(q) \/ RepoUpsert(q) \/ RepoGrant(q)
  PROVE  Advances(q)
<1> USE DEF RequestOK, At, Settings, Claiming, Filing, githubVars
<1>1. /\ req \in [Request -> RequestRecord] /\ RequestOK(q) /\ Len(states) \in Nat /\ DOMAIN states = 1..Len(states)
      /\ row \in [Repository -> Installation \cup {Nobody}] /\ owner \in [Installation -> Workspace \cup {NoWorkspace}]
      /\ NoWorkspace \notin Workspace
  BY MembersAssumption DEF AccountsInv, TypeOK, MembersTypeOK, Workspace, Personal
<1>2. CASE RequestFails(q)
  BY <1>1, <1>2, Ends DEF RequestFails
<1>3. ASSUME NEW u \in User, NEW w \in Workspace, NEW s \in 0..MaxStates, CompleteOAuth(q, u, w, s)
      PROVE  Advances(q)
  <2> DEFINE b == ActiveAdmin(w, u)
             pc == IF s = 0 THEN "oauthExchange" ELSE "oauthConsume"
             r == [Idle EXCEPT !.pc = pc, !.flow = "oauth", !.user = u, !.ws = w, !.manager = b, !.state = s]
  <2>1. b \in BOOLEAN
    BY DEF ActiveAdmin, Active, AccountsInv, TypeOK, MembersTypeOK, Membership
  <2>2. s \in Nat /\ pc \in Pc /\ UNCHANGED states /\ s \in 0..Len(states)
    <3>1. UNCHANGED states /\ s \in 0..Len(states)
      BY <1>3, Zenon DEF CompleteOAuth
    <3>2. pc \in Pc
      BY DEF Pc
    <3> QED  BY <3>1, <3>2
  <2>5. req' = [req EXCEPT ![q] = r]
    BY <1>3 DEF CompleteOAuth, Begin
  <2>3. r.pc = pc /\ r.user = u /\ r.ws = w /\ r.state = s
    BY SMTT(60) DEF Idle
  <2>4. r \in RequestRecord
    <3> HIDE DEF b, pc
    <3> QED  BY ZenonT(60), <2>1, <2>2, BegunRecords
  <2> HIDE DEF r, b
  <2> QED  BY <1>1, <2>2, <2>3, <2>4, <2>5, Replaced DEF Advances
<1>4. ASSUME NEW u \in User, NEW w \in Workspace, NEW S \in SUBSET Installation, NEW fl \in {"connect", "sync"},
             req' = [req EXCEPT ![q] = [Idle EXCEPT !.pc = "instNext", !.flow = fl, !.user = u, !.ws = w, !.todo = S]]
      PROVE  Advances(q)
  <2> DEFINE r == [Idle EXCEPT !.pc = "instNext", !.flow = fl, !.user = u, !.ws = w, !.todo = S]
  <2>1. "instNext" \in Pc
    BY DEF Pc
  <2>2. r \in RequestRecord
    <3>1. CASE fl = "connect"
      BY ZenonT(60), <2>1, <3>1, BegunRecords
    <3>2. CASE fl = "sync"
      BY <2>1, <3>2, BegunRecords
    <3> QED  BY <3>1, <3>2
  <2>3. r.pc = "instNext" /\ r.user = u /\ r.ws = w /\ req' = [req EXCEPT ![q] = r]
    BY <1>4 DEF Idle
  <2> HIDE DEF r
  <2> QED  BY <1>1, <2>1, <2>2, <2>3, Replaced DEF Advances
<1>5. ASSUME NEW u \in User, NEW w \in Workspace, NEW i \in Installation, Connect(q, u, w, i)
      PROVE  Advances(q)
  <2>1. req' = [req EXCEPT ![q] = [Idle EXCEPT !.pc = "instNext", !.flow = "connect", !.user = u, !.ws = w, !.todo = {i}]]
    BY <1>5 DEF Connect, Begin
  <2>2. {i} \in SUBSET Installation /\ "connect" \in {"connect", "sync"}
    OBVIOUS
  <2> QED  BY <1>4, <2>1, <2>2
<1>6. ASSUME NEW u \in User, NEW w \in Workspace, NEW S \in SUBSET Installation, Sync(q, u, w, S)
      PROVE  Advances(q)
  <2>1. req' = [req EXCEPT ![q] = [Idle EXCEPT !.pc = "instNext", !.flow = "sync", !.user = u, !.ws = w, !.todo = S]]
    BY <1>6 DEF Sync, Begin
  <2>2. "sync" \in {"connect", "sync"}
    OBVIOUS
  <2> QED  BY <1>4, <2>1, <2>2
<1>7. ASSUME NEW u \in User, NEW w \in Workspace, NEW n \in Repository, SyncRepository(q, u, w, n)
      PROVE  Advances(q)
  <2> DEFINE i == row[n]
             r == [Idle EXCEPT !.pc = "repoUpsert", !.flow = "sync", !.user = u, !.ws = w,
                               !.inst = i, !.listed = {n}]
  <2>1. /\ "repoUpsert" \in Pc /\ i \in Installation /\ owner'[i] = w /\ {n} \in SUBSET Repository
        /\ req' = [req EXCEPT ![q] = r]
    BY <1>1, <1>7, ZenonT(60) DEF Pc, SyncRepository, Begin
  <2> HIDE DEF i
  <2>2. r \in RequestRecord
    BY <2>1, BegunRecords
  <2>3. r.pc = "repoUpsert" /\ r.user = u /\ r.ws = w /\ r.inst = i
    BY DEF Idle
  <2> HIDE DEF r
  <2> QED  BY <1>1, <2>1, <2>2, <2>3, Replaced DEF Advances
<1>8. CASE OAuthConsume(q)
  <2>1. CASE End(q)
    BY <1>1, <2>1, Ends
  <2>2. CASE Goto(q, "oauthExchange")
    <3>1. "oauthExchange" \in Pc
      BY DEF Pc
    <3> QED  BY <1>1, <1>8, <2>2, <3>1, Goes DEF Advances, OAuthConsume
  <2> QED  BY <1>8, <2>1, <2>2 DEF OAuthConsume
<1>9. ASSUME NEW g \in Account, OAuthExchange(q, g)
      PROVE  Advances(q)
  <2> DEFINE r == [req[q] EXCEPT !.pc = "connDelete", !.account = g]
  <2>1. "connDelete" \in Pc
    BY DEF Pc
  <2>2. r \in RequestRecord
    BY <1>1, <2>1, Records
  <2>3. /\ r.pc = "connDelete" /\ r.user = req[q].user /\ r.ws = req[q].ws /\ r.account = g
        /\ req' = [req EXCEPT ![q] = r]
    BY <1>1, <1>9, ZenonT(60) DEF RequestRecord, OAuthExchange
  <2> HIDE DEF r
  <2> QED  BY <1>1, <1>9, <2>1, <2>2, <2>3, Replaced DEF Advances, OAuthExchange
<1>10. CASE ConnDelete(q)
  <2>1. "connInsert" \in Pc
    BY DEF Pc
  <2> QED  BY <1>1, <1>10, <2>1, Goes DEF Advances, ConnDelete
<1>11. CASE ConnInsert(q)
  <2>1. CASE End(q)
    BY <1>1, <2>1, Ends
  <2>2. CASE Goto(q, "accessible")
    <3>1. "accessible" \in Pc
      BY DEF Pc
    <3> QED  BY <1>1, <1>11, <2>2, <3>1, Goes DEF Advances, ConnInsert
  <2> QED  BY <1>11, <2>1, <2>2 DEF ConnInsert
<1>12. ASSUME NEW S \in SUBSET Installation, Accessible(q, S)
       PROVE  Advances(q)
  <2> DEFINE r == [req[q] EXCEPT !.pc = "instNext", !.todo = S]
  <2>1. "instNext" \in Pc
    BY DEF Pc
  <2>2. r \in RequestRecord
    BY <1>1, <2>1, Records
  <2>3. r.pc = "instNext" /\ r.user = req[q].user /\ r.ws = req[q].ws /\ req' = [req EXCEPT ![q] = r]
    BY <1>1, <1>12, ZenonT(60) DEF RequestRecord, Accessible
  <2> HIDE DEF r
  <2> QED  BY <1>1, <1>12, <2>1, <2>2, <2>3, Replaced DEF Advances, Accessible
<1>13. CASE InstNext(q)
  <2>1. CASE End(q)
    BY <1>1, <2>1, Ends
  <2>2. ASSUME NEW i \in req[q].todo, NEW pc \in {"instUpsert", "instFind"},
               req' = [req EXCEPT ![q].pc = pc, ![q].inst = i, ![q].todo = @ \ {i}]
        PROVE  Advances(q)
    <3> DEFINE r == [req[q] EXCEPT !.pc = pc, !.inst = i, !.todo = @ \ {i}]
    <3>1. pc \in Pc /\ i \in Installation /\ req[q].todo \ {i} \in SUBSET Installation
      BY <1>1, Fields DEF Pc
    <3>2. r \in RequestRecord
      BY <1>1, <3>1, Records
    <3>3. r.pc = pc /\ r.user = req[q].user /\ r.ws = req[q].ws /\ r.inst = i /\ req' = [req EXCEPT ![q] = r]
      BY <1>1, <2>2 DEF RequestRecord
    <3> HIDE DEF r
    <3> QED  BY <1>1, <1>13, <3>1, <3>2, <3>3, Replaced DEF Advances, InstNext
  <2>3. (req[q].todo = {} /\ End(q)) \/ \E i \in req[q].todo, pc \in {"instUpsert", "instFind"} :
          req' = [req EXCEPT ![q].pc = pc, ![q].inst = i, ![q].todo = @ \ {i}]
    BY <1>13 DEF InstNext
  <2> QED  BY <2>1, <2>2, <2>3
<1>14. CASE InstFind(q)
  <2>1. CASE End(q)
    BY <1>1, <2>1, Ends
  <2>2. ASSUME NEW pc \in {"instUpsert", "instNext"}, Goto(q, pc)
        PROVE  Advances(q)
    <3>1. pc \in Pc
      BY DEF Pc
    <3> QED  BY <1>1, <1>14, <2>2, <3>1, Goes DEF Advances, InstFind
  <2> QED  BY <1>14, <2>1, <2>2 DEF InstFind
<1>15. CASE InstUpsert(q)
  <2>1. CASE End(q)
    BY <1>1, <2>1, Ends
  <2>2. CASE Goto(q, "repoList") /\ owner' = [owner EXCEPT ![req[q].inst] = req[q].ws]
    <3>1. "repoList" \in Pc
      BY DEF Pc
    <3>2. req[q].inst \in Installation /\ owner'[req[q].inst] \in Workspace
      BY <1>1, <1>15, <2>2 DEF InstUpsert
    <3> QED  BY <1>1, <1>15, <2>2, <3>1, <3>2, Goes DEF Advances, InstUpsert
  <2> QED  BY <1>15, <2>1, <2>2 DEF InstUpsert
<1>16. CASE RepoList(q)
  <2> DEFINE L == {n \in Repository : home[n] = req[q].inst}
             r == [req[q] EXCEPT !.pc = "repoUpsert", !.listed = L]
  <2>1. "repoUpsert" \in Pc /\ L \in SUBSET Repository
    BY DEF Pc
  <2>2. /\ r.pc = "repoUpsert" /\ r.user = req[q].user /\ r.ws = req[q].ws /\ r.inst = req[q].inst
        /\ req' = [req EXCEPT ![q] = r]
    BY <1>1, <1>16, ZenonT(60) DEF RequestRecord, RepoList
  <2> HIDE DEF L
  <2>3. r \in RequestRecord
    BY <1>1, <2>1, Records
  <2> HIDE DEF r
  <2> QED  BY <1>1, <1>16, <2>1, <2>2, <2>3, Replaced DEF Advances, RepoList
<1>17. CASE RepoUpsert(q)
  <2>1. "instNext" \in Pc /\ "repoGrant" \in Pc /\ UNCHANGED owner
    BY <1>17 DEF Pc, RepoUpsert
  <2>2. CASE req' = [req EXCEPT ![q].pc = "instNext", ![q].inst = Nobody]
    <3> DEFINE r == [req[q] EXCEPT !.pc = "instNext", !.inst = Nobody]
    <3>1. r \in RequestRecord
      BY <1>1, <2>1, Records
    <3>2. r.pc = "instNext" /\ r.user = req[q].user /\ r.ws = req[q].ws /\ req' = [req EXCEPT ![q] = r]
      BY <1>1, <2>2 DEF RequestRecord
    <3> HIDE DEF r
    <3> QED  BY <1>1, <1>17, <2>1, <3>1, <3>2, Replaced DEF Advances, RepoUpsert
  <2>3. ASSUME NEW n \in req[q].listed,
               req' = [req EXCEPT ![q].pc = AfterUpsert(n), ![q].repo = n, ![q].listed = @ \ {n}]
        PROVE  Advances(q)
    <3> DEFINE r == [req[q] EXCEPT !.pc = "repoGrant", !.repo = n, !.listed = @ \ {n}]
    <3>1. n \in Repository /\ req[q].listed \ {n} \in SUBSET Repository
      BY <1>1, Fields
    <3>2. r \in RequestRecord
      BY <1>1, <2>1, <3>1, Records
    <3>3. /\ r.pc = "repoGrant" /\ r.user = req[q].user /\ r.ws = req[q].ws /\ r.inst = req[q].inst /\ r.repo = n
          /\ req' = [req EXCEPT ![q] = r]
      BY <1>1, <2>3 DEF RequestRecord, AfterUpsert
    <3> HIDE DEF r
    <3> QED  BY <1>1, <1>17, <2>1, <3>1, <3>2, <3>3, Replaced DEF Advances, RepoUpsert
  <2> QED  BY <1>17, <2>2, <2>3 DEF RepoUpsert
<1>18. CASE RepoGrant(q)
  <2> DEFINE r == [req[q] EXCEPT !.pc = "repoUpsert", !.repo = Nobody]
  <2>1. "repoUpsert" \in Pc
    BY DEF Pc
  <2>2. r \in RequestRecord
    BY <1>1, <2>1, Records
  <2>3. r.pc = "repoUpsert" /\ r.user = req[q].user /\ r.ws = req[q].ws /\ r.inst = req[q].inst
    BY <1>1 DEF RequestRecord
  <2>4. req' = [req EXCEPT ![q] = r]
    BY <1>1, <1>18 DEF RepoGrant
  <2> HIDE DEF r
  <2> QED  BY <1>1, <1>18, <2>1, <2>2, <2>3, <2>4, Replaced DEF Advances, RepoGrant
<1> QED
  BY <1>2, <1>3, <1>5, <1>6, <1>7, <1>8, <1>9, <1>10, <1>11, <1>12, <1>13, <1>14, <1>15, <1>16, <1>17, <1>18

(* The write of a change, which makes the counts of other requests void.   *)
LEMMA WriteAdvances ==
  ASSUME AccountsInv, UNCHANGED githubVars, NEW q \in Request, MemberWrite(q)
  PROVE  /\ req' \in [Request -> RequestRecord] /\ req'[q] = Idle
         /\ \A p \in Request \ {q} :
              req'[p] = req[p] \/ (~At(p, "idle") /\ req'[p] = [req[p] EXCEPT !.counted = FALSE])
<1>1. req \in [Request -> RequestRecord] /\ \A p \in Request : At(p, "idle") => req[p] = Idle
  BY DEF AccountsInv, TypeOK, MembersTypeOK, RequestOK
<1>2. PICK goes \in BOOLEAN : goes <=> ActiveAdmin(req[q].ws, req[q].target) /\ Removes(q)
  OBVIOUS
<1>3. PICK w \in Workspace : w = req[q].ws
  BY DEF AccountsInv, RequestOK, MemberWrite, At
<1>4. req' = [p \in Request |->
                IF p = q THEN Idle
                ELSE IF goes /\ req[p].ws = w THEN [req[p] EXCEPT !.counted = FALSE] ELSE req[p]]
  BY <1>2, <1>3 DEF MemberWrite
<1>5. ASSUME NEW x \in RequestRecord PROVE [x EXCEPT !.counted = FALSE] \in RequestRecord
  BY DEF RequestRecord
<1>6. \A p \in Request : At(p, "idle") => req[p].ws # w
  BY <1>1, MembersAssumption DEF Idle, Workspace, Personal
<1> QED
  BY <1>1, <1>4, <1>5, <1>6, IdleRecord

(* The variables other than req.                                           *)
StoreTypeOK ==
  /\ members \in [Workspace -> [User -> Membership]]
  /\ created \in 0..MaxPersonal /\ started \in 0..MaxRequests /\ faults \in 0..MaxFaults
  /\ resolved \in [User -> SUBSET Personal]
  /\ peak \in [User -> 0..Cardinality(Request)]
  /\ uncounted \subseteq Workspace
  /\ states \in Seq(OAuthState) /\ Len(states) <= MaxStates
  /\ connection \in [User -> Account \cup {Nobody}]
  /\ owner \in [Installation -> Workspace \cup {NoWorkspace}]
  /\ row \in [Repository -> Installation \cup {Nobody}]
  /\ access \subseteq User \X Repository
  /\ home \in [Repository -> Installation \cup {Nobody}]
  /\ transfers \in 0..MaxTransfers
  /\ linked \subseteq Account /\ owed \subseteq User \X Repository

LEMMA Stores == TypeOK <=> StoreTypeOK /\ req \in [Request -> RequestRecord]
BY DEF TypeOK, MembersTypeOK, StoreTypeOK

(* There are as many requests at work as there are requests, at most: an   *)
(* idle one that begins is not among them.                                 *)
LEMMA LoginsCounted ==
  ASSUME req \in [Request -> RequestRecord], NEW u
  PROVE  /\ IsFiniteSet(Request) /\ IsFiniteSet(LoginsOf(u)) /\ Cardinality(LoginsOf(u)) \in Nat
         /\ \A q \in Request : req[q] = Idle => Cardinality(LoginsOf(u)) + 1 <= Cardinality(Request)
         /\ Cardinality(Request) \in Nat
<1>1. IsFiniteSet(Request) /\ LoginsOf(u) \in SUBSET Request
  BY MembersAssumption DEF LoginsOf
<1>2. IsFiniteSet(LoginsOf(u)) /\ Cardinality(LoginsOf(u)) \in Nat /\ Cardinality(Request) \in Nat
  BY <1>1, FS_Subset, FS_CardinalityType
<1>3. ASSUME NEW q \in Request, req[q] = Idle
      PROVE  Cardinality(LoginsOf(u)) + 1 <= Cardinality(Request)
  <2>1. q \notin LoginsOf(u)
    BY <1>3 DEF LoginsOf, Idle
  <2>2. LoginsOf(u) \cup {q} \in SUBSET Request
    BY <1>1
  <2>3. Cardinality(LoginsOf(u) \cup {q}) = Cardinality(LoginsOf(u)) + 1
    BY <1>2, <2>1, FS_AddElement
  <2> QED  BY <1>1, <2>2, <2>3, FS_Subset
<1> QED
  BY <1>1, <1>2, <1>3

LEMMA ChangedMembership ==
  ASSUME NEW m \in Membership, NEW c \in Change
  PROVE  Changed(m, c) \in Membership
BY DEF Changed, Membership, Change, Role

LEMMA MembersStores ==
  ASSUME AccountsInv, UNCHANGED githubVars, MembersNext
  PROVE  StoreTypeOK'
<1> USE DEF githubVars
<1>1. /\ StoreTypeOK /\ req \in [Request -> RequestRecord] /\ \A q \in Request : RequestOK(q)
      /\ MaxRequests \in Nat /\ MaxPersonal \in Nat /\ created \in Nat /\ started \in Nat
  BY Stores, MembersAssumption DEF AccountsInv, StoreTypeOK
<1>2. ASSUME NEW q \in Request, NEW u \in User, LoginPersonal(q, u)
      PROVE  StoreTypeOK'
  <2>1. Cardinality(LoginsOf(u)) + 1 \in 0..Cardinality(Request)
    <3>1. req[q] = Idle
      BY <1>1, <1>2 DEF LoginPersonal, Begin, RequestOK
    <3> QED  BY <1>1, <3>1, LoginsCounted
  <2>2. peak' \in [User -> 0..Cardinality(Request)]
    <3>1. peak \in [User -> 0..Cardinality(Request)]
      BY <1>1 DEF StoreTypeOK
    <3>2. PICK n \in 0..Cardinality(Request) : n = Cardinality(LoginsOf(u)) + 1
      BY <2>1
    <3>3. peak' = [peak EXCEPT ![u] = IF n > @ THEN n ELSE @]
      BY <1>2, <3>2 DEF LoginPersonal
    <3> QED  BY <3>1, <3>3
  <2> QED  BY <1>1, <1>2, <2>2 DEF StoreTypeOK, LoginPersonal, Begin
<1>3. ASSUME NEW q \in Request, NEW u, NEW w, NEW t, NEW c, LoginOrg(q, u, w) \/ ChangeMember(q, u, w, t, c)
      PROVE  StoreTypeOK'
  BY <1>1, <1>3 DEF StoreTypeOK, LoginOrg, ChangeMember, Begin
<1>4. ASSUME NEW q \in Request, PersonalFind(q) \/ TargetRead(q) \/ AdminCount(q)
      PROVE  StoreTypeOK'
  BY <1>1, <1>4 DEF StoreTypeOK, PersonalFind, TargetRead, AdminCount
<1>5. ASSUME NEW q \in Request, PersonalCreate(q)
      PROVE  StoreTypeOK'
  BY <1>1, <1>5 DEF StoreTypeOK, PersonalCreate
<1>6. ASSUME NEW q \in Request, Answered(q), req[q].user \in User
      PROVE  resolved' \in [User -> SUBSET Personal]
  BY <1>1, <1>6 DEF StoreTypeOK, Answered
<1>7. ASSUME NEW q \in Request, MemberFind(q) \/ MemberInsert(q)
      PROVE  StoreTypeOK'
  <2>1. req[q].user \in User /\ req[q].ws \in Workspace
    BY <1>1, <1>7 DEF RequestOK, MemberFind, MemberInsert, At
  <2>2. resolved' \in [User -> SUBSET Personal]
    BY <1>1, <1>6, <1>7, <2>1 DEF MemberFind, MemberInsert, StoreTypeOK
  <2>3. members' \in [Workspace -> [User -> Membership]]
    <3>1. [role |-> "developer", active |-> TRUE] \in Membership
      BY DEF Membership, Role
    <3>2. CASE members' = [members EXCEPT ![req[q].ws][req[q].user] = [role |-> "developer", active |-> TRUE]]
      <4>1. PICK w \in Workspace, u \in User : w = req[q].ws /\ u = req[q].user
        BY <2>1
      <4> QED  BY <1>1, <3>1, <3>2, <4>1 DEF StoreTypeOK
    <3> QED  BY <1>1, <1>7, <3>2 DEF MemberFind, MemberInsert, StoreTypeOK
  <2>4. UNCHANGED <<created, started, faults, peak, uncounted>>
    BY <1>7 DEF MemberFind, MemberInsert
  <2> QED  BY <1>1, <2>2, <2>3, <2>4 DEF StoreTypeOK
<1>8. ASSUME NEW q \in Request, MemberWrite(q)
      PROVE  StoreTypeOK'
  <2>1. req[q].target \in User /\ req[q].ws \in Workspace /\ req[q].change \in Change
    BY <1>1, <1>8 DEF RequestOK, MemberWrite, At, Settings
  <2>2. PICK w \in Workspace, t \in User, c \in Change : w = req[q].ws /\ t = req[q].target /\ c = req[q].change
    BY <2>1
  <2>3. members' = [members EXCEPT ![w][t] = Changed(@, c)]
    BY <1>8, <2>2 DEF MemberWrite
  <2>4. Changed(members[w][t], c) \in Membership
    BY <1>1, ChangedMembership DEF StoreTypeOK
  <2>5. members' \in [Workspace -> [User -> Membership]]
    BY <1>1, <2>3, <2>4 DEF StoreTypeOK
  <2>6. uncounted' \subseteq Workspace
    BY <1>1, <1>8, <2>2 DEF MemberWrite, StoreTypeOK
  <2> QED  BY <1>1, <1>8, <2>5, <2>6 DEF StoreTypeOK, MemberWrite
<1> QED
  BY <1>2, <1>3, <1>4, <1>5, <1>7, <1>8 DEF MembersNext

(* The steps outside the requests.                                         *)
LEMMA WorldStores ==
  ASSUME StoreTypeOK,
         \/ \E s \in 1..MaxStates : StateExpires(s)
         \/ \E r \in Repository, i \in Installation \cup {Nobody} : Transfer(r, i)
         \/ \E q \in Request, u \in User, w \in Workspace : StartOAuth(q, u, w)
         \/ UNCHANGED vars
  PROVE  StoreTypeOK' /\ UNCHANGED <<req, owner, row, owed, access>> /\ Len(states) <= Len(states')
<1>1. /\ states \in Seq(OAuthState) /\ Len(states) \in Nat /\ MaxStates \in Nat /\ MaxTransfers \in Nat
      /\ MaxRequests \in Nat /\ transfers \in Nat /\ started \in Nat
  BY AccountsAssumption, MembersAssumption DEF StoreTypeOK
<1>2. ASSUME NEW s, StateExpires(s)
      PROVE  states' \in Seq(OAuthState) /\ Len(states') = Len(states)
  <2>1. s \in 1..Len(states) /\ states \in [1..Len(states) -> OAuthState]
    BY <1>1, <1>2 DEF StateExpires
  <2>2. [states[s] EXCEPT !.open = FALSE] \in OAuthState
    BY <2>1 DEF OAuthState
  <2>3. states' \in [1..Len(states) -> OAuthState]
    BY <1>2, <2>1, <2>2 DEF StateExpires
  <2> QED  BY <1>1, <2>3
<1>3. ASSUME NEW s, StateExpires(s)
      PROVE  StoreTypeOK' /\ UNCHANGED <<req, owner, row, owed, access>> /\ Len(states) <= Len(states')
  <2>1. UNCHANGED <<memberVars, connection, owner, row, access, home, transfers, linked, owed>>
    BY <1>3 DEF StateExpires
  <2> QED  BY <1>1, <1>2, <1>3, <2>1 DEF StoreTypeOK, memberVars
<1>4. ASSUME NEW r \in Repository, NEW i \in Installation \cup {Nobody}, Transfer(r, i)
      PROVE  StoreTypeOK' /\ UNCHANGED <<req, owner, row, owed, access>> /\ Len(states) <= Len(states')
  BY <1>1, <1>4 DEF Transfer, StoreTypeOK, memberVars
<1>5. ASSUME NEW q, NEW u \in User, NEW w \in Workspace, StartOAuth(q, u, w)
      PROVE  StoreTypeOK' /\ UNCHANGED <<req, owner, row, owed, access>> /\ Len(states) <= Len(states')
  <2>1. [user |-> u, ws |-> w, open |-> TRUE] \in OAuthState
    BY DEF OAuthState
  <2>2. states' \in Seq(OAuthState) /\ Len(states') = Len(states) + 1
    BY <1>1, <1>5, <2>1 DEF StartOAuth
  <2> QED  BY <1>1, <1>5, <2>2 DEF StartOAuth, Arrival, StoreTypeOK
<1>6. ASSUME UNCHANGED vars
      PROVE  StoreTypeOK' /\ UNCHANGED <<req, owner, row, owed, access>> /\ Len(states) <= Len(states')
  BY <1>1, <1>6 DEF vars, memberVars, githubVars, StoreTypeOK
<1> QED
  BY <1>3, <1>4, <1>5, <1>6

(* What a step of a request of this module leaves in the store: typed, and *)
(* no installation without a workspace that had one.                       *)
Stored ==
  /\ StoreTypeOK' /\ Len(states) <= Len(states')
  /\ \A i \in Installation : owner[i] \in Workspace => owner'[i] \in Workspace

LEMMA AccountsStores ==
  ASSUME AccountsInv, NEW q \in Request,
         \/ RequestFails(q)
         \/ \E u \in User, w \in Workspace :
              \/ \E s \in 0..MaxStates : CompleteOAuth(q, u, w, s)
              \/ \E i \in Installation : Connect(q, u, w, i)
              \/ \E S \in SUBSET Installation : Sync(q, u, w, S)
              \/ \E r \in Repository : SyncRepository(q, u, w, r)
         \/ OAuthConsume(q) \/ ConnDelete(q) \/ ConnInsert(q)
         \/ \E g \in Account : OAuthExchange(q, g)
         \/ \E S \in SUBSET Installation : Accessible(q, S)
         \/ InstNext(q) \/ InstFind(q) \/ InstUpsert(q)
         \/ RepoList(q) \/ RepoUpsert(q) \/ RepoGrant(q)
  PROVE  Stored
<1>1. /\ StoreTypeOK /\ req[q] \in RequestRecord /\ RequestOK(q) /\ states \in Seq(OAuthState) /\ Len(states) \in Nat
      /\ MaxRequests \in Nat /\ MaxFaults \in Nat /\ started \in Nat /\ faults \in Nat
  BY Stores, MembersAssumption, SMTT(60) DEF AccountsInv, StoreTypeOK
<1>2. CASE RequestFails(q)
  BY <1>1, <1>2 DEF RequestFails, Stored, StoreTypeOK
<1>3. ASSUME NEW u, NEW w, NEW x, \/ CompleteOAuth(q, u, w, x) \/ Connect(q, u, w, x) \/ Sync(q, u, w, x)
                                  \/ SyncRepository(q, u, w, x)
      PROVE  Stored
  <2>1. started' \in 0..MaxRequests
    <3>1. ASSUME NEW r, Begin(q, r) PROVE started' \in 0..MaxRequests
      BY <1>1, <3>1 DEF Begin
    <3> QED  BY <1>3, <3>1 DEF CompleteOAuth, Connect, Sync, SyncRepository
  <2>2. UNCHANGED <<members, created, faults, resolved, peak, uncounted>> /\ UNCHANGED githubVars
    BY <1>3 DEF CompleteOAuth, Connect, Sync, SyncRepository, Arrival
  <2> QED  BY <1>1, <2>1, <2>2 DEF Stored, StoreTypeOK, githubVars
<1>4. CASE OAuthConsume(q)
  <2>1. states' \in Seq(OAuthState) /\ Len(states') = Len(states)
    <3>1. CASE states' = [states EXCEPT ![req[q].state].open = FALSE]
      <4>1. req[q].state \in 1..Len(states) /\ states \in [1..Len(states) -> OAuthState]
        BY <1>1, <1>4 DEF OAuthConsume, RequestOK, At
      <4>2. PICK s \in 1..Len(states) : s = req[q].state
        BY <4>1
      <4>3. [states[s] EXCEPT !.open = FALSE] \in OAuthState
        BY <4>1 DEF OAuthState
      <4>4. states' \in [1..Len(states) -> OAuthState]
        BY <3>1, <4>1, <4>2, <4>3
      <4> QED  BY <1>1, <4>4
    <3> QED  BY <1>1, <1>4, <3>1 DEF OAuthConsume
  <2> QED  BY <1>1, <1>4, <2>1 DEF OAuthConsume, Handling, Stored, StoreTypeOK
<1>5. CASE ConnDelete(q)
  <2>1. connection' \in [User -> Account \cup {Nobody}]
    BY <1>1, <1>5 DEF ConnDelete, StoreTypeOK
  <2> QED  BY <1>1, <1>5, <2>1 DEF ConnDelete, Handling, Stored, StoreTypeOK
<1>6. CASE ConnInsert(q)
  <2>1. PICK u \in User, g \in Account : u = req[q].user /\ g = req[q].account
    BY <1>1, <1>6 DEF RequestOK, ConnInsert, At
  <2>2. connection' \in [User -> Account \cup {Nobody}] /\ linked' \subseteq Account
    BY <1>1, <1>6, <2>1 DEF ConnInsert, Connected, StoreTypeOK
  <2> QED  BY <1>1, <1>6, <2>2 DEF ConnInsert, Handling, Stored, StoreTypeOK
<1>7. ASSUME NEW x, OAuthExchange(q, x) \/ Accessible(q, x)
      PROVE  Stored
  BY <1>1, <1>7 DEF OAuthExchange, Accessible, Handling, Stored, StoreTypeOK
<1>8. CASE InstNext(q) \/ InstFind(q) \/ RepoList(q)
  <2>1. Handling /\ UNCHANGED <<states, connection, owner, row, access, linked, owed>>
    BY <1>8 DEF InstNext, InstFind, RepoList
  <2> QED  BY <1>1, <2>1 DEF Handling, Stored, StoreTypeOK
<1>9. CASE InstUpsert(q)
  <2>1. PICK i \in Installation, w \in Workspace : i = req[q].inst /\ w = req[q].ws
    BY <1>1, <1>9 DEF RequestOK, InstUpsert, At, Claiming
  <2>2. /\ owner' \in [Installation -> Workspace \cup {NoWorkspace}]
        /\ \A j \in Installation : owner[j] \in Workspace => owner'[j] \in Workspace
    BY <1>1, <1>9, <2>1 DEF InstUpsert, StoreTypeOK
  <2> QED  BY <1>1, <1>9, <2>2 DEF InstUpsert, Handling, Stored, StoreTypeOK
<1>10. CASE RepoUpsert(q)
  <2>1. req[q].inst \in Installation /\ req[q].user \in User /\ req[q].listed \subseteq Repository
    BY <1>1, <1>10, Fields DEF RequestOK, RepoUpsert, At, Claiming, Filing
  <2>2. row' \in [Repository -> Installation \cup {Nobody}] /\ owed' \subseteq User \X Repository
    <3>1. CASE UNCHANGED <<row, owed>>
      BY <1>1, <3>1 DEF StoreTypeOK
    <3>2. ASSUME NEW n \in req[q].listed, row' = [row EXCEPT ![n] = req[q].inst],
                 owed' = owed \cup {<<req[q].user, n>>}
          PROVE  row' \in [Repository -> Installation \cup {Nobody}] /\ owed' \subseteq User \X Repository
      BY <1>1, <2>1, <3>2 DEF StoreTypeOK
    <3> QED  BY <1>10, <3>1, <3>2 DEF RepoUpsert
  <2>3. Handling /\ UNCHANGED <<states, connection, owner, access, linked>>
    BY <1>10 DEF RepoUpsert
  <2> QED  BY <1>1, <2>2, <2>3 DEF Handling, Stored, StoreTypeOK
<1>11. CASE RepoGrant(q)
  <2>1. req[q].user \in User /\ req[q].repo \in Repository
    BY <1>1, <1>11 DEF RequestOK, RepoGrant, At
  <2>2. access' \subseteq User \X Repository
    BY <1>1, <1>11, <2>1 DEF RepoGrant, StoreTypeOK
  <2> QED  BY <1>1, <1>11, <2>2 DEF RepoGrant, Handling, Stored, StoreTypeOK
<1> QED
  BY <1>2, <1>3, <1>4, <1>5, <1>6, <1>7, <1>8, <1>9, <1>10, <1>11

(* Repositories stay filed, and the grants that are owed stay in hand,     *)
(* when a step files nothing and leaves no such request.                   *)
LEMMA FiledStays ==
  ASSUME AccountsInv, UNCHANGED row, Stored, owed' \subseteq owed, access \subseteq access',
         \A p \in Request : At(p, "repoGrant") /\ <<req[p].user, req[p].repo>> \in owed' \ access' =>
           req'[p].pc = "repoGrant" /\ req'[p].user = req[p].user /\ req'[p].repo = req[p].repo
  PROVE  FiledRepositoriesAreVisible'
<1>1. /\ row \in [Repository -> Installation \cup {Nobody}] /\ FiledRepositoriesAreVisible
  BY DEF AccountsInv, TypeOK
<1>2. \A r \in Repository : row'[r] # Nobody => owner'[row'[r]] \in Workspace
  BY <1>1 DEF Stored, FiledRepositoriesAreVisible
<1>3. ASSUME NEW g \in owed' \ access'
      PROVE  \E p \in Request : req'[p].pc = "repoGrant" /\ g = <<req'[p].user, req'[p].repo>>
  BY <1>1, <1>3 DEF FiledRepositoriesAreVisible, At
<1> QED
  BY <1>2, <1>3 DEF FiledRepositoriesAreVisible, At

(* RepoUpsert files a repository under an installation of a workspace, and *)
(* the request goes to grant what it owes.                                 *)
LEMMA FilesRepository ==
  ASSUME AccountsInv, NEW q \in Request, RepoUpsert(q), Advances(q), Stored
  PROVE  FiledRepositoriesAreVisible'
<1>1. /\ row \in [Repository -> Installation \cup {Nobody}] /\ FiledRepositoriesAreVisible
      /\ req \in [Request -> RequestRecord] /\ RequestOK(q)
      /\ At(q, "repoUpsert") /\ UNCHANGED <<access, owner>>
  BY DEF AccountsInv, TypeOK, MembersTypeOK, RepoUpsert
<1>2. CASE UNCHANGED <<row, owed>>
  <2>1. \A p \in Request : At(p, "repoGrant") => req'[p] = req[p]
    BY <1>1 DEF Advances, At
  <2> QED  BY <1>1, <1>2, <2>1, FiledStays DEF At
<1>3. ASSUME NEW n \in req[q].listed, row' = [row EXCEPT ![n] = req[q].inst], owed' = owed \cup {<<req[q].user, n>>},
             req' = [req EXCEPT ![q].pc = AfterUpsert(n), ![q].repo = n, ![q].listed = @ \ {n}]
      PROVE  FiledRepositoriesAreVisible'
  <2>1. req'[q].pc = "repoGrant" /\ req'[q].user = req[q].user /\ req'[q].repo = n
    <3> DEFINE r == [req[q] EXCEPT !.pc = "repoGrant", !.repo = n, !.listed = @ \ {n}]
    <3>1. r.pc = "repoGrant" /\ r.user = req[q].user /\ r.repo = n /\ req' = [req EXCEPT ![q] = r]
      BY <1>1, <1>3 DEF RequestRecord, AfterUpsert
    <3> HIDE DEF r
    <3> QED  BY <1>1, <3>1
  <2>2. req[q].inst \in Installation /\ owner'[req[q].inst] \in Workspace
    BY <1>1 DEF RequestOK, At, Claiming, Filing
  <2>3. \A r \in Repository : row'[r] # Nobody => owner'[row'[r]] \in Workspace
    BY <1>1, <1>3, <2>2 DEF FiledRepositoriesAreVisible
  <2>4. ASSUME NEW g \in owed' \ access'
        PROVE  \E p \in Request : req'[p].pc = "repoGrant" /\ g = <<req'[p].user, req'[p].repo>>
    <3>1. CASE g = <<req[q].user, n>>
      BY <2>1, <3>1
    <3>2. CASE g \in owed \ access
      <4>1. PICK p \in Request : At(p, "repoGrant") /\ g = <<req[p].user, req[p].repo>>
        BY <1>1, <3>2 DEF FiledRepositoriesAreVisible
      <4>2. p # q /\ req'[p] = req[p]
        BY <1>1, <4>1 DEF At, Advances
      <4> QED  BY <4>1, <4>2 DEF At
    <3> QED  BY <1>1, <1>3, <2>4, <3>1, <3>2
  <2> QED  BY <2>3, <2>4 DEF FiledRepositoriesAreVisible, At
<1> QED
  BY <1>2, <1>3 DEF RepoUpsert

LEMMA FiledAccountsStep ==
  ASSUME AccountsInv, NEW q \in Request, Advances(q), Stored,
         \/ RequestFails(q)
         \/ \E u \in User, w \in Workspace :
              \/ \E s \in 0..MaxStates : CompleteOAuth(q, u, w, s)
              \/ \E i \in Installation : Connect(q, u, w, i)
              \/ \E S \in SUBSET Installation : Sync(q, u, w, S)
              \/ \E r \in Repository : SyncRepository(q, u, w, r)
         \/ OAuthConsume(q) \/ ConnDelete(q) \/ ConnInsert(q)
         \/ \E g \in Account : OAuthExchange(q, g)
         \/ \E S \in SUBSET Installation : Accessible(q, S)
         \/ InstNext(q) \/ InstFind(q) \/ InstUpsert(q)
         \/ RepoList(q) \/ RepoUpsert(q) \/ RepoGrant(q)
  PROVE  FiledRepositoriesAreVisible'
<1>1. ASSUME UNCHANGED <<row, owed, access>>, ~At(q, "repoGrant")
      PROVE  FiledRepositoriesAreVisible'
  <2>1. \A p \in Request : At(p, "repoGrant") => req'[p] = req[p]
    BY <1>1 DEF Advances
  <2> QED  BY <1>1, <2>1, FiledStays DEF At
<1>2. CASE RequestFails(q)
  <2>1. UNCHANGED <<row, access>> /\ owed' \subseteq owed
        /\ (At(q, "repoGrant") => <<req[q].user, req[q].repo>> \notin owed' \ access')
    BY <1>2 DEF RequestFails
  <2>2. \A p \in Request : At(p, "repoGrant") /\ <<req[p].user, req[p].repo>> \in owed' \ access' => req'[p] = req[p]
    BY <2>1 DEF Advances
  <2> QED  BY <2>1, <2>2, FiledStays DEF At
<1>3. CASE RepoGrant(q)
  <2>1. UNCHANGED <<row, owed>> /\ access' = access \cup {<<req[q].user, req[q].repo>>}
    BY <1>3 DEF RepoGrant
  <2>2. \A p \in Request : At(p, "repoGrant") /\ <<req[p].user, req[p].repo>> \in owed' \ access' => req'[p] = req[p]
    BY <2>1, SMTT(60) DEF Advances
  <2> QED  BY <2>1, <2>2, FiledStays DEF At
<1>4. ASSUME NEW u, NEW w, NEW x, \/ CompleteOAuth(q, u, w, x) \/ Connect(q, u, w, x) \/ Sync(q, u, w, x)
                                  \/ SyncRepository(q, u, w, x)
      PROVE  UNCHANGED <<row, owed, access>> /\ ~At(q, "repoGrant")
  BY <1>4, ZenonT(60) DEF CompleteOAuth, Connect, Sync, SyncRepository, Begin, At, githubVars
<1>5. ASSUME NEW x, \/ OAuthConsume(q) \/ ConnDelete(q) \/ ConnInsert(q) \/ OAuthExchange(q, x) \/ Accessible(q, x)
                    \/ InstNext(q) \/ InstFind(q) \/ InstUpsert(q) \/ RepoList(q)
      PROVE  UNCHANGED <<row, owed, access>> /\ ~At(q, "repoGrant")
  BY <1>5 DEF OAuthConsume, ConnDelete, ConnInsert, OAuthExchange, Accessible, InstNext, InstFind, InstUpsert,
     RepoList, At
<1> QED
  BY <1>1, <1>2, <1>3, <1>4, <1>5, FilesRepository

LEMMA InitAccounts == Init => AccountsInv
<1> SUFFICES ASSUME Init PROVE AccountsInv
  OBVIOUS
<1>1. req \in [Request -> RequestRecord] /\ \A q \in Request : req[q] = Idle /\ Idle.pc = "idle"
  BY IdleRecord DEF Init, MembersInit
<1>2. 0 \in 0..Cardinality(Request)
  BY <1>1, LoginsCounted
<1>3. members \in [Workspace -> [User -> Membership]]
  BY DEF Init, MembersInit, Membership, NotMember, Role
<1>4. StoreTypeOK
  <2>1. << >> \in Seq(OAuthState) /\ Len(<< >>) = 0
    OBVIOUS
  <2> QED  BY <1>2, <1>3, <2>1, MembersAssumption, AccountsAssumption DEF Init, MembersInit, StoreTypeOK
<1>5. \A q \in Request : RequestOK(q)
  BY <1>1 DEF RequestOK, At, Settings, Claiming, Filing
<1>6. FiledRepositoriesAreVisible
  BY DEF Init, FiledRepositoriesAreVisible
<1> QED
  BY <1>1, <1>4, <1>5, <1>6, Stores DEF AccountsInv

(* A step of q leaves the other requests as they should be.                *)
LEMMA OthersAdvance ==
  ASSUME AccountsInv, NEW q \in Request, Advances(q), Stored
  PROVE  \A p \in Request : RequestOK(p)'
<1>1. ASSUME NEW p \in Request \ {q} PROVE RequestOK(p)'
  <2>1. req'[p] = req[p] /\ RequestOK(p) /\ Len(states) \in Nat /\ Len(states') \in Nat
        /\ DOMAIN states = 1..Len(states) /\ DOMAIN states' = 1..Len(states')
    BY DEF Advances, AccountsInv, TypeOK, Stored, StoreTypeOK
  <2> QED  BY <2>1 DEF RequestOK, At, Stored, Claiming
<1> QED
  BY <1>1 DEF Advances

(* AccountsInv is an invariant.                                            *)
THEOREM AccountsInvariant == Spec => []AccountsInv
<1>1. AccountsInv /\ [Next]_vars => AccountsInv'
  <2> SUFFICES ASSUME AccountsInv, [Next]_vars PROVE AccountsInv'
    OBVIOUS
  <2>0. /\ req \in [Request -> RequestRecord] /\ StoreTypeOK /\ \A q \in Request : RequestOK(q)
        /\ Len(states) \in Nat
    BY Stores DEF AccountsInv, StoreTypeOK
  <2>1. ASSUME NEW q \in Request, Advances(q), Stored, FiledRepositoriesAreVisible'
        PROVE  AccountsInv'
    <3>1. TypeOK'
      BY <2>1 DEF Advances, Stored, TypeOK, MembersTypeOK, StoreTypeOK
    <3> QED  BY <2>1, <3>1, OthersAdvance DEF AccountsInv
  <2>2. CASE MembersNext /\ UNCHANGED githubVars
    <3>1. Stored /\ UNCHANGED <<row, owed, access, owner, states>>
      BY <2>0, <2>2, MembersStores DEF Stored, githubVars
    <3>2. PICK q \in Request :
            \/ \E u \in User :
                 \/ LoginPersonal(q, u)
                 \/ \E w \in Org : LoginOrg(q, u, w)
                 \/ \E w \in Workspace, t \in User, c \in Change : ChangeMember(q, u, w, t, c)
            \/ PersonalFind(q) \/ PersonalCreate(q) \/ MemberFind(q) \/ MemberInsert(q)
            \/ TargetRead(q) \/ AdminCount(q) \/ MemberWrite(q)
      BY <2>2, SMTT(60) DEF MembersNext
    <3>3. ~At(q, "repoGrant")
      BY <3>2 DEF LoginPersonal, LoginOrg, ChangeMember, Begin, PersonalFind, PersonalCreate, MemberFind,
         MemberInsert, TargetRead, AdminCount, MemberWrite, At
    <3>4. CASE ~MemberWrite(q)
      <4>1. Advances(q)
        BY <2>2, <3>2, <3>4, MembersAdvance
      <4>2. \A p \in Request : At(p, "repoGrant") => req'[p] = req[p]
        BY <3>3, <4>1 DEF Advances
      <4> QED  BY <2>1, <3>1, <4>1, <4>2, FiledStays DEF At
    <3>5. CASE MemberWrite(q)
      <4>1. /\ req' \in [Request -> RequestRecord] /\ req'[q] = Idle
            /\ \A p \in Request \ {q} :
                 req'[p] = req[p] \/ (~At(p, "idle") /\ req'[p] = [req[p] EXCEPT !.counted = FALSE])
        BY <2>2, <3>5, WriteAdvances
      <4>2. \A p \in Request \ {q} :
              /\ req'[p].pc = req[p].pc /\ req'[p].user = req[p].user /\ req'[p].ws = req[p].ws
              /\ req'[p].target = req[p].target /\ req'[p].change = req[p].change
              /\ req'[p].state = req[p].state /\ req'[p].account = req[p].account
              /\ req'[p].inst = req[p].inst /\ req'[p].repo = req[p].repo
              /\ At(p, "idle") => req'[p] = req[p]
        BY <2>0, <4>1 DEF RequestRecord
      <4>3. ASSUME NEW p \in Request \ {q} PROVE RequestOK(p)'
        <5>1. RequestOK(p)
          BY <2>0
        <5> QED  BY <3>1, <4>2, <5>1 DEF RequestOK, At
      <4>4. RequestOK(q)'
        BY <4>1, IdleRecord DEF RequestOK, At, Settings, Claiming, Filing
      <4>5. FiledRepositoriesAreVisible'
        BY <3>1, <3>3, <4>2, FiledStays DEF At
      <4>6. TypeOK'
        BY <3>1, <4>1 DEF Stored, TypeOK, MembersTypeOK, StoreTypeOK
      <4> QED  BY <4>3, <4>4, <4>5, <4>6 DEF AccountsInv
    <3> QED  BY <3>4, <3>5
  <2>3. ASSUME \/ \E s \in 1..MaxStates : StateExpires(s)
               \/ \E r \in Repository, i \in Installation \cup {Nobody} : Transfer(r, i)
               \/ \E q \in Request, u \in User, w \in Workspace : StartOAuth(q, u, w)
               \/ UNCHANGED vars
        PROVE  AccountsInv'
    <3>1. StoreTypeOK' /\ UNCHANGED <<req, owner, row, owed, access>> /\ Len(states) <= Len(states')
      BY <2>0, <2>3, WorldStores
    <3>2. ASSUME NEW p \in Request PROVE RequestOK(p)'
      <4>1. RequestOK(p) /\ Len(states') \in Nat /\ DOMAIN states = 1..Len(states) /\ DOMAIN states' = 1..Len(states')
        BY <2>0, <3>1 DEF StoreTypeOK
      <4> QED  BY <2>0, <3>1, <4>1 DEF RequestOK, At
    <3>3. FiledRepositoriesAreVisible'
      BY <3>1 DEF AccountsInv, FiledRepositoriesAreVisible, At
    <3>4. TypeOK'
      BY <2>0, <3>1 DEF TypeOK, MembersTypeOK, StoreTypeOK
    <3> QED  BY <3>2, <3>3, <3>4 DEF AccountsInv
  <2>4. ASSUME NEW q \in Request,
               \/ RequestFails(q)
               \/ \E u \in User, w \in Workspace :
                    \/ \E s \in 0..MaxStates : CompleteOAuth(q, u, w, s)
                    \/ \E i \in Installation : Connect(q, u, w, i)
                    \/ \E S \in SUBSET Installation : Sync(q, u, w, S)
                    \/ \E r \in Repository : SyncRepository(q, u, w, r)
               \/ OAuthConsume(q) \/ ConnDelete(q) \/ ConnInsert(q)
               \/ \E g \in Account : OAuthExchange(q, g)
               \/ \E S \in SUBSET Installation : Accessible(q, S)
               \/ InstNext(q) \/ InstFind(q) \/ InstUpsert(q)
               \/ RepoList(q) \/ RepoUpsert(q) \/ RepoGrant(q)
        PROVE  AccountsInv'
    BY <2>1, <2>4, AccountsAdvance, AccountsStores, FiledAccountsStep
  <2> QED  BY <2>2, <2>3, <2>4 DEF Next
<1> QED
  BY <1>1, InitAccounts, PTL DEF Spec

(* Every variable has its type, the bounds on requests, OAuth flows,       *)
(* personal workspaces and the history of first logins included.           *)
THEOREM AccountsTypeOK == Spec => []TypeOK
<1>1. AccountsInv => TypeOK
  BY DEF AccountsInv
<1> QED
  BY <1>1, AccountsInvariant, PTL

(* A repository is filed under an installation some workspace has claimed, *)
(* and the user whose sync filed it has access, but for the grant a sync   *)
(* is at or failed at (syncInstallationRepositories, github.store.ts:446). *)
THEOREM FiledVisible == Spec => []FiledRepositoriesAreVisible
<1>1. AccountsInv => FiledRepositoriesAreVisible
  BY DEF AccountsInv
<1> QED
  BY <1>1, AccountsInvariant, PTL
=============================================================================
