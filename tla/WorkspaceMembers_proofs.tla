------------------------ MODULE WorkspaceMembers_proofs ------------------------
(***************************************************************************)
(* Theorems about WorkspaceMembers within GitHubAccounts, for any users    *)
(* and any number of requests at a time: a user's first requests leave no  *)
(* more personal workspaces than there were of them at work at once.       *)
(***************************************************************************)
EXTENDS GitHubAccounts_proofs, FiniteSetTheorems, TLAPS

PersonalMembers(u) == {w \in Personal : members[w][u] # NotMember}

(* The first requests of a user that may still add a membership.           *)
Joining(u) ==
  {q \in LoginsOf(u) :
     \/ At(q, "personalCreate")
     \/ req[q].pc \in {"memberFind", "memberInsert"} /\ members[req[q].ws][u] = NotMember}

(* Nobody is an admin of a personal workspace, so that nobody changes its  *)
(* memberships, and a workspace has none before it is created.             *)
PersonalMembership(w, u) ==
  /\ members[w][u] # NotMember => members[w][u].active /\ members[w][u].role = "developer"
  /\ w > created => members[w][u] = NotMember

LoginOK(q) ==
  /\ req[q].pc \in Settings => req[q].ws \in Org
  /\ req[q].pc \in {"personalFind", "personalCreate"} => req[q].flow = "login" /\ req[q].ws \notin Org
  /\ req[q].pc \in {"memberFind", "memberInsert"} =>
       req[q].flow = "login" /\ (req[q].ws \in Personal => req[q].ws <= created)

Few(u) ==
  /\ resolved[u] \subseteq PersonalMembers(u)
  /\ Cardinality(LoginsOf(u)) <= peak[u]
  /\ Cardinality(PersonalMembers(u)) + Cardinality(Joining(u)) <= peak[u]

PersonalInv ==
  /\ \A w \in Personal, u \in User : PersonalMembership(w, u)
  /\ \A q \in Request : LoginOK(q)
  /\ \A u \in User : Few(u)

LEMMA PersonalIsNotOrg ==
  /\ Personal \cap Org = {} /\ Workspace \ Org = Personal /\ Personal \subseteq Nat /\ NoWorkspace \notin Org
  /\ \A w \in Workspace : w \in Personal \/ w \in Org
BY MembersAssumption DEF Personal, Workspace

LEMMA FewCounted ==
  ASSUME AccountsInv, NEW u \in User
  PROVE  /\ IsFiniteSet(LoginsOf(u)) /\ Cardinality(LoginsOf(u)) \in Nat
         /\ IsFiniteSet(PersonalMembers(u)) /\ Cardinality(PersonalMembers(u)) \in Nat
         /\ IsFiniteSet(Joining(u)) /\ Cardinality(Joining(u)) \in Nat
         /\ Cardinality(Joining(u)) <= Cardinality(LoginsOf(u)) /\ peak[u] \in Nat
<1>1. req \in [Request -> RequestRecord] /\ peak[u] \in 0..Cardinality(Request)
  BY DEF AccountsInv, TypeOK, MembersTypeOK
<1>2. IsFiniteSet(LoginsOf(u)) /\ Cardinality(LoginsOf(u)) \in Nat /\ peak[u] \in Nat
  BY <1>1, LoginsCounted
<1>3. IsFiniteSet(Personal) /\ PersonalMembers(u) \in SUBSET Personal
  BY FS_Interval, MembersAssumption DEF Personal, PersonalMembers
<1>4. Joining(u) \in SUBSET LoginsOf(u)
  BY DEF Joining
<1>5. IsFiniteSet(PersonalMembers(u)) /\ IsFiniteSet(Joining(u)) /\ Cardinality(Joining(u)) <= Cardinality(LoginsOf(u))
  BY <1>2, <1>3, <1>4, FS_Subset
<1> QED
  BY <1>2, <1>5, FS_CardinalityType

(* A step after which no more requests of the user are at work or joining. *)
LEMMA FewStays ==
  ASSUME AccountsInv, AccountsInv', NEW u \in User, Few(u), peak[u] <= peak'[u],
         PersonalMembers(u)' = PersonalMembers(u), resolved'[u] \subseteq PersonalMembers(u)',
         LoginsOf(u)' \subseteq LoginsOf(u), Joining(u)' \subseteq Joining(u)
  PROVE  Few(u)'
<1>1. Cardinality(LoginsOf(u)') <= Cardinality(LoginsOf(u)) /\ Cardinality(LoginsOf(u)') \in Nat
  BY FewCounted, FS_Subset, FS_CardinalityType
<1>2. Cardinality(Joining(u)') <= Cardinality(Joining(u)) /\ Cardinality(Joining(u)') \in Nat
  BY FewCounted, FS_Subset, FS_CardinalityType
<1>3. peak'[u] \in Nat
  <2>1. peak' \in [User -> 0..Cardinality(Request)] /\ Cardinality(Request) \in Nat
    BY LoginsCounted DEF AccountsInv, TypeOK, MembersTypeOK
  <2> QED  BY <2>1
<1> QED
  BY <1>1, <1>2, <1>3, FewCounted DEF Few

(* A step that leaves the memberships alone and joins nobody.              *)
LEMMA PersonalStays ==
  ASSUME AccountsInv, AccountsInv', PersonalInv, UNCHANGED <<members, created, resolved, peak>>,
         \A q \in Request : LoginOK(q)',
         \A q \in Request : req'[q].flow = "login" =>
           /\ req[q].flow = "login" /\ req'[q].user = req[q].user
           /\ req'[q].ws \notin Org => req[q].ws \notin Org,
         \A q \in Request :
           /\ req'[q].pc = "personalCreate" => req[q].pc = "personalCreate"
           /\ req'[q].pc \in {"memberFind", "memberInsert"} =>
                req[q].pc \in {"memberFind", "memberInsert"} /\ req'[q].ws = req[q].ws
  PROVE  PersonalInv'
<1>1. \A w \in Personal, u \in User : PersonalMembership(w, u)'
  BY DEF PersonalInv, PersonalMembership
<1>2. ASSUME NEW u \in User PROVE Few(u)'
  <2>1. PersonalMembers(u)' = PersonalMembers(u) /\ resolved'[u] \subseteq PersonalMembers(u)'
    BY DEF PersonalMembers, PersonalInv, Few
  <2>2. LoginsOf(u)' \subseteq LoginsOf(u)
    BY DEF LoginsOf
  <2>3. Joining(u)' \subseteq Joining(u)
    <3>1. ASSUME NEW q \in Joining(u)' PROVE q \in Joining(u)
      <4>1. /\ q \in LoginsOf(u) /\ q \in Request
            /\ \/ req'[q].pc = "personalCreate"
               \/ req'[q].pc \in {"memberFind", "memberInsert"} /\ members[req'[q].ws][u] = NotMember
        BY <2>2, <3>1 DEF Joining, At, LoginsOf
      <4> QED  BY <4>1 DEF Joining, At
    <3> QED  BY <3>1
  <2>4. Few(u) /\ peak[u] <= peak'[u]
    BY FewCounted DEF PersonalInv
  <2> QED  BY <2>1, <2>2, <2>3, <2>4, FewStays
<1> QED
  BY <1>1, <1>2 DEF PersonalInv

(* What the steps of the other requests do to a first login.               *)
LEMMA OtherFlows ==
  ASSUME AccountsInv, NEW q \in Request,
         \/ RequestFails(q)
         \/ \E u \in User, w \in Workspace :
              \/ \E s \in 0..MaxStates : CompleteOAuth(q, u, w, s)
              \/ \E i \in Installation : Connect(q, u, w, i)
              \/ \E S \in SUBSET Installation : Sync(q, u, w, S)
              \/ \E r \in Repository : SyncRepository(q, u, w, r)
         \/ OAuthConsume(q) \/ ConnDelete(q) \/ ConnInsert(q)
         \/ \E g \in Account : OAuthExchange(q, g)
         \/ \E S \in SUBSET Installation : Accessible(q, S)
         \/ InstNext(q) \/ InstFind(q) \/ InstUpsert(q)
         \/ RepoList(q) \/ RepoUpsert(q) \/ RepoGrant(q)
  PROVE  /\ UNCHANGED <<members, created, resolved, peak>>
         /\ \A p \in Request \ {q} : req'[p] = req[p]
         /\ req'[q].flow = "login" =>
              req[q].flow = "login" /\ req'[q].user = req[q].user /\ req'[q].ws = req[q].ws
         /\ req'[q].pc \notin Settings
         /\ req'[q].pc \notin {"personalFind", "personalCreate", "memberFind", "memberInsert"}
<1> DEFINE Other ==
      /\ UNCHANGED <<members, created, resolved, peak>>
      /\ \A p \in Request \ {q} : req'[p] = req[p]
      /\ req'[q].flow = "login" =>
           req[q].flow = "login" /\ req'[q].user = req[q].user /\ req'[q].ws = req[q].ws
      /\ req'[q].pc \notin Settings
      /\ req'[q].pc \notin {"personalFind", "personalCreate", "memberFind", "memberInsert"}
<1> USE DEF Settings, At, Goto, End, Begin, Idle, Handling, Arrival
<1>0. DOMAIN req = Request /\ DOMAIN req[q] = DOMAIN Idle
  BY DEF AccountsInv, TypeOK, MembersTypeOK, RequestRecord
<1>1. CASE RequestFails(q)
  BY <1>0, <1>1 DEF RequestFails
<1>2. CASE OAuthConsume(q)
  BY <1>0, <1>2 DEF OAuthConsume
<1>3. CASE ConnDelete(q) \/ ConnInsert(q)
  BY <1>0, <1>3 DEF ConnDelete, ConnInsert
<1>4. ASSUME NEW g, OAuthExchange(q, g) PROVE Other
  BY <1>0, <1>4 DEF OAuthExchange
<1>5. ASSUME NEW u, NEW w, NEW x, CompleteOAuth(q, u, w, x) PROVE Other
  BY <1>0, <1>5 DEF CompleteOAuth
<1>6. ASSUME NEW u, NEW w, NEW x, Connect(q, u, w, x) PROVE Other
  BY <1>0, <1>6 DEF Connect
<1>7. ASSUME NEW u, NEW w, NEW x, Sync(q, u, w, x) PROVE Other
  BY <1>0, <1>7 DEF Sync
<1>8. ASSUME NEW u, NEW w, NEW x, SyncRepository(q, u, w, x) PROVE Other
  BY <1>0, <1>8 DEF SyncRepository
<1>9. ASSUME NEW S, Accessible(q, S) PROVE Other
  BY <1>0, <1>9 DEF Accessible
<1>10. CASE InstNext(q)
  <2>1. CASE req[q].todo = {} /\ End(q)
    BY <1>0, <1>10, <2>1 DEF InstNext
  <2>2. ASSUME NEW i, req' = [req EXCEPT ![q].pc = IF req[q].flow = "sync" THEN "instUpsert" ELSE "instFind",
                                         ![q].inst = i, ![q].todo = @ \ {i}]
        PROVE  Other
    BY <1>0, <1>10, <2>2 DEF InstNext
  <2> QED  BY <1>10, <2>1, <2>2 DEF InstNext
<1>11. CASE InstFind(q) \/ InstUpsert(q)
  BY <1>0, <1>11 DEF InstFind, InstUpsert
<1>12. CASE RepoList(q) \/ RepoGrant(q)
  BY <1>0, <1>12 DEF RepoList, RepoGrant
<1>13. CASE RepoUpsert(q)
  <2>1. CASE req' = [req EXCEPT ![q].pc = "instNext", ![q].inst = Nobody]
    BY <1>0, <1>13, <2>1 DEF RepoUpsert
  <2>2. ASSUME NEW r, req' = [req EXCEPT ![q].pc = AfterUpsert(r), ![q].repo = r, ![q].listed = @ \ {r}]
        PROVE  Other
    BY <1>0, <1>13, <2>2 DEF RepoUpsert, AfterUpsert
  <2> QED  BY <1>13, <2>1, <2>2 DEF RepoUpsert
<1> QED
  BY <1>1, <1>2, <1>3, <1>4, <1>5, <1>6, <1>7, <1>8, <1>9, <1>10, <1>11, <1>12, <1>13

LEMMA OtherPersonal ==
  ASSUME AccountsInv, AccountsInv', PersonalInv, UNCHANGED <<members, created, resolved, peak>>, NEW q \in Request,
         \A p \in Request \ {q} : req'[p] = req[p],
         req'[q].flow = "login" =>
           req[q].flow = "login" /\ req'[q].user = req[q].user /\ req'[q].ws = req[q].ws,
         req'[q].pc \notin Settings,
         req'[q].pc \notin {"personalFind", "personalCreate", "memberFind", "memberInsert"}
  PROVE  PersonalInv'
<1>1. \A p \in Request : LoginOK(p)'
  BY DEF PersonalInv, LoginOK
<1>2. \A p \in Request : req'[p].flow = "login" =>
        /\ req[p].flow = "login" /\ req'[p].user = req[p].user
        /\ req'[p].ws \notin Org => req[p].ws \notin Org
  OBVIOUS
<1>3. \A p \in Request :
        /\ req'[p].pc = "personalCreate" => req[p].pc = "personalCreate"
        /\ req'[p].pc \in {"memberFind", "memberInsert"} =>
             req[p].pc \in {"memberFind", "memberInsert"} /\ req'[p].ws = req[p].ws
  OBVIOUS
<1> QED
  BY <1>1, <1>2, <1>3, PersonalStays

(* The first request of a user for a workspace of their own: one more of   *)
(* them is at work, and peak knows.                                        *)
LEMMA LoginPersonalFew ==
  ASSUME AccountsInv, AccountsInv', PersonalInv, NEW q \in Request, NEW v \in User, LoginPersonal(q, v)
  PROVE  PersonalInv'
<1>1. /\ req \in [Request -> RequestRecord] /\ req[q] = Idle /\ peak \in [User -> 0..Cardinality(Request)]
      /\ UNCHANGED <<members, created, resolved>>
      /\ Cardinality(Request) \in Nat /\ \A u \in User : Cardinality(LoginsOf(u)) \in Nat
  BY LoginsCounted DEF AccountsInv, TypeOK, MembersTypeOK, LoginPersonal, Begin, RequestOK
<1>2. /\ req'[q].pc = "personalFind" /\ req'[q].flow = "login" /\ req'[q].user = v /\ req'[q].ws \notin Org
      /\ \A p \in Request \ {q} : req'[p] = req[p]
  BY <1>1, PersonalIsNotOrg DEF LoginPersonal, Begin, Idle
<1>3. \A p \in Request : LoginOK(p)'
  BY <1>1, <1>2 DEF PersonalInv, LoginOK, Settings
<1>4. \A w \in Personal, u \in User : PersonalMembership(w, u)'
  BY <1>1 DEF PersonalInv, PersonalMembership
<1>5. q \notin LoginsOf(v) /\ LoginsOf(v)' = LoginsOf(v) \cup {q} /\ \A u \in User \ {v} : LoginsOf(u)' = LoginsOf(u)
  BY <1>1, <1>2 DEF LoginsOf, Idle
<1>6. Cardinality(LoginsOf(v)') = Cardinality(LoginsOf(v)) + 1
  BY <1>5, FewCounted, FS_AddElement
<1>7. /\ \A u \in User : peak[u] <= peak'[u] /\ peak'[u] \in Nat
      /\ Cardinality(LoginsOf(v)) + 1 <= peak'[v]
  <2> DEFINE n == Cardinality(LoginsOf(v)) + 1
  <2>1. n \in Nat /\ peak' = [peak EXCEPT ![v] = IF n > @ THEN n ELSE @]
    BY <1>1 DEF LoginPersonal
  <2> HIDE DEF n
  <2>2. /\ \A u \in User : peak[u] <= peak'[u] /\ peak'[u] \in Nat
        /\ n <= peak'[v]
    BY <1>1, <2>1
  <2> QED  BY <2>2 DEF n
<1>8. ASSUME NEW u \in User
      PROVE  Joining(u)' \subseteq Joining(u) /\ PersonalMembers(u)' = PersonalMembers(u)
  BY <1>1, <1>2 DEF Joining, LoginsOf, PersonalMembers, At
<1>9. ASSUME NEW u \in User PROVE Few(u)'
  <2>1. Few(u) /\ resolved'[u] \subseteq PersonalMembers(u)'
    BY <1>1, <1>8 DEF PersonalInv, Few
  <2>2. CASE u # v
    BY <1>5, <1>7, <1>8, <2>1, <2>2, FewStays
  <2>3. CASE u = v
    <3>1. Cardinality(Joining(u)') <= Cardinality(Joining(u)) /\ Cardinality(Joining(u)') \in Nat
      BY <1>8, FewCounted, FS_Subset, FS_CardinalityType
    <3> QED  BY <1>1, <1>6, <1>7, <1>8, <2>1, <2>3, <3>1, FewCounted DEF Few
  <2> QED  BY <2>2, <2>3
<1> QED
  BY <1>3, <1>4, <1>9 DEF PersonalInv

(* A step that leaves the memberships alone, of a request that goes on.    *)
LEMMA GoesFew ==
  ASSUME AccountsInv, AccountsInv', PersonalInv, NEW q \in Request,
         UNCHANGED <<members, created, resolved, peak>>,
         \A p \in Request \ {q} : req'[p] = req[p],
         req'[q] = Idle \/ (req'[q].flow = req[q].flow /\ req'[q].user = req[q].user
                            /\ (req'[q].ws \notin Org <=> req[q].ws \notin Org)),
         LoginOK(q)',
         NEW U \in SUBSET User,
         \A u \in U : Joining(u)' \subseteq Joining(u),
         \A u \in User \ U : PersonalMembers(u) = {}
  PROVE  PersonalInv'
<1>1. \A p \in Request : LoginOK(p)'
  BY DEF PersonalInv, LoginOK
<1>2. \A w \in Personal, u \in User : PersonalMembership(w, u)'
  BY DEF PersonalInv, PersonalMembership
<1>3. ASSUME NEW u \in User PROVE Few(u)'
  <2>1. Few(u) /\ PersonalMembers(u)' = PersonalMembers(u) /\ resolved'[u] \subseteq PersonalMembers(u)'
    BY DEF PersonalInv, Few, PersonalMembers
  <2>2. LoginsOf(u)' \subseteq LoginsOf(u)
    BY DEF LoginsOf, Idle
  <2>3. CASE u \in U
    BY <2>1, <2>2, <2>3, FewStays, FewCounted
  <2>4. CASE u \notin U
    <3>1. Cardinality(PersonalMembers(u)') = 0
      BY <2>1, <2>4, FS_EmptySet
    <3>2. /\ Cardinality(LoginsOf(u)') <= Cardinality(LoginsOf(u)) /\ Cardinality(LoginsOf(u)') \in Nat
          /\ IsFiniteSet(LoginsOf(u)')
      BY <2>2, FewCounted, FS_Subset, FS_CardinalityType
    <3>3. Cardinality(Joining(u)') <= Cardinality(LoginsOf(u)') /\ Cardinality(Joining(u)') \in Nat
      <4>1. Joining(u)' \in SUBSET LoginsOf(u)'
        BY DEF Joining
      <4> QED  BY <3>2, <4>1, FS_Subset, FS_CardinalityType
    <3> QED  BY <2>1, <3>1, <3>2, <3>3, FewCounted DEF Few
  <2> QED  BY <2>3, <2>4
<1> QED
  BY <1>1, <1>2, <1>3 DEF PersonalInv

LEMMA MembersFew ==
  ASSUME AccountsInv, AccountsInv', PersonalInv, NEW q \in Request,
         \/ \E u \in User :
              \/ LoginPersonal(q, u)
              \/ \E w \in Org : LoginOrg(q, u, w)
              \/ \E w \in Workspace, t \in User, c \in Change : ChangeMember(q, u, w, t, c)
         \/ PersonalFind(q) \/ PersonalCreate(q) \/ MemberFind(q)
         \/ TargetRead(q) \/ AdminCount(q)
  PROVE  PersonalInv'
<1>1. /\ req \in [Request -> RequestRecord] /\ RequestOK(q) /\ LoginOK(q) /\ created \in Nat
      /\ members \in [Workspace -> [User -> Membership]]
  BY MembersAssumption DEF AccountsInv, PersonalInv, TypeOK, MembersTypeOK
<1>2. ASSUME NEW w \in Personal, NEW u \in User
      PROVE  /\ ~ActiveAdmin(w, u) /\ (members[w][u] # NotMember <=> Active(w, u))
             /\ members[w][u] # NotMember => w <= created
  BY <1>1, PersonalIsNotOrg DEF PersonalInv, PersonalMembership, ActiveAdmin, Active, NotMember
(* Requests that are not first logins.                                     *)
<1>3. ASSUME UNCHANGED <<members, created, resolved, peak>>, \A p \in Request \ {q} : req'[p] = req[p],
             LoginOK(q)',
             req'[q] = Idle \/ req'[q].flow # "login" \/ req'[q].ws \in Org
      PROVE  PersonalInv'
  <2>1. \A p \in Request : LoginOK(p)'
    BY <1>3 DEF PersonalInv, LoginOK
  <2>2. \A w \in Personal, u \in User : PersonalMembership(w, u)'
    BY <1>3 DEF PersonalInv, PersonalMembership
  <2>3. ASSUME NEW u \in User PROVE Few(u)'
    <3>1. Few(u) /\ PersonalMembers(u)' = PersonalMembers(u) /\ resolved'[u] \subseteq PersonalMembers(u)'
      BY <1>3 DEF PersonalInv, Few, PersonalMembers
    <3>2. LoginsOf(u)' \subseteq LoginsOf(u) \ {q}
      BY <1>3 DEF LoginsOf, Idle
    <3>3. Joining(u)' \subseteq Joining(u)
      BY <1>3, <3>2 DEF Joining, At, LoginsOf
    <3> QED  BY <1>3, <3>1, <3>2, <3>3, FewStays, FewCounted
  <2> QED  BY <2>1, <2>2, <2>3 DEF PersonalInv
<1>4. ASSUME NEW u \in User, NEW w \in Org, LoginOrg(q, u, w) PROVE PersonalInv'
  <2>1. /\ req'[q].pc = "memberFind" /\ req'[q].flow = "login" /\ req'[q].ws = w
        /\ \A p \in Request \ {q} : req'[p] = req[p]
        /\ UNCHANGED <<members, created, resolved, peak>>
    BY <1>1, <1>4 DEF LoginOrg, Begin, Idle
  <2>2. LoginOK(q)'
    BY <2>1, PersonalIsNotOrg DEF LoginOK, Settings
  <2> QED  BY <1>3, <2>1, <2>2
<1>5. ASSUME NEW u \in User, NEW w \in Workspace, NEW t \in User, NEW c \in Change, ChangeMember(q, u, w, t, c)
      PROVE  PersonalInv'
  <2>1. /\ req'[q].pc = "targetRead" /\ req'[q].flow = "settings" /\ req'[q].ws = w
        /\ \A p \in Request \ {q} : req'[p] = req[p]
        /\ UNCHANGED <<members, created, resolved, peak>>
    BY <1>1, <1>5 DEF ChangeMember, Begin, Idle
  <2>2. w \in Org
    BY <1>2, <1>5, PersonalIsNotOrg DEF ChangeMember
  <2>3. LoginOK(q)'
    BY <2>1, <2>2 DEF LoginOK
  <2> QED  BY <1>3, <2>1, <2>3
<1>6. CASE PersonalFind(q)
  <2> DEFINE v == req[q].user
  <2>1. /\ UNCHANGED <<members, created, resolved, peak>> /\ v \in User
        /\ req[q].pc = "personalFind" /\ req[q].flow = "login" /\ req[q].ws \notin Org
    BY <1>1, <1>6 DEF PersonalFind, RequestOK, LoginOK, At
  <2>2. CASE PersonalOf(v) # {} /\ req' = [req EXCEPT ![q].pc = "memberFind", ![q].ws = Oldest(PersonalOf(v))]
    <3>1. PICK w \in Personal : w = Oldest(PersonalOf(v)) /\ Active(w, v)
      BY <2>2, OldestIsOne DEF PersonalOf
    <3> DEFINE r == [req[q] EXCEPT !.pc = "memberFind", !.ws = w]
    <3>2. r.pc = "memberFind" /\ r.flow = req[q].flow /\ r.user = v /\ r.ws = w
      BY <1>1 DEF RequestRecord
    <3>3. req' = [req EXCEPT ![q] = r]
      BY <2>2, <3>1
    <3> HIDE DEF r
    <3>4. /\ req'[q].pc = "memberFind" /\ req'[q].flow = req[q].flow /\ req'[q].user = v /\ req'[q].ws = w
          /\ \A p \in Request \ {q} : req'[p] = req[p]
      BY <1>1, <3>2, <3>3
    <3>5. members[w][v] # NotMember /\ w <= created /\ w \notin Org
      BY <1>2, <2>1, <3>1, PersonalIsNotOrg
    <3>6. LoginOK(q)'
      BY <2>1, <3>4, <3>5 DEF LoginOK, Settings
    <3>7. \A u \in User : Joining(u)' \subseteq Joining(u)
      BY <2>1, <3>4, <3>5 DEF Joining, At, LoginsOf
    <3> QED  BY <2>1, <3>4, <3>5, <3>6, <3>7, GoesFew
  <2>3. CASE PersonalOf(v) = {} /\ Goto(q, "personalCreate")
    <3>1. "personalCreate" \in Pc
      BY DEF Pc
    <3>2. /\ req'[q].pc = "personalCreate" /\ req'[q].flow = req[q].flow /\ req'[q].user = v /\ req'[q].ws = req[q].ws
          /\ \A p \in Request \ {q} : req'[p] = req[p]
      BY <1>1, <2>3, <3>1, Goes
    <3>3. LoginOK(q)'
      BY <2>1, <3>2 DEF LoginOK, Settings
    <3>4. PersonalMembers(v) = {}
      BY <1>2, <2>1, <2>3 DEF PersonalMembers, PersonalOf
    <3>5. \A u \in User \ {v} : Joining(u)' \subseteq Joining(u)
      BY <2>1, <3>2 DEF Joining, At, LoginsOf
    <3> QED  BY <2>1, <3>2, <3>3, <3>4, <3>5, GoesFew
  <2> QED  BY <1>6, <2>2, <2>3 DEF PersonalFind
<1>7. CASE PersonalCreate(q)
  <2> DEFINE w == created + 1
             r == [req[q] EXCEPT !.pc = "memberFind", !.ws = w]
  <2>1. /\ UNCHANGED <<members, resolved, peak>> /\ created' = w /\ w \in Personal /\ w \in Nat
        /\ req[q].pc = "personalCreate" /\ req[q].flow = "login" /\ req[q].ws \notin Org
    BY <1>1, <1>7, MembersAssumption DEF PersonalCreate, LoginOK, At, Personal
  <2>2. r.pc = "memberFind" /\ r.flow = req[q].flow /\ r.user = req[q].user /\ r.ws = w
    BY <1>1 DEF RequestRecord
  <2>3. req' = [req EXCEPT ![q] = r]
    BY <1>7 DEF PersonalCreate
  <2> HIDE DEF r
  <2>4. /\ req'[q].pc = "memberFind" /\ req'[q].flow = "login" /\ req'[q].user = req[q].user /\ req'[q].ws = w
        /\ \A p \in Request \ {q} : req'[p] = req[p]
    BY <1>1, <2>1, <2>2, <2>3
  <2>5. w \notin Org /\ created < w
    BY <1>1, <2>1, PersonalIsNotOrg
  <2>6. ASSUME NEW p \in Request PROVE LoginOK(p)'
    <3>1. LoginOK(p) /\ (req[p].ws \in Personal => req[p].ws \in Nat)
      BY PersonalIsNotOrg DEF PersonalInv
    <3> QED  BY <1>1, <2>1, <2>4, <3>1 DEF LoginOK, Settings
  <2>7. ASSUME NEW x \in Personal, NEW u \in User PROVE PersonalMembership(x, u)'
    <3>1. PersonalMembership(x, u) /\ x \in Nat
      BY PersonalIsNotOrg DEF PersonalInv
    <3> QED  BY <1>1, <2>1, <3>1 DEF PersonalMembership
  <2>8. ASSUME NEW u \in User PROVE Few(u)'
    <3>1. Few(u) /\ PersonalMembers(u)' = PersonalMembers(u) /\ resolved'[u] \subseteq PersonalMembers(u)'
      BY <2>1 DEF PersonalInv, Few, PersonalMembers
    <3>2. LoginsOf(u)' \subseteq LoginsOf(u)
      BY <2>1, <2>4, <2>5 DEF LoginsOf
    <3>3. Joining(u)' \subseteq Joining(u)
      BY <2>1, <2>4, <3>2 DEF Joining, At, LoginsOf
    <3> QED  BY <2>1, <3>1, <3>2, <3>3, FewStays, FewCounted
  <2> QED  BY <2>6, <2>7, <2>8 DEF PersonalInv
<1>8. CASE MemberFind(q)
  <2>1. /\ UNCHANGED <<members, created, peak>> /\ req[q].user \in User /\ req[q].ws \in Workspace
        /\ req[q].pc = "memberFind" /\ req[q].flow = "login"
        /\ req[q].ws \in Personal => req[q].ws <= created
    BY <1>1, <1>8 DEF MemberFind, RequestOK, LoginOK, At
  <2>2. PICK v \in User, w \in Workspace : v = req[q].user /\ w = req[q].ws
    BY <2>1
  <2>3. /\ \A p \in Request \ {q} : req'[p] = req[p]
        /\ \/ req'[q] = Idle
           \/ /\ req'[q].pc = "memberInsert" /\ req'[q].flow = "login" /\ req'[q].user = v /\ req'[q].ws = w
              /\ UNCHANGED resolved
    <3>1. "memberInsert" \in Pc
      BY DEF Pc
    <3>2. CASE Goto(q, "memberInsert") /\ UNCHANGED resolved
      BY <1>1, <2>1, <2>2, <3>1, <3>2, Goes
    <3>3. CASE End(q)
      BY <1>1, <3>3, Ends DEF Advances
    <3> QED  BY <1>8, <3>2, <3>3 DEF MemberFind
  <2>4. \A p \in Request : LoginOK(p)'
    BY <2>1, <2>2, <2>3 DEF PersonalInv, LoginOK, Settings, Idle
  <2>5. \A x \in Personal, u \in User : PersonalMembership(x, u)'
    BY <2>1 DEF PersonalInv, PersonalMembership
  <2>6. ASSUME NEW u \in User PROVE Few(u)'
    <3>1. Few(u) /\ PersonalMembers(u)' = PersonalMembers(u)
      BY <2>1 DEF PersonalInv, PersonalMembers
    <3>2. resolved'[u] \subseteq PersonalMembers(u)'
      <4>1. CASE UNCHANGED resolved
        BY <3>1, <4>1 DEF Few
      <4>2. CASE members[w][v] # NotMember /\ Answered(q)
        <5>1. resolved \in [User -> SUBSET Personal]
          BY DEF AccountsInv, TypeOK, MembersTypeOK
        <5>2. resolved' = IF w \in Personal THEN [resolved EXCEPT ![v] = @ \cup {w}] ELSE resolved
          BY <2>2, <4>2 DEF Answered
        <5>3. u = v /\ w \in Personal => w \in PersonalMembers(u)
          BY <4>2 DEF PersonalMembers
        <5> QED  BY <3>1, <5>1, <5>2, <5>3 DEF Few
      <4> QED  BY <1>8, <2>2, <4>1, <4>2 DEF MemberFind
    <3>3. LoginsOf(u)' \subseteq LoginsOf(u)
      BY <2>1, <2>2, <2>3 DEF LoginsOf, Idle
    <3>4. Joining(u)' \subseteq Joining(u)
      BY <2>1, <2>2, <2>3, <3>3 DEF Joining, At, LoginsOf, Idle
    <3> QED  BY <2>1, <3>1, <3>2, <3>3, <3>4, FewStays, FewCounted
  <2> QED  BY <2>4, <2>5, <2>6 DEF PersonalInv
<1>9. CASE TargetRead(q) \/ AdminCount(q)
  <2>1. /\ UNCHANGED <<members, created, resolved, peak>> /\ req[q].pc \in Settings /\ req[q].ws \in Org
    BY <1>1, <1>9 DEF TargetRead, AdminCount, LoginOK, At, Settings
  <2>2. /\ \A p \in Request \ {q} : req'[p] = req[p]
        /\ req'[q] = Idle \/ (req'[q].pc \in Settings /\ req'[q].ws = req[q].ws)
    <3>1. CASE End(q)
      BY <1>1, <3>1, Ends DEF Advances
    <3>2. ASSUME NEW pc \in {"adminCount", "memberWrite"}, Goto(q, pc)
          PROVE  (\A p \in Request \ {q} : req'[p] = req[p]) /\ req'[q].pc \in Settings /\ req'[q].ws = req[q].ws
      <4>1. pc \in Pc /\ pc \in Settings
        BY DEF Pc, Settings
      <4> QED  BY <1>1, <3>2, <4>1, Goes
    <3>3. CASE req' = [req EXCEPT ![q].pc = "memberWrite", ![q].counted = TRUE]
      <4> DEFINE r == [req[q] EXCEPT !.pc = "memberWrite", !.counted = TRUE]
      <4>1. r.pc \in Settings /\ r.ws = req[q].ws /\ req' = [req EXCEPT ![q] = r]
        BY <1>1, <3>3, ZenonT(60) DEF RequestRecord, Settings
      <4> HIDE DEF r
      <4> QED  BY <1>1, <4>1
    <3> QED  BY <1>9, <3>1, <3>2, <3>3 DEF TargetRead, AdminCount
  <2>3. LoginOK(q)'
    BY <2>1, <2>2 DEF LoginOK, Settings, Idle
  <2> QED  BY <1>3, <2>1, <2>2, <2>3
<1> QED
  BY <1>4, <1>5, <1>6, <1>7, <1>8, <1>9, LoginPersonalFew

(* The INSERT of a membership: one more personal workspace of the user, by *)
(* a request that was joining and is not any more.                         *)
LEMMA MemberInsertFew ==
  ASSUME AccountsInv, AccountsInv', PersonalInv, NEW q \in Request, MemberInsert(q)
  PROVE  PersonalInv'
<1>1. /\ req \in [Request -> RequestRecord] /\ RequestOK(q) /\ LoginOK(q) /\ created \in Nat
      /\ members \in [Workspace -> [User -> Membership]] /\ resolved \in [User -> SUBSET Personal]
  BY MembersAssumption DEF AccountsInv, PersonalInv, TypeOK, MembersTypeOK
<1>2. /\ UNCHANGED <<created, peak>> /\ req[q].user \in User /\ req[q].ws \in Workspace
      /\ req[q].pc = "memberInsert" /\ req[q].flow = "login"
      /\ req[q].ws \in Personal => req[q].ws <= created
  BY <1>1 DEF MemberInsert, RequestOK, LoginOK, At
<1>3. PICK v \in User, w \in Workspace : v = req[q].user /\ w = req[q].ws
  BY <1>2
<1>4. w \in Org <=> w \notin Personal
  BY PersonalIsNotOrg
<1>5. CASE members[w][v] # NotMember /\ Goto(q, "memberFind") /\ UNCHANGED <<members, resolved>>
  <2>1. "memberFind" \in Pc
    BY DEF Pc
  <2>2. /\ req'[q].pc = "memberFind" /\ req'[q].flow = "login" /\ req'[q].user = v /\ req'[q].ws = w
        /\ \A p \in Request \ {q} : req'[p] = req[p]
    BY <1>1, <1>2, <1>3, <1>5, <2>1, Goes
  <2>3. LoginOK(q)'
    BY <1>2, <1>3, <2>2 DEF LoginOK, Settings
  <2>4. \A u \in User : Joining(u)' \subseteq Joining(u)
    BY <1>2, <1>3, <1>5, <2>2 DEF Joining, At, LoginsOf
  <2> QED  BY <1>2, <1>3, <1>5, <2>2, <2>3, <2>4, GoesFew
<1>6. CASE /\ members[w][v] = NotMember /\ Answered(q) /\ End(q)
           /\ members' = [members EXCEPT ![w][v] = [role |-> "developer", active |-> TRUE]]
  <2>1. req'[q] = Idle /\ \A p \in Request \ {q} : req'[p] = req[p]
    BY <1>1, <1>6, Ends DEF Advances
  <2>2. \A p \in Request : LoginOK(p)'
    BY <1>2, <2>1 DEF PersonalInv, LoginOK, Settings, Idle
  <2>3. /\ members'[w][v] = [role |-> "developer", active |-> TRUE]
        /\ \A x \in Workspace, u \in User : ~(x = w /\ u = v) => members'[x][u] = members[x][u]
    BY <1>1, <1>6
  <2>4. members'[w][v] # NotMember
    BY <2>3 DEF NotMember
  <2>5. ASSUME NEW x \in Personal, NEW u \in User PROVE PersonalMembership(x, u)'
    <3>1. PersonalMembership(x, u) /\ x \in Workspace
      BY DEF PersonalInv, Workspace
    <3>2. members'[w][v].role = "developer" /\ members'[w][v].active
      BY <2>3
    <3>3. x = w => x <= created /\ x \in Nat
      BY <1>2, <1>3, PersonalIsNotOrg
    <3> QED  BY <1>1, <1>2, <2>3, <3>1, <3>2, <3>3 DEF PersonalMembership
  <2>6. resolved' = IF w \in Personal THEN [resolved EXCEPT ![v] = @ \cup {w}] ELSE resolved
    BY <1>3, <1>6 DEF Answered
  <2>7. ASSUME NEW u \in User
        PROVE  LoginsOf(u)' \subseteq LoginsOf(u) /\ Joining(u)' \subseteq Joining(u) \ {q}
    <3>1. LoginsOf(u)' \subseteq LoginsOf(u) \ {q}
      BY <2>1 DEF LoginsOf, Idle
    <3>2. ASSUME NEW p \in Joining(u)' PROVE p \in Joining(u)
      <4>1. /\ p \in LoginsOf(u) /\ p \in Request \ {q} /\ req'[p] = req[p]
            /\ \/ req[p].pc = "personalCreate"
               \/ req[p].pc \in {"memberFind", "memberInsert"} /\ members'[req[p].ws][u] = NotMember
        BY <2>1, <3>1, <3>2 DEF Joining, At, LoginsOf
      <4>2. req[p].pc \in {"memberFind", "memberInsert"} => req[p].ws \in Workspace
        BY <4>1 DEF AccountsInv, RequestOK
      <4> QED  BY <2>3, <2>4, <4>1, <4>2 DEF Joining, At
    <3> QED  BY <3>1, <3>2 DEF Joining
  <2>8. ASSUME NEW u \in User PROVE Few(u)'
    <3>0. Few(u) /\ Personal \subseteq Workspace
      BY DEF PersonalInv, Workspace
    <3>1. CASE u # v \/ w \in Org
      <4>1. PersonalMembers(u)' = PersonalMembers(u)
        BY <1>4, <2>3, <3>0, <3>1 DEF PersonalMembers
      <4>2. resolved'[u] \subseteq PersonalMembers(u)'
        BY <1>1, <1>4, <2>6, <3>0, <3>1, <4>1 DEF Few
      <4>3. Joining(u)' \subseteq Joining(u)
        BY <2>7
      <4> QED  BY <1>2, <2>7, <3>0, <4>1, <4>2, <4>3, FewStays, FewCounted
    <3>2. CASE u = v /\ w \in Personal
      <4>1. PersonalMembers(u)' = PersonalMembers(u) \cup {w} /\ w \notin PersonalMembers(u)
        BY <1>6, <2>3, <2>4, <3>0, <3>2 DEF PersonalMembers
      <4>2. q \in Joining(u)
        BY <1>2, <1>3, <1>4, <1>6, <3>2 DEF Joining, LoginsOf
      <4>3. resolved'[u] \subseteq PersonalMembers(u)'
        BY <1>1, <2>6, <3>0, <3>2, <4>1 DEF Few
      <4>4. Cardinality(PersonalMembers(u)') = Cardinality(PersonalMembers(u)) + 1
        BY <4>1, FewCounted, FS_AddElement
      <4>5. IsFiniteSet(Joining(u) \ {q}) /\ Cardinality(Joining(u) \ {q}) = Cardinality(Joining(u)) - 1
        BY <4>2, FewCounted, FS_RemoveElement
      <4>6. Cardinality(Joining(u)') <= Cardinality(Joining(u)) - 1 /\ Cardinality(Joining(u)') \in Nat
        BY <2>7, <4>5, FS_Subset, FS_CardinalityType
      <4>7. Cardinality(LoginsOf(u)') <= Cardinality(LoginsOf(u)) /\ Cardinality(LoginsOf(u)') \in Nat
        BY <2>7, FewCounted, FS_Subset, FS_CardinalityType
      <4> QED  BY <1>2, <3>0, <4>3, <4>4, <4>6, <4>7, FewCounted DEF Few
    <3> QED  BY <1>4, <3>1, <3>2
  <2> QED  BY <2>2, <2>5, <2>8 DEF PersonalInv
<1> QED
  BY <1>3, <1>5, <1>6 DEF MemberInsert

(* A change of a membership is of one of an organization.                  *)
LEMMA MemberWriteFew ==
  ASSUME AccountsInv, AccountsInv', PersonalInv, UNCHANGED githubVars, NEW q \in Request, MemberWrite(q)
  PROVE  PersonalInv'
<1>1. /\ req \in [Request -> RequestRecord] /\ RequestOK(q) /\ LoginOK(q)
      /\ members \in [Workspace -> [User -> Membership]]
  BY DEF AccountsInv, PersonalInv, TypeOK, MembersTypeOK
<1>2. PICK w \in Org, t \in User : w = req[q].ws /\ t = req[q].target
  BY <1>1 DEF MemberWrite, At, RequestOK, LoginOK, Settings
<1>3. /\ UNCHANGED <<created, resolved, peak>> /\ members' = [members EXCEPT ![w][t] = Changed(@, req[q].change)]
  BY <1>2 DEF MemberWrite
<1>4. \A x \in Personal : members'[x] = members[x]
  BY <1>1, <1>2, <1>3, PersonalIsNotOrg DEF Workspace
<1>5. /\ req'[q] = Idle
      /\ \A p \in Request \ {q} :
           req'[p] = req[p] \/ (~At(p, "idle") /\ req'[p] = [req[p] EXCEPT !.counted = FALSE])
  BY WriteAdvances
<1>6. ASSUME NEW p \in Request \ {q}
      PROVE  /\ req'[p].pc = req[p].pc /\ req'[p].user = req[p].user
             /\ req'[p].ws = req[p].ws /\ req'[p].flow = req[p].flow
  <2>1. DOMAIN req[p] = DOMAIN Idle
    BY <1>1 DEF RequestRecord, Idle
  <2>2. CASE req'[p] = [req[p] EXCEPT !.counted = FALSE]
    BY <2>1, <2>2 DEF Idle
  <2> QED  BY <1>5, <2>2
<1>7. ASSUME NEW p \in Request PROVE LoginOK(p)'
  <2>1. LoginOK(p)
    BY DEF PersonalInv
  <2> QED  BY <1>3, <1>5, <1>6, <2>1 DEF LoginOK, Settings, Idle
<1>8. \A x \in Personal, u \in User : PersonalMembership(x, u)'
  BY <1>3, <1>4 DEF PersonalInv, PersonalMembership
<1>9. ASSUME NEW u \in User PROVE Few(u)'
  <2>1. Few(u) /\ PersonalMembers(u)' = PersonalMembers(u) /\ resolved'[u] \subseteq PersonalMembers(u)'
    BY <1>3, <1>4 DEF PersonalInv, Few, PersonalMembers
  <2>2. LoginsOf(u)' \subseteq LoginsOf(u) \ {q}
    BY <1>5, <1>6 DEF LoginsOf, Idle
  <2>3. ASSUME NEW p \in Joining(u)' PROVE p \in Joining(u)
    <3>1. /\ p \in LoginsOf(u) /\ p \in Request \ {q} /\ req[p].ws \notin Org
          /\ \/ req[p].pc = "personalCreate"
             \/ req[p].pc \in {"memberFind", "memberInsert"} /\ members'[req[p].ws][u] = NotMember
      BY <1>6, <2>2, <2>3 DEF Joining, At, LoginsOf
    <3>2. req[p].pc \in {"memberFind", "memberInsert"} => req[p].ws \in Personal
      BY <3>1, PersonalIsNotOrg DEF AccountsInv, RequestOK
    <3> QED  BY <1>4, <3>1, <3>2 DEF Joining, At
  <2>4. LoginsOf(u)' \subseteq LoginsOf(u) /\ Joining(u)' \subseteq Joining(u)
    BY <2>2, <2>3
  <2> QED  BY <1>3, <2>1, <2>4, FewStays, FewCounted
<1> QED
  BY <1>7, <1>8, <1>9 DEF PersonalInv

(* PersonalInv is an invariant.                                            *)
THEOREM PersonalInvariant == Spec => []PersonalInv
<1>1. Init => PersonalInv
  <2> SUFFICES ASSUME Init PROVE PersonalInv
    OBVIOUS
  <2>1. \A q \in Request : req[q] = Idle /\ Idle.pc = "idle" /\ Idle.flow = "none"
    BY DEF Init, MembersInit, Idle
  <2>2. \A w \in Personal, u \in User : members[w][u] = NotMember
    BY PersonalIsNotOrg DEF Init, MembersInit, Workspace
  <2>3. ASSUME NEW u \in User PROVE Few(u)
    <3>1. PersonalMembers(u) = {} /\ LoginsOf(u) = {} /\ Joining(u) = {} /\ resolved[u] = {} /\ peak[u] = 0
      BY <2>1, <2>2 DEF PersonalMembers, LoginsOf, Joining, Init, MembersInit
    <3> QED  BY <3>1, FS_EmptySet DEF Few
  <2> QED  BY <2>1, <2>2, <2>3 DEF PersonalInv, PersonalMembership, LoginOK, Settings
<1>2. AccountsInv /\ AccountsInv' /\ PersonalInv /\ [Next]_vars => PersonalInv'
  <2> SUFFICES ASSUME AccountsInv, AccountsInv', PersonalInv, [Next]_vars PROVE PersonalInv'
    OBVIOUS
  <2>1. CASE MembersNext /\ UNCHANGED githubVars
    BY <2>1, MembersFew, MemberInsertFew, MemberWriteFew DEF MembersNext
  <2>2. CASE \/ \E s \in 1..MaxStates : StateExpires(s)
             \/ \E r \in Repository, i \in Installation \cup {Nobody} : Transfer(r, i)
             \/ \E q \in Request, u \in User, w \in Workspace : StartOAuth(q, u, w)
             \/ UNCHANGED vars
    <3>1. UNCHANGED <<members, created, resolved, peak, req>>
      BY <2>2 DEF StateExpires, Transfer, StartOAuth, Arrival, vars, memberVars
    <3>2. \A q \in Request : LoginOK(q)'
      BY <3>1 DEF PersonalInv, LoginOK
    <3> QED  BY <3>1, <3>2, PersonalStays
  <2>3. ASSUME NEW q \in Request,
               \/ RequestFails(q)
               \/ \E u \in User, w \in Workspace :
                    \/ \E s \in 0..MaxStates : CompleteOAuth(q, u, w, s)
                    \/ \E i \in Installation : Connect(q, u, w, i)
                    \/ \E S \in SUBSET Installation : Sync(q, u, w, S)
                    \/ \E r \in Repository : SyncRepository(q, u, w, r)
               \/ OAuthConsume(q) \/ ConnDelete(q) \/ ConnInsert(q)
               \/ \E g \in Account : OAuthExchange(q, g)
               \/ \E S \in SUBSET Installation : Accessible(q, S)
               \/ InstNext(q) \/ InstFind(q) \/ InstUpsert(q)
               \/ RepoList(q) \/ RepoUpsert(q) \/ RepoGrant(q)
        PROVE  PersonalInv'
    <3>1. /\ UNCHANGED <<members, created, resolved, peak>>
          /\ \A p \in Request \ {q} : req'[p] = req[p]
          /\ req'[q].flow = "login" =>
               req[q].flow = "login" /\ req'[q].user = req[q].user /\ req'[q].ws = req[q].ws
          /\ req'[q].pc \notin Settings
          /\ req'[q].pc \notin {"personalFind", "personalCreate", "memberFind", "memberInsert"}
      BY <2>3, OtherFlows
    <3> QED  BY <3>1, OtherPersonal
  <2> QED  BY <2>1, <2>2, <2>3 DEF Next
<1> QED
  BY <1>1, <1>2, AccountsInvariant, PTL DEF Spec

(* A user has no more personal workspaces, and is answered with no more    *)
(* different ones, than first requests of theirs were at work at once: a   *)
(* later one finds what is there, and one that died adds none              *)
(* (ensurePersonalWorkspace, workspace-resolver.ts:150).                   *)
THEOREM PersonalFew == Spec => []PersonalWorkspacesAreFew
<1>1. AccountsInv /\ PersonalInv => PersonalWorkspacesAreFew
  <2> SUFFICES ASSUME AccountsInv, PersonalInv, NEW u \in User
               PROVE  Cardinality(PersonalMembers(u)) <= peak[u] /\ Cardinality(resolved[u]) <= peak[u]
    BY DEF PersonalWorkspacesAreFew, PersonalMembers
  <2>1. /\ Cardinality(PersonalMembers(u)) + Cardinality(Joining(u)) <= peak[u]
        /\ resolved[u] \in SUBSET PersonalMembers(u)
    BY DEF PersonalInv, Few
  <2>2. Cardinality(resolved[u]) <= Cardinality(PersonalMembers(u)) /\ Cardinality(resolved[u]) \in Nat
    BY <2>1, FewCounted, FS_Subset, FS_CardinalityType
  <2> QED  BY <2>1, <2>2, FewCounted
<1> QED
  BY <1>1, AccountsInvariant, PersonalInvariant, PTL
=============================================================================
