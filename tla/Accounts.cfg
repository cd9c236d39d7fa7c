\* Two requests at a time, three in all: two users, two organizations that
\* begin with admins, two GitHub accounts, one installation, one repository.
SPECIFICATION Spec
CONSTANTS
  u1 = u1
  u2 = u2
  o1 = o1
  o2 = o2
  q1 = q1
  q2 = q2
  Nobody = Nobody
  NoWorkspace = NoWorkspace
  User = {u1, u2}
  Org = {o1, o2}
  Request = {q1, q2}
  Account = {g1, g2}
  Installation = {i1}
  Repository = {r1}
  MaxRequests = 3
  MaxPersonal = 2
  MaxFaults = 1
  MaxStates = 1
  MaxTransfers = 1
  Seeded <- MCSeeded
SYMMETRY Symmetry
INVARIANTS
  TypeOK
  OneAdminRemains
  PersonalWorkspacesAreFew
  AccountHasOneUser
  
PROPERTY
  InstallationKeepsItsWorkspace
\* Requests are bounded, so the instance stops.
CHECK_DEADLOCK FALSE
