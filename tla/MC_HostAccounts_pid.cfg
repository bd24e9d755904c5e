SPECIFICATION Spec
CONSTANTS
  u1 = u1
  u2 = u2
  x1 = x1
  x2 = x2
  admin = admin
  docker = docker
  guest = guest
  User = {u1, u2}
  Managed = {u1}
  Pid = {p1, p2}
  Uid = {x1, x2}
  Group = {admin, docker, guest}
  Known = {admin, docker}
  Implied <- MCImplied
  Grants <- MCGrants
  Assigned <- MCAssigned
  Candidates <- MCCandidates
  NoAccount = NoAccount
  Own = Own
  Nobody = Nobody
  MaxFaults = 0
  MaxLogins = 2
PROPERTY
  LoginKeepsAccount
CHECK_DEADLOCK FALSE
