CONSTANTS
  Code = {c1, c2}
  UserCode = {u1}
  tv = tv
  Client = {tv}
  User = {alice}
  Request = {q1, q2, q3}
  Lifetime = 1
  MaxPending = 2
  MaxTime = 2
  None = None
  openid = openid
  mail = mail
  Scope = {openid, mail}
  OpenId = openid
  Resource = {}
  DefaultUser = admin
  Configs <- MCConfigs
SPECIFICATION FlowSpec
SYMMETRY Symmetry
INVARIANTS
  OnlyTheApprover
  IndexLeadsToEntry
  TokensObeyPolicy
PROPERTIES
  LiveEntriesStay
  ImplementsOneTimeGrant
ACTION_CONSTRAINT DirectGrantsAlone
CHECK_DEADLOCK FALSE
