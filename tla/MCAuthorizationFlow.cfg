SPECIFICATION Spec
CONSTANTS
  Tab = {t1, t2}
  Code = {c1}
  web = web
  spa = spa
  cb1 = cb1
  cb1x = cb1x
  cb2 = cb2
  s1 = s1
  r1 = r1
  v1 = v1
  u1 = u1
  openid = openid
  Client = {web, spa}
  User = {u1}
  RedirectUri = {cb1, cb1x, cb2}
  Loopback <- MCLoopback
  Portless <- MCPortless
  Verifier = {v1}
  Scope = {openid, s1}
  Resource = {r1}
  Queries <- TabQueries
  Configs <- ProfileConfigs
  DefaultScope <- Openid
  None = None
  Absent = Absent
SYMMETRY Symmetry
INVARIANTS
  PublicClientsProvePossession
PROPERTIES
  CodesObeyPolicy
  PageIssuesForItself
  MintsObeyPolicy
