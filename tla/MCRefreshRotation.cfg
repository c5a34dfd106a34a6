CONSTANTS
  TokenId = {t1, t2}
  Family = {f1, f2}
  Client = {web}
  User = {alice}
  Scope = {}
  Resource = {}
  Request = {q1, q2}
  Configs <- RotationConfigs
  Life = 1
  LongLife = 5
  Retention = 3
  MaxDelay = 1
  Grace = 1
  MaxTime = 3
  Forever = 99
  None = None
  Unset = Unset
  web = web
  spa = spa
  s1 = s1
  s2 = s2
  r1 = r1
  r2 = r2
SPECIFICATION Spec
SYMMETRY Symmetry
INVARIANTS
  RevocationOutlivesToken
  EndpointsAgree
  OneHeir
PROPERTIES
  SpentOnce
  BurntFamilyIsDead
  OnlyReuseBurns
