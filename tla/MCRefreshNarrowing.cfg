CONSTANTS
  TokenId = {t1, t2}
  Family = {f1}
  Client = {web, spa}
  User = {alice}
  Scope = {s1, s2}
  Resource = {r1, r2}
  Request = {q1}
  Configs <- NarrowingConfigs
  Life = 1
  LongLife = 5
  Retention = 1
  MaxDelay = 0
  Grace = 1
  MaxTime = 0
  Forever = 99
  None = None
  Unset = Unset
  web = web
  spa = spa
  s1 = s1
  s2 = s2
  r1 = r1
  r2 = r2
SPECIFICATION Spec
SYMMETRY Symmetry
PROPERTIES
  RefreshOnlyNarrows
