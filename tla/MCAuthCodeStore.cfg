CONSTANTS
  Code = {c1, c2}
  Client = {app, other}
  RedirectUri = {cb, native}
  User = {alice}
  Verifier = {v1, v2}
  Request = {q1, q2}
  CodeLifetime = 1
  MaxTime = 3
  None = None
SPECIFICATION Spec
SYMMETRY Symmetry
INVARIANTS
  RedeemedAsIssued
PROPERTIES
  OnlyRedemptionBurns
  ImplementsOneTimeGrant
