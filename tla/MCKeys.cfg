CONSTANTS
  Key = {k1, k2, k3}
  Dir = {d1, d2}
  Service = {s1, s2, s3}
  Thread = {t1, t2}
  Configured = 1
  Default = 1
  None = None
SPECIFICATION Spec
SYMMETRY Symmetry
INVARIANTS
  JwksBounded
  TokenStaysPublished
  PairsMatch
  CertificateFits
  RestartKeepsKeys
