CONSTANTS
  t1 = t1  t2 = t2
  Tab = {t1}
  ann = ann  bob = bob
  Person = {ann, bob}
  Nobody = Nobody
  old = old  new = new
  Secret = {old, new}
  NoSecret = NoSecret
  redirect = redirect  post = post
  Message = {redirect, post}
  NoMessage = NoMessage
  Compressed <- MCCompressed
  NamesAcs <- MCNamesAcs
  Configuration <- MCConfiguration
  ReadOnly = FALSE
  MaxEntries = 2
  MaxRequests = 2
  MaxLoads = 1
SPECIFICATION Spec
INVARIANTS
  PersonaIsNotPassword
CHECK_DEADLOCK FALSE
