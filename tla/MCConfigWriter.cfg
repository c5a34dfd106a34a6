CONSTANTS
  save = save
  edit = edit
  remote = remote
  ui = ui
  mcp = mcp
  users = users
  settings = settings
  extra = extra
  Request <- Requests
  Process <- Processes
  ProcessOf <- Home
  File <- Files
  Dir = {1, 2}
  DirOf <- Parent
  Items <- Batches
  Any = Any
  None = None
SPECIFICATION FairSpec
INVARIANTS
  OutcomesAreTrue
  NoCircularWait
PROPERTIES
  NoLostUpdate
  ImplementsVersionedFiles
  CallsEnd
