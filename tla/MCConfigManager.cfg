CONSTANTS
  Session = {s}
  Caller = {c}
  Mcp = Mcp
  Web = Web
  Person = {person}
  Client = {client}
  Page = Page
  Declaration = {NoHooks, hooked}
  NoHooks = NoHooks
  StrictHooks = TRUE
  Absent = Absent
  NoRevision = NoRevision
  NoPage = NoPage
  MaxCalls = 2
  MaxHandEdits = 1
SPECIFICATION Spec
ACTION_CONSTRAINTS EditorWaits McpAdopts
INVARIANTS
  QuietRuntimeIsCurrent
  HooksFollowSettings
  OnlyUnsavedEditsDiffer
PROPERTIES
  GuardedSavesLoseNothing
  AnswersAreTrue
  CurrentFormsLoseNothing
