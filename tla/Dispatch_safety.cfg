CONSTANTS
  Scripts <- MCScripts
  Defines <- MCDefines
  Callbacks = {"OnLoad"}
  NoName = NoName
  Slots = {p1}
  Nobody = Nobody
  MaxSets = 2
  MaxJobs = 2
  MaxDepth = 5
  MaxHandles = 2
  MaxSessions = 1
  MaxResets = 1
SPECIFICATION Spec
INVARIANTS TypeOK ActiveIsTheCallbacks HandlesKeepTheirResult
PROPERTY SyncReturnsItsResult
