CONSTANTS
  MaxVersions = 5
  Generations = {1}
  Fields = {"f", "g"}
  Headers = {"h1", "h2"}
  Regions <- MCRegions
  RegionVersions <- MCRegionVersions
  Compositions <- MCCompositions
  Routes <- MCRoutes
  LaterCompositions = {}
  LaterRoutes = {}
  LaterRows = 1
  i1 = i1
  i2 = i2
  Items = {i1, i2}
  Structures <- MCStructures
  RecoveryLimit = 1
  Releases = 2
  c1 = c1
  c2 = c2
  Clients = {c1, c2}
  FileCount = 2
  MaxRuns = 1
  MaxClock = 2
  Accounts = {"a", "b"}
  Admin = "a"
  Tenants = {"t1"}
  Places = {"town", "v1"}
  Home <- MCHome
  Townships = {"town"}
  Callers = {c1, c2}
  MaxSessions = 2
  MaxChanges = 2
  Repairs = {0, 1}
  MaxEvents = 2
  Starts = {"s1"}
  Governors = {"g1"}
  Presets = {"x"}
  Connections = {"e1", "e2"}
  Environment = "e1"
  MaxKeys = 2
  MaxRevision = 1
  Overlap = FALSE
  Objects = {"c", "d"}
  Children = {"x", "y"}
  MaxNumber = 2
  MaxEdits = 2
SPECIFICATION WorkflowSpec
SYMMETRY MCSymmetry
CHECK_DEADLOCK FALSE
INVARIANTS
  WorkflowsTypeOK
  PointersArePublished
  NeverOnDraft
  MatchMeansWhatItSays
  SameWorkbookSameDecision
  UncertaintyIsGoverned
  ResumesItsOwnWork
  CountsWhatWasThere
  AccessIsSound
  CallsEndWithTheirProcess
  SettingsAreSound
  RecoveryIsSound
PROPERTIES
  FinishedStaysFinished
