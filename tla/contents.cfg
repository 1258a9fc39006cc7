CONSTANTS
  PerCall = 2
  MaxColumns = 3
  Parts = {1, 2}
  Paths = {"p", "q"}
  FieldColumns = 2
  Catalog = {"known"}
  Codes = {"known", "new", "new1", "new2", "known1"}
  Dated <- MCDated
  MinRow = 2
  MaxRow = 4
  Widths <- MCWidths
  Plans <- MCPlans
  MaxRows = 3
  Origins <- MCOrigins
  Names = {0, 1}
  Figures = {0, 1, 2}
  FactSetDrafts <- MCFactSets
  ManifestDrafts <- MCManifests
  MetricDrafts <- MCMetrics
  PublishedFields = {"name", "number"}
  ScopeFiles = {"f1", "f2"}
  MaxRecords = 2
  SourceHeaders = {"h1", "h2"}
  TextLength = 2
  ProbeLength = 1
  GridRows = 4
  GridColumns = 3
  TableWidths = {2, 3, 4}
  BodyRows = 3
  Proposals = {"p1", "p2"}
  Anchored = {"p1"}
  name1 = name1
  name2 = name2
  Variants = {name1, name2}
  DraftVariants = {{}, {name1, name2}}
  MaxFieldVersions = 3
INIT Init
NEXT Next
SYMMETRY MCSymmetry
CHECK_DEADLOCK FALSE
INVARIANTS
  SheetsAreSound
  AnswersAreSound
  GovernedOnce
  ReuseReadsTheSameCells
  MachinePlanIsMaterializable
  StoredValuesAreFaithful
  
PROPERTIES
  LearningIsKept
