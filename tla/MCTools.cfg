SPECIFICATION ToolsSpec
CONSTANTS
  Scenarios = {"calls", "chain", "mentions", "scan", "regex", "glob", "pages", "policy", "files", "pictures"}
  DbCalls = {d1, d2}
  DbSlots = 1
  MaxTables = 1
  MaxStatements = 1
  FirstTables <- MCTables
  Views = 3
  Costs = {1, 2}
  Texts <- MCTexts
  Shapes <- MCShapes
  Letters = {"a", "b"}
  MaxText = 3
  Globs <- MCGlobs
  GlobUrls <- MCUrls
  Windows = {"main", "tool"}
  Navigators = {"r"}
  MaxPages = 2
  MaxMoods = 2
  Nil = Nil
  MaxRows = 2
  MaxColumns = 4
  Names <- MCNames
  AppDirs <- MCDirs
  Links <- MCLinks
  Slots <- MCSlots
  EngineFiles <- MCEngine
  Searches <- MCSearches
  Anchors <- MCAnchors
  Requests <- MCRequests
  Subdirs <- MCSubdirs
  Contents <- MCContents
  Depths = {1}
  MaxFiles = 2
  MaxEntries = 2
  MaxFileChanges = 1
  Captures = {"a", "b"}
  Shown <- MCShown
  Geometries <- MCGeometries
  MaxPaints = 1
  MaxResizes = 1
  NoImage = NoImage
SYMMETRY DbSymmetry
INVARIANTS DatabaseIsOnlyRead TextsAreReadRight RecoveryIsSafe FilesAreTheApps PicturesAreTrue
CHECK_DEADLOCK FALSE
