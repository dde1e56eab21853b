CONSTANTS
  Games = {g1, g2}
  e1 = e1
  e2 = e2
  Editions = {e1, e2}
  Artifacts = {a1, a2}
  Series = {s1}
  Platforms = {snes}
  Titles = {x, y}
  LibraryPaths = {p1, p2}
  ManagedPaths = {m1}
  FileContents = {c1, c2}
  Nothing = nothing
  SortsBefore <- InOrder
  Callers = {b1, b2}
  MaxEdits = 3
  Sources = {w1, w2}
  x1 = x1
  Systems = {sys}
  ExportPaths = {x1}
  PathOf <- MCPathOf
  SystemOf <- MCSystemOf
  Bytes = {d1, d2}
  Plans = {plan}
  Builds = {b1, b2}
  MaxBuilds = 2
  MaxOutside = 2
  StatePaths = {p1, p2}
  FileBytes = {c1, c2}
  NoFile = nothing
  Roots = {g1, g2}
  Commands = {b1, b2}
  MaxCommands = 3
  MaxMoves = 2
SYMMETRY ContentSymmetry
SPECIFICATION ContentSpec
INVARIANTS VouchedRootsAreWhole HashIsOfItsPath ExportsStayBuildable
PROPERTIES BackupIsOneMoment PrimaryIsLostByLateChoiceOnly MergeIsAsReviewed UserFilesStay FailedBuildKeepsOutput
CHECK_DEADLOCK FALSE
