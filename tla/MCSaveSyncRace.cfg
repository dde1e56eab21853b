\* Two devices; the save of one is written while its agent replaces it.
CONSTANTS
  Streams = {s1}
  Devices = {d1, d2}
  Hashes = {c1, c2, c3}
  NoHash = NoHash
  EmptySave = EmptySave
  Handlers = {h1}
  Keys = {k1, k2}
  MaxRevisions = 3
  MaxSessions = 3
  MaxPlays = 1
  MaxCrashes = 0
  MaxOrphans = 0
  DirectoryStreams = {}
SYMMETRY Symmetry
SPECIFICATION AnySpec
PROPERTIES ReplacedIsRecoverable
CHECK_DEADLOCK FALSE
