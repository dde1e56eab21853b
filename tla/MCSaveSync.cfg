\* Two devices with a directory save; one save is played and one run dies.
CONSTANTS
  Streams = {s1}
  Devices = {d1, d2}
  Hashes = {c1, c2}
  NoHash = NoHash
  EmptySave = EmptySave
  Handlers = {h1, h2}
  Keys = {k1, k2}
  MaxRevisions = 3
  MaxSessions = 3
  MaxPlays = 1
  MaxCrashes = 1
  MaxOrphans = 0
  DirectoryStreams = {s1}
SYMMETRY Symmetry
SPECIFICATION QuietSpec
INVARIANTS TerminalIsTruthful
PROPERTIES ReplacedIsRecoverable TerminalStays
CHECK_DEADLOCK FALSE
